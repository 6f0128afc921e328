---------------------------- MODULE S2FS_proofs ----------------------------
(***************************************************************************)
(* What a reader of s2fs gets, for every set of tasks, every length of     *)
(* text and every way of cutting the reads; and the tree a mount makes,    *)
(* for every task tree and whatever is forked while it walks.              *)
(***************************************************************************)
EXTENDS S2FS, SequenceTheorems, FunctionTheorems, FiniteSetTheorems, TLAPS

\* Tasks that have been forked, dead or alive.
Forked == {t \in Pids : life[t] # "none"}

FrameType == [task : Pids, dir : Seq(Pids), cur : Pids \cup {Enter, Head0}]

\* The types the argument needs.
Types ==
    /\ life \in [Pids -> Lives] /\ life[Swapper] = "running"
    /\ children \in [Pids -> Seq(Pids \ {Swapper})]
    /\ mm \in SUBSET Pids
    /\ stack \in Seq(FrameType)
    /\ mount = "walking" => stack # <<>>
    /\ \A d \in tree : d.path \in Seq(Pids) /\ d.path # <<>>
    /\ rpc \in {"closed", "open", "print", "oops"}
    /\ file \in Pids
    /\ info \in Versions
    /\ found \in {"none", "pid", "task"}
    /\ offset \in Nat
    /\ got \in Seq(Versions \X Nat)
    /\ eof \in BOOLEAN /\ fixed \in BOOLEAN

\* A task that has an mm runs, and is not the swapper.
MmRuns == \A t \in mm : life[t] = "running" /\ t # Swapper

\* A task that is in a list has been forked, and every task is in one.
ListsForked == \A q \in Pids : \A i \in 1 .. Len(children[q]) : children[q][i] \in Forked
Linked == \A t \in Pids \ {Swapper} :
              life[t] \in {"running", "zombie"} => \E q \in Pids : Place(q, t) # {}

\* So have the tasks the walk is at, and those that have a name in the tree:
\* a file that can be opened is never that of a task still to come.
WalkForked ==
    \A i \in 1 .. Len(stack) :
        /\ stack[i].task \in Forked
        /\ stack[i].cur \in Pids => stack[i].cur \in Forked \ {Swapper}
TreeForked == \A d \in tree : NameOf(d) \in Forked

FileForked == rpc # "closed" => file \in Forked

\* A look-up that misses a task misses it for good.
MissIsFinal == rpc = "print" /\ found # "task" => file \notin mm

\* What has been read is what there is up to the offset.
Prefix ==
    rpc # "closed" /\ fixed /\ file \in mm =>
        /\ offset <= InfoLen[info]
        /\ got = SubSeq(Info, 1, offset)
        /\ eof => offset = InfoLen[info]
ClosedBlank == rpc = "closed" => offset = 0 /\ got = <<>> /\ eof = FALSE

ReadInv ==
    /\ Types
    /\ MmRuns /\ ListsForked /\ Linked /\ WalkForked /\ TreeForked
    /\ FileForked /\ MissIsFinal /\ Prefix /\ ClosedBlank
-----------------------------------------------------------------------------
(* Lists of siblings.                                                      *)

\* What is left of a list when one node is taken out.
LEMMA WithoutFacts ==
    ASSUME NEW S, NEW s \in Seq(S), NEW i \in 1 .. Len(s)
    PROVE  /\ Without(s, i) \in Seq(S)
           /\ Len(Without(s, i)) = Len(s) - 1
           /\ \A j \in 1 .. Len(s) - 1 :
                 Without(s, i)[j] = IF j < i THEN s[j] ELSE s[j + 1]
<1> DEFINE a == SubSeq(s, 1, i - 1)
           b == SubSeq(s, i + 1, Len(s))
<1>1. /\ a \in Seq(S) /\ Len(a) = i - 1
      /\ \A j \in 1 .. i - 1 : a[j] = s[j]
  OBVIOUS
<1>2. /\ b \in Seq(S) /\ Len(b) = Len(s) - i
      /\ \A j \in 1 .. Len(s) - i : b[j] = s[j + i]
  OBVIOUS
<1>l. Len(s) \in Nat
  OBVIOUS
<1>c. /\ a \o b \in Seq(S)
      /\ Len(a \o b) = Len(a) + Len(b)
      /\ \A j \in 1 .. Len(a) + Len(b) :
            (a \o b)[j] = IF j <= Len(a) THEN a[j] ELSE b[j - Len(a)]
  BY <1>1, <1>2, ConcatProperties
<1> HIDE DEF a, b
<1>3. /\ a \o b \in Seq(S)
      /\ Len(a \o b) = Len(s) - 1
      /\ \A j \in 1 .. Len(s) - 1 : (a \o b)[j] = IF j < i THEN a[j] ELSE b[j - (i - 1)]
  BY <1>1, <1>2, <1>l, <1>c
<1>4. ASSUME NEW j \in 1 .. Len(s) - 1
      PROVE  (a \o b)[j] = IF j < i THEN s[j] ELSE s[j + 1]
  <2>1. CASE j < i
    <3>1. j \in 1 .. i - 1
      BY <2>1
    <3> QED
      BY <1>1, <1>3, <2>1, <3>1
  <2>2. CASE ~ (j < i)
    <3> DEFINE k == j - (i - 1)
    <3>1. k \in 1 .. Len(s) - i /\ k + i = j + 1
      BY <1>l, <2>2
    <3>2. b[k] = s[k + i]
      BY <1>2, <3>1
    <3>3. (a \o b)[j] = b[k]
      BY <1>3, <2>2
    <3> QED
      BY <2>2, <3>1, <3>2, <3>3
  <2> QED
    BY <2>1, <2>2
<1> QED
  BY <1>3, <1>4 DEF Without, a, b

\* A node that is linked somewhere is found there.
LEMMA ParentFacts ==
    ASSUME NEW t, \E q \in Pids : Place(q, t) # {}
    PROVE  /\ Parent(t) \in Pids
           /\ Rank(t) \in 1 .. Len(children[Parent(t)])
           /\ children[Parent(t)][Rank(t)] = t
<1>1. Parent(t) \in Pids /\ Place(Parent(t), t) # {}
  BY DEF Parent
<1>2. Rank(t) \in Place(Parent(t), t)
  BY <1>1 DEF Rank
<1> QED
  BY <1>1, <1>2 DEF Place

\* The walk goes from forked tasks to forked tasks.
LEMMA NextNodeFacts ==
    ASSUME Types, ListsForked, Linked, NEW t \in Pids,
           NEW c \in (Forked \ {Swapper}) \cup {Head0}
    PROVE  NextNode(t, c) \in (Forked \ {Swapper}) \cup {Head0, Astray}
<1>1. \A q \in Pids : /\ Len(children[q]) \in Nat
                      /\ \A i \in 1 .. Len(children[q]) : children[q][i] \in Forked \ {Swapper}
  BY DEF Types, ListsForked
<1>2. CASE c = Head0
  <2>1. children[t] # <<>> => 1 \in 1 .. Len(children[t])
    BY DEF Types
  <2> QED
    BY <1>1, <1>2, <2>1 DEF NextNode
<1>3. CASE c # Head0 /\ life[c] = "gone"
  BY <1>3 DEF NextNode
<1>4. CASE c # Head0 /\ life[c] # "gone"
  <2>1. c \in Pids \ {Swapper} /\ life[c] \in {"running", "zombie"}
    BY <1>4 DEF Forked, Types, Lives
  <2>2. \E q \in Pids : Place(q, c) # {}
    BY <2>1 DEF Linked
  <2>3. Parent(c) \in Pids /\ Rank(c) \in 1 .. Len(children[Parent(c)])
    BY <2>2, ParentFacts
  <2>4. Rank(c) < Len(children[Parent(c)]) =>
          children[Parent(c)][Rank(c) + 1] \in Forked \ {Swapper}
    BY <1>1, <2>3
  <2> QED
    BY <1>4, <2>4 DEF NextNode
<1> QED
  BY <1>2, <1>3, <1>4
-----------------------------------------------------------------------------
(* The kernel's steps.                                                     *)

\* What speaks of forked tasks only stays true while tasks are forked.
LEMMA ForkedGrows ==
    ASSUME WalkForked, TreeForked, FileForked, Forked \subseteq Forked',
           UNCHANGED <<stack, tree, rpc, file>>
    PROVE  WalkForked' /\ TreeForked' /\ FileForked'
  BY DEF WalkForked, TreeForked, FileForked, NameOf

LEMMA ForkStep ==
    ASSUME ReadInv, NEW t \in Pids, NEW c \in NewPids, Fork(t, c)
    PROVE  ReadInv'
<1>0. /\ Types /\ MmRuns /\ ListsForked /\ Linked /\ WalkForked /\ TreeForked
      /\ FileForked /\ MissIsFinal /\ Prefix /\ ClosedBlank
  BY DEF ReadInv
<1>1. c \in Pids \ {Swapper}
  BY PidsAssumption DEF Pids, Swapper
<1>2. /\ life[c] = "none" /\ life[t] = "running"
      /\ life' = [life EXCEPT ![c] = "running"]
      /\ children' = [children EXCEPT ![t] = Append(@, c)]
      /\ mm' = IF t \in mm THEN mm \cup {c} ELSE mm
      /\ UNCHANGED <<mount, stack, tree, rpc, file, info, found, offset, got, eof, fixed>>
  BY DEF Fork, mountVars, readVars
<1>3. children[t] \in Seq(Pids \ {Swapper})
  BY <1>0 DEF Types
<1>4. /\ Append(children[t], c) \in Seq(Pids \ {Swapper})
      /\ Len(Append(children[t], c)) = Len(children[t]) + 1
      /\ \A i \in 1 .. Len(children[t]) : Append(children[t], c)[i] = children[t][i]
      /\ Append(children[t], c)[Len(children[t]) + 1] = c
  BY <1>1, <1>3
<1>5. Types'
  BY <1>0, <1>1, <1>2, <1>4 DEF Types, Lives
<1>6. Forked' = Forked \cup {c}
  BY <1>0, <1>1, <1>2 DEF Forked, Types
<1>7. MmRuns'
  BY <1>0, <1>1, <1>2 DEF MmRuns, Types
<1>8. ListsForked'
  <2> SUFFICES ASSUME NEW q \in Pids, NEW i \in 1 .. Len(children'[q])
               PROVE  children'[q][i] \in Forked'
    BY DEF ListsForked
  <2>1. CASE q # t
    BY <1>0, <1>2, <1>6, <2>1 DEF ListsForked, Types
  <2>2. CASE q = t
    <3>1. children'[q] = Append(children[t], c)
      BY <1>0, <1>2, <2>2 DEF Types
    <3>2. i \in 1 .. Len(children[t]) \/ i = Len(children[t]) + 1
      BY <1>3, <1>4, <3>1
    <3> QED
      BY <1>0, <1>4, <1>6, <3>1, <3>2 DEF ListsForked
  <2> QED
    BY <2>1, <2>2
<1>9. Linked'
  <2> SUFFICES ASSUME NEW u \in Pids \ {Swapper}, life'[u] \in {"running", "zombie"}
               PROVE  \E q \in Pids : Place(q, u)' # {}
    BY DEF Linked
  <2>0. children'[t] = Append(children[t], c)
    BY <1>0, <1>2 DEF Types
  <2>1. CASE u = c
    <3>1. Len(children[t]) + 1 \in Place(t, u)'
      BY <1>3, <1>4, <2>0, <2>1 DEF Place
    <3> QED
      BY <3>1
  <2>2. CASE u # c
    <3>1. life[u] \in {"running", "zombie"}
      BY <1>0, <1>2, <2>2 DEF Types
    <3>2. PICK q \in Pids : Place(q, u) # {}
      BY <1>0, <3>1 DEF Linked
    <3>3. PICK i \in 1 .. Len(children[q]) : children[q][i] = u
      BY <3>2 DEF Place
    <3>4. i \in 1 .. Len(children'[q]) /\ children'[q][i] = u
      <4>1. CASE q = t
        BY <1>3, <1>4, <2>0, <3>3, <4>1
      <4>2. CASE q # t
        BY <1>0, <1>2, <3>3, <4>2 DEF Types
      <4> QED
        BY <4>1, <4>2
    <3> QED
      BY <3>4 DEF Place
  <2> QED
    BY <2>1, <2>2
<1>10. WalkForked' /\ TreeForked' /\ FileForked'
  BY <1>0, <1>2, <1>6, ForkedGrows
<1>11. rpc # "closed" => file # c
  BY <1>0, <1>2 DEF FileForked, Forked
<1>12. MissIsFinal' /\ Prefix' /\ ClosedBlank'
  BY <1>0, <1>2, <1>11 DEF MissIsFinal, Prefix, ClosedBlank, Info
<1> QED
  BY <1>5, <1>7, <1>8, <1>9, <1>10, <1>12 DEF ReadInv

\* A step that takes no mm from a reader's file and gives none, and forks
\* nothing, leaves what is said of the walk, the tree and the reader.
LEMMA Elsewhere ==
    ASSUME ReadInv, Forked' = Forked, mm' \in SUBSET mm,
           UNCHANGED <<stack, tree, readVars>>
    PROVE  WalkForked' /\ TreeForked' /\ FileForked' /\ MissIsFinal' /\ Prefix' /\ ClosedBlank'
<1>1. WalkForked' /\ TreeForked' /\ FileForked'
  BY ForkedGrows DEF ReadInv, readVars
<1>2. MissIsFinal' /\ Prefix' /\ ClosedBlank'
  BY DEF ReadInv, MissIsFinal, Prefix, ClosedBlank, Info, readVars
<1> QED
  BY <1>1, <1>2

LEMMA ExitStep ==
    ASSUME ReadInv, NEW t \in NewPids, Exit(t)
    PROVE  ReadInv'
<1>0. Types /\ MmRuns /\ ListsForked /\ Linked
  BY DEF ReadInv
<1>1. t \in Pids \ {Swapper} /\ t # Reaper /\ Reaper \in Pids
  BY PidsAssumption DEF Pids, Reaper, Swapper
<1>2. /\ life[t] = "running"
      /\ life' = [life EXCEPT ![t] = "zombie"]
      /\ mm' = mm \ {t}
      /\ children' = [children EXCEPT ![t] = <<>>, ![Reaper] = @ \o children[t]]
      /\ UNCHANGED <<mount, stack, tree, readVars>>
  BY DEF Exit, mountVars
<1> DEFINE k == children[Reaper]
           m == children[t]
<1>3. k \in Seq(Pids \ {Swapper}) /\ m \in Seq(Pids \ {Swapper})
  BY <1>0, <1>1 DEF Types
<1>4. /\ children'[t] = <<>>
      /\ children'[Reaper] = k \o m
      /\ \A q \in Pids \ {t, Reaper} : children'[q] = children[q]
      /\ children' = [q \in Pids |-> children'[q]]
  BY <1>0, <1>1, <1>2 DEF Types
<1>5. /\ k \o m \in Seq(Pids \ {Swapper})
      /\ Len(k \o m) = Len(k) + Len(m)
      /\ \A i \in 1 .. Len(k) + Len(m) :
            (k \o m)[i] = IF i <= Len(k) THEN k[i] ELSE m[i - Len(k)]
  BY <1>3, ConcatProperties
<1>k. Len(k) \in Nat /\ Len(m) \in Nat
  BY <1>3
<1> HIDE DEF k, m
<1>6. Forked' = Forked
  BY <1>0, <1>1, <1>2 DEF Forked, Types
<1>7. Types'
  <2>1. children' \in [Pids -> Seq(Pids \ {Swapper})]
    <3>1. <<>> \in Seq(Pids \ {Swapper})
      OBVIOUS
    <3>2. \A q \in Pids : children[q] \in Seq(Pids \ {Swapper})
      BY <1>0 DEF Types
    <3>3. \A q \in Pids : children'[q] \in Seq(Pids \ {Swapper})
      BY <1>4, <1>5, <3>1, <3>2
    <3> QED
      BY <1>4, <3>3
  <2>2. life' \in [Pids -> Lives] /\ life'[Swapper] = "running"
    BY <1>0, <1>1, <1>2 DEF Types, Lives
  <2> QED
    BY <1>0, <1>2, <2>1, <2>2 DEF Types, readVars
<1>8. MmRuns'
  BY <1>0, <1>2 DEF MmRuns, Types
<1>9. ListsForked'
  <2> SUFFICES ASSUME NEW q \in Pids, NEW i \in 1 .. Len(children'[q])
               PROVE  children'[q][i] \in Forked
    BY <1>6 DEF ListsForked
  <2>1. CASE q = t
    BY <1>4, <2>1
  <2>2. CASE q = Reaper
    <3>1. i \in 1 .. Len(k) \/ i - Len(k) \in 1 .. Len(m)
      BY <1>4, <1>5, <1>k, <2>2
    <3>2. (k \o m)[i] = IF i <= Len(k) THEN k[i] ELSE m[i - Len(k)]
      BY <1>4, <1>5, <2>2
    <3>3. /\ \A j \in 1 .. Len(k) : k[j] \in Forked
          /\ \A j \in 1 .. Len(m) : m[j] \in Forked
      BY <1>0, <1>1 DEF ListsForked, k, m
    <3> QED
      BY <1>4, <1>k, <2>2, <3>1, <3>2, <3>3
  <2>3. CASE q \notin {t, Reaper}
    BY <1>0, <1>4, <2>3 DEF ListsForked
  <2> QED
    BY <2>1, <2>2, <2>3
<1>10. Linked'
  <2> SUFFICES ASSUME NEW u \in Pids \ {Swapper}, life'[u] \in {"running", "zombie"}
               PROVE  \E q \in Pids : Place(q, u)' # {}
    BY DEF Linked
  <2>1. life[u] \in {"running", "zombie"}
    BY <1>0, <1>1, <1>2 DEF Types
  <2>2. PICK q \in Pids : Place(q, u) # {}
    BY <1>0, <2>1 DEF Linked
  <2>3. PICK i \in 1 .. Len(children[q]) : children[q][i] = u
    BY <2>2 DEF Place
  <2>4. CASE q = t
    <3>1. Len(k) + i \in 1 .. Len(k) + Len(m) /\ (k \o m)[Len(k) + i] = u
      BY <1>5, <1>k, <2>3, <2>4 DEF m
    <3>2. Len(k) + i \in Place(Reaper, u)'
      BY <1>4, <1>5, <3>1 DEF Place
    <3> QED
      BY <1>1, <3>2
  <2>5. CASE q = Reaper
    <3>1. i \in 1 .. Len(k) + Len(m) /\ (k \o m)[i] = u
      BY <1>5, <1>k, <2>3, <2>5 DEF k
    <3>2. i \in Place(Reaper, u)'
      BY <1>4, <1>5, <3>1 DEF Place
    <3> QED
      BY <1>1, <3>2
  <2>6. CASE q \notin {t, Reaper}
    <3>1. i \in Place(q, u)'
      BY <1>4, <2>3, <2>6 DEF Place
    <3> QED
      BY <3>1
  <2> QED
    BY <2>4, <2>5, <2>6
<1>11. WalkForked' /\ TreeForked' /\ FileForked' /\ MissIsFinal' /\ Prefix' /\ ClosedBlank'
  BY <1>2, <1>6, Elsewhere
<1> QED
  BY <1>7, <1>8, <1>9, <1>10, <1>11 DEF ReadInv

LEMMA ReapStep ==
    ASSUME ReadInv, NEW t \in NewPids, Reap(t)
    PROVE  ReadInv'
<1>0. Types /\ MmRuns /\ ListsForked /\ Linked
  BY DEF ReadInv
<1>1. t \in Pids \ {Swapper}
  BY PidsAssumption DEF Pids, Swapper
<1>z. life[t] = "zombie"
  BY DEF Reap
<1>f. PICK f \in Pids, r \in Nat :
        /\ f = Parent(t) /\ r = Rank(t)
        /\ r \in 1 .. Len(children[f]) /\ children[f][r] = t
  BY <1>0, <1>1, <1>z, ParentFacts DEF Linked
<1> DEFINE k == children[f]
<1>2. /\ life[t] = "zombie"
      /\ life' = [life EXCEPT ![t] = "gone"]
      /\ children' = [children EXCEPT ![f] = Without(k, r)]
      /\ UNCHANGED <<mm, mount, stack, tree, readVars>>
  BY <1>f DEF Reap, mountVars
<1>3. f \in Pids /\ r \in 1 .. Len(k) /\ k[r] = t
  BY <1>f
<1>4. k \in Seq(Pids \ {Swapper}) /\ Len(k) \in Nat
  BY <1>0, <1>3 DEF Types
<1>5. /\ Without(k, r) \in Seq(Pids \ {Swapper})
      /\ Len(Without(k, r)) = Len(k) - 1
      /\ \A j \in 1 .. Len(k) - 1 :
            Without(k, r)[j] = IF j < r THEN k[j] ELSE k[j + 1]
  BY <1>3, <1>4, WithoutFacts
<1>6. /\ children'[f] = Without(k, r)
      /\ \A q \in Pids \ {f} : children'[q] = children[q]
  BY <1>0, <1>2, <1>3 DEF Types
<1>e. \A j \in 1 .. Len(k) : k[j] \in Forked
  BY <1>0, <1>3 DEF ListsForked
<1>p. \A u : \A i \in 1 .. Len(k) : k[i] = u => i \in Place(f, u)
  BY DEF Place
<1>q. \A u : \A i \in Place(f, u) : i \in 1 .. Len(k) /\ k[i] = u
  BY DEF Place
<1>7. Forked' = Forked
  BY <1>0, <1>1, <1>2 DEF Forked, Types
<1>8. Types'
  BY <1>0, <1>1, <1>2, <1>3, <1>5 DEF Types, Lives, readVars
<1>9. MmRuns'
  BY <1>0, <1>2 DEF MmRuns, Types
<1> HIDE DEF k
<1>10. ListsForked'
  <2> SUFFICES ASSUME NEW q \in Pids, NEW i \in 1 .. Len(children'[q])
               PROVE  children'[q][i] \in Forked
    BY <1>7 DEF ListsForked
  <2>1. CASE q = f
    <3>1. i \in 1 .. Len(k) - 1 /\ i + 1 \in 1 .. Len(k) /\ i \in 1 .. Len(k)
      BY <1>4, <1>5, <1>6, <2>1
    <3> QED
      BY <1>5, <1>6, <1>e, <2>1, <3>1
  <2>2. CASE q # f
    BY <1>0, <1>6, <2>2 DEF ListsForked
  <2> QED
    BY <2>1, <2>2
<1>11. Linked'
  <2> SUFFICES ASSUME NEW u \in Pids \ {Swapper}, life'[u] \in {"running", "zombie"}
               PROVE  \E q \in Pids : Place(q, u)' # {}
    BY DEF Linked
  <2>1. u # t /\ life[u] \in {"running", "zombie"}
    BY <1>0, <1>1, <1>2 DEF Types
  <2>2. PICK q \in Pids : Place(q, u) # {}
    BY <1>0, <2>1 DEF Linked
  <2>3. CASE q = f
    <3>1. PICK i \in 1 .. Len(k) : k[i] = u
      BY <1>q, <2>2, <2>3
    <3>2. i # r
      BY <1>3, <2>1, <3>1
    <3>3. CASE i < r
      <4>1. i \in 1 .. Len(k) - 1 /\ Without(k, r)[i] = u
        BY <1>3, <1>4, <1>5, <3>1, <3>3
      <4>2. i \in Place(f, u)'
        BY <1>5, <1>6, <4>1 DEF Place
      <4> QED
        BY <1>3, <4>2
    <3>4. CASE i > r
      <4>1. i - 1 \in 1 .. Len(k) - 1 /\ Without(k, r)[i - 1] = u
        BY <1>3, <1>4, <1>5, <3>1, <3>4
      <4>2. i - 1 \in Place(f, u)'
        BY <1>5, <1>6, <4>1 DEF Place
      <4> QED
        BY <1>3, <4>2
    <3> QED
      BY <1>3, <3>1, <3>2, <3>3, <3>4
  <2>4. CASE q # f
    <3>1. Place(q, u)' = Place(q, u)
      BY <1>6, <2>4 DEF Place
    <3> QED
      BY <2>2, <3>1
  <2> QED
    BY <2>3, <2>4
<1>12. WalkForked' /\ TreeForked' /\ FileForked' /\ MissIsFinal' /\ Prefix' /\ ClosedBlank'
  BY <1>2, <1>7, Elsewhere
<1> QED
  BY <1>8, <1>9, <1>10, <1>11, <1>12 DEF ReadInv

LEMMA RunStep ==
    ASSUME ReadInv, Run
    PROVE  ReadInv'
<1>1. /\ info' = 1 - info /\ fixed' = FALSE
      /\ UNCHANGED <<rpc, file, found, offset, got, eof, life, children, mm, mount, stack, tree>>
  BY DEF Run, kernelVars, mountVars
<1>v. info' \in Versions
  BY <1>1 DEF ReadInv, Types, Versions
<1>2. Types'
  BY <1>1, <1>v DEF ReadInv, Types
<1>3. Forked' = Forked
  BY <1>1 DEF Forked
<1>4. MmRuns' /\ ListsForked' /\ Linked'
  BY <1>1, <1>3 DEF ReadInv, MmRuns, ListsForked, Linked, Place
<1>5. WalkForked' /\ TreeForked' /\ FileForked'
  BY <1>1, <1>3, ForkedGrows DEF ReadInv
<1>6. MissIsFinal' /\ Prefix' /\ ClosedBlank'
  BY <1>1 DEF ReadInv, MissIsFinal, Prefix, ClosedBlank
<1> QED
  BY <1>2, <1>4, <1>5, <1>6 DEF ReadInv

LEMMA KernelStep == ReadInv /\ Kernel => ReadInv'
<1> SUFFICES ASSUME ReadInv, Kernel PROVE ReadInv'
  OBVIOUS
<1>1. ASSUME NEW t \in NewPids, Setpgrp(t) PROVE ReadInv'
  <2>1. UNCHANGED <<life, children, mm, mount, stack, tree, rpc, file, info, found,
                    offset, got, eof, fixed>>
    BY <1>1 DEF Setpgrp, mountVars, readVars
  <2> QED
    BY <2>1 DEF ReadInv, Types, MmRuns, ListsForked, Linked, Place, Forked, WalkForked,
                TreeForked, NameOf, FileForked, MissIsFinal, Prefix, ClosedBlank, Info
<1> QED
  BY <1>1, ForkStep, ExitStep, ReapStep, RunStep DEF Kernel
-----------------------------------------------------------------------------
(* Mounting and unmounting.                                                *)

\* A step of the mount leaves the tasks and the reader alone.
LEMMA MountOnly ==
    ASSUME ReadInv, UNCHANGED <<kernelVars, readVars>>,
           stack' \in Seq(FrameType),
           mount' = "walking" => stack' # <<>>,
           \A d \in tree' : d.path \in Seq(Pids) /\ d.path # <<>>,
           \A i \in 1 .. Len(stack') :
               /\ stack'[i].task \in Forked
               /\ stack'[i].cur \in Pids => stack'[i].cur \in Forked \ {Swapper},
           \A d \in tree' : NameOf(d) \in Forked
    PROVE  ReadInv'
<1>1. UNCHANGED <<life, children, mm, rpc, file, info, found, offset, got, eof, fixed>>
  BY DEF kernelVars, readVars
<1>2. Forked' = Forked
  BY <1>1 DEF Forked
<1>3. Types'
  BY <1>1 DEF ReadInv, Types
<1>4. MmRuns' /\ ListsForked' /\ Linked'
  BY <1>1, <1>2 DEF ReadInv, MmRuns, ListsForked, Linked, Place
<1>5. WalkForked' /\ TreeForked' /\ FileForked'
  BY <1>1, <1>2 DEF ReadInv, WalkForked, TreeForked, FileForked, NameOf
<1>6. MissIsFinal' /\ Prefix' /\ ClosedBlank'
  BY <1>1 DEF ReadInv, MissIsFinal, Prefix, ClosedBlank, Info
<1> QED
  BY <1>3, <1>4, <1>5, <1>6 DEF ReadInv

\* A sequence of frames that all fit, with one more that fits.
LEMMA Fits ==
    ASSUME NEW s \in Seq(FrameType), NEW e \in FrameType,
           \A i \in 1 .. Len(s) : /\ s[i].task \in Forked
                                  /\ s[i].cur \in Pids => s[i].cur \in Forked \ {Swapper},
           e.task \in Forked,
           e.cur \in Pids => e.cur \in Forked \ {Swapper}
    PROVE  /\ Append(s, e) \in Seq(FrameType)
           /\ Append(s, e) # <<>>
           /\ \A i \in 1 .. Len(Append(s, e)) :
                 /\ Append(s, e)[i].task \in Forked
                 /\ Append(s, e)[i].cur \in Pids => Append(s, e)[i].cur \in Forked \ {Swapper}
<1>1. /\ Append(s, e) \in Seq(FrameType)
      /\ Len(Append(s, e)) = Len(s) + 1 /\ Len(s) \in Nat
      /\ \A i \in 1 .. Len(s) : Append(s, e)[i] = s[i]
      /\ Append(s, e)[Len(s) + 1] = e
  OBVIOUS
<1>2. \A i \in 1 .. Len(Append(s, e)) : i \in 1 .. Len(s) \/ i = Len(s) + 1
  BY <1>1
<1>3. Append(s, e) # <<>>
  BY <1>1
<1> QED
  BY <1>1, <1>2, <1>3

\* The frames below the innermost one, and that one.
LEMMA Frames ==
    ASSUME Types, WalkForked, stack # <<>>
    PROVE  /\ Top \in FrameType
           /\ Top.task \in Forked
           /\ Top.cur \in Pids => Top.cur \in Forked \ {Swapper}
           /\ Pop \in Seq(FrameType)
           /\ Len(Pop) = Len(stack) - 1
           /\ \A i \in 1 .. Len(Pop) :
                 /\ Pop[i].task \in Forked
                 /\ Pop[i].cur \in Pids => Pop[i].cur \in Forked \ {Swapper}
<1>1. stack \in Seq(FrameType) /\ Len(stack) \in Nat \ {0}
  BY DEF Types
<1>2. Len(stack) \in 1 .. Len(stack)
  BY <1>1
<1>3. /\ Top \in FrameType /\ Top.task \in Forked
      /\ Top.cur \in Pids => Top.cur \in Forked \ {Swapper}
  BY <1>1, <1>2 DEF Top, WalkForked
<1>4. /\ Pop \in Seq(FrameType) /\ Len(Pop) = Len(stack) - 1
      /\ \A i \in 1 .. Len(Pop) : Pop[i] = stack[i]
  <2>1. 1 \in 1 .. Len(stack) + 1 /\ Len(stack) - 1 \in 0 .. Len(stack)
    BY <1>1
  <2>2. /\ Pop \in Seq(FrameType)
        /\ Len(Pop) = IF 1 <= Len(stack) - 1 THEN Len(stack) - 1 - 1 + 1 ELSE 0
        /\ \A i \in 1 .. Len(stack) - 1 - 1 + 1 : Pop[i] = stack[1 + i - 1]
    BY <1>1, <2>1, SubSeqProperties DEF Pop
  <2>3. Len(Pop) = Len(stack) - 1
    <3>1. \A n \in Nat \ {0} : (IF 1 <= n - 1 THEN n - 1 - 1 + 1 ELSE 0) = n - 1
      OBVIOUS
    <3> QED
      BY <1>1, <2>2, <3>1
  <2>4. \A i \in 1 .. Len(Pop) : Pop[i] = stack[i]
    BY <1>1, <2>2, <2>3
  <2> QED
    BY <2>2, <2>3, <2>4
<1>5. \A i \in 1 .. Len(Pop) : i \in 1 .. Len(stack)
  BY <1>1, <1>4
<1> QED
  BY <1>3, <1>4, <1>5 DEF WalkForked

LEMMA MountStep ==
    ASSUME ReadInv, Mount
    PROVE  ReadInv'
<1>1. Swapper \in Forked
  BY DEF ReadInv, Types, Forked, Pids
<1>2. /\ stack' = <<Frame(Swapper, <<>>)>>
      /\ UNCHANGED <<tree, kernelVars, readVars>>
  BY DEF Mount
<1>3. Frame(Swapper, <<>>) \in FrameType
  BY DEF Frame, FrameType, Pids
<1>4. Enter \notin Pids
  BY PidsAssumption DEF Enter, Pids, Swapper, Reaper, Kthreadd
<1>5. /\ stack' \in Seq(FrameType)
      /\ stack' # <<>>
      /\ \A i \in 1 .. Len(stack') : i = 1
      /\ stack'[1] = Frame(Swapper, <<>>)
  BY <1>2, <1>3
<1>6. \A i \in 1 .. Len(stack') :
        /\ stack'[i].task \in Forked
        /\ stack'[i].cur \in Pids => stack'[i].cur \in Forked \ {Swapper}
  BY <1>1, <1>4, <1>5 DEF Frame
<1>7. \A d \in tree' : d.path \in Seq(Pids) /\ d.path # <<>> /\ NameOf(d) \in Forked
  BY <1>2 DEF ReadInv, Types, TreeForked
<1> QED
  BY <1>2, <1>5, <1>6, <1>7, MountOnly

\* A dentry for the task the walk is at, in the directory it goes to.
LEMMA NewDentry ==
    ASSUME NEW d \in Seq(Pids), NEW t \in Forked, NEW kind
    PROVE  LET e == Dentry(kind, Append(d, t))
           IN  /\ e.path \in Seq(Pids) /\ e.path # <<>>
               /\ NameOf(e) \in Forked
<1>1. t \in Pids
  BY DEF Forked
<1>2. /\ Append(d, t) \in Seq(Pids)
      /\ Len(Append(d, t)) = Len(d) + 1 /\ Len(d) \in Nat
      /\ Append(d, t)[Len(d) + 1] = t
  BY <1>1
<1>3. Append(d, t) # <<>>
  BY <1>2
<1> QED
  BY <1>2, <1>3 DEF Dentry, NameOf

LEMMA WalkStep ==
    ASSUME ReadInv, Walk
    PROVE  ReadInv'
<1>0. Types /\ ListsForked /\ Linked /\ WalkForked /\ TreeForked
  BY DEF ReadInv
<1>1. mount = "walking" /\ stack # <<>>
  BY <1>0 DEF Walk, AddFile, AddDir, NextChild, Types
<1>2. /\ Top \in FrameType
      /\ Top.task \in Forked
      /\ Top.cur \in Pids => Top.cur \in Forked \ {Swapper}
      /\ Pop \in Seq(FrameType)
      /\ Len(Pop) = Len(stack) - 1
      /\ \A i \in 1 .. Len(Pop) : /\ Pop[i].task \in Forked
                                  /\ Pop[i].cur \in Pids => Pop[i].cur \in Forked \ {Swapper}
  BY <1>0, <1>1, Frames
<1>3. Top.task \in Pids /\ Top.dir \in Seq(Pids) /\ Top.cur \in Pids \cup {Enter, Head0}
  BY <1>2 DEF FrameType
<1>4. Enter \notin Pids /\ Head0 \notin Pids /\ Astray \notin Pids
  BY PidsAssumption DEF Enter, Head0, Astray, Pids, Swapper, Reaper, Kthreadd
<1>5. \A d \in tree : d.path \in Seq(Pids) /\ d.path # <<>> /\ NameOf(d) \in Forked
  BY <1>0 DEF Types, TreeForked
<1>6. Len(stack) # 1 => Pop # <<>>
  <2>1. Len(stack) \in Nat \ {0}
    BY <1>0, <1>1 DEF Types
  <2> QED
    BY <1>2, <2>1
<1>7. CASE AddFile
  <2>1. /\ tree' = tree \cup {Dentry("file", Append(Top.dir, Top.task))}
        /\ stack' = Pop
        /\ mount' = IF Len(stack) = 1 THEN "mounted" ELSE mount
        /\ UNCHANGED <<kernelVars, readVars>>
    BY <1>7 DEF AddFile
  <2>2. \A d \in tree' : d.path \in Seq(Pids) /\ d.path # <<>> /\ NameOf(d) \in Forked
    BY <1>2, <1>3, <1>5, <2>1, NewDentry
  <2>3. mount' = "walking" => stack' # <<>>
    BY <1>6, <2>1
  <2>4. /\ stack' \in Seq(FrameType)
        /\ \A i \in 1 .. Len(stack') :
              /\ stack'[i].task \in Forked
              /\ stack'[i].cur \in Pids => stack'[i].cur \in Forked \ {Swapper}
    BY <1>2, <2>1
  <2> QED
    BY <2>1, <2>2, <2>3, <2>4, MountOnly
<1>8. CASE AddDir
  <2> DEFINE p == Append(Top.dir, Top.task)
             e == [task |-> Top.task, dir |-> p, cur |-> Head0]
  <2>1. /\ tree' = tree \cup {Dentry("dir", p), Dentry("file", Append(p, Top.task))}
        /\ stack' = Append(Pop, e)
        /\ UNCHANGED <<mount, kernelVars, readVars>>
    BY <1>8 DEF AddDir
  <2>2. p \in Seq(Pids)
    BY <1>3
  <2>3. \A d \in tree' : d.path \in Seq(Pids) /\ d.path # <<>> /\ NameOf(d) \in Forked
    BY <1>2, <1>3, <1>5, <2>1, <2>2, NewDentry
  <2>4. e \in FrameType /\ e.task \in Forked /\ e.cur \notin Pids
    BY <1>2, <1>3, <1>4, <2>2 DEF FrameType
  <2> HIDE DEF e
  <2>5. /\ stack' \in Seq(FrameType)
        /\ stack' # <<>>
        /\ \A i \in 1 .. Len(stack') :
              /\ stack'[i].task \in Forked
              /\ stack'[i].cur \in Pids => stack'[i].cur \in Forked \ {Swapper}
    BY <1>2, <2>1, <2>4, Fits
  <2> QED
    BY <2>1, <2>3, <2>5, MountOnly
<1>9. CASE NextChild
  <2> DEFINE n == NextNode(Top.task, Top.cur)
             e == [Top EXCEPT !.cur = n]
             at == Append(Pop, e)
             fr == Frame(n, Top.dir)
  <2>0. mount' = IF n = Astray THEN "astray"
                 ELSE IF n = Head0 /\ Len(stack) = 1 THEN "mounted" ELSE mount
    BY <1>9 DEF NextChild
  <2>1. /\ stack' = IF n = Astray THEN stack ELSE IF n = Head0 THEN Pop
                    ELSE IF children[Top.task] # <<>> THEN Append(at, fr) ELSE at
        /\ Top.cur # Enter
        /\ UNCHANGED <<tree, kernelVars, readVars>>
    BY <1>9 DEF NextChild
  <2>2. n \in (Forked \ {Swapper}) \cup {Head0, Astray}
    BY <1>0, <1>2, <1>3, <2>1, NextNodeFacts
  <2>3. n # Astray => /\ e \in FrameType /\ e.task \in Forked
                      /\ e.cur \in Pids => e.cur \in Forked \ {Swapper}
    BY <1>2, <1>3, <1>4, <2>2 DEF FrameType, Forked
  <2>4. n \in Pids => fr \in FrameType /\ fr.task \in Forked /\ fr.cur \notin Pids
    BY <1>3, <1>4, <2>2 DEF Frame, FrameType
  <2>n. n \in Pids \/ n = Head0 \/ n = Astray
    BY <2>2 DEF Forked
  <2>a. Astray \notin Pids /\ Astray # Head0
    BY <1>4 DEF Head0, Astray
  <2> HIDE DEF e, fr, n
  <2>5. n # Astray =>
          /\ at \in Seq(FrameType) /\ at # <<>>
          /\ \A i \in 1 .. Len(at) : /\ at[i].task \in Forked
                                     /\ at[i].cur \in Pids => at[i].cur \in Forked \ {Swapper}
    BY <1>2, <2>3, Fits
  <2> HIDE DEF at
  <2>6. n \in Pids =>
          /\ Append(at, fr) \in Seq(FrameType) /\ Append(at, fr) # <<>>
          /\ \A i \in 1 .. Len(Append(at, fr)) :
                /\ Append(at, fr)[i].task \in Forked
                /\ Append(at, fr)[i].cur \in Pids => Append(at, fr)[i].cur \in Forked \ {Swapper}
    BY <2>4, <2>5, <2>a, Fits
  <2>7. /\ stack' \in Seq(FrameType)
        /\ \A i \in 1 .. Len(stack') :
              /\ stack'[i].task \in Forked
              /\ stack'[i].cur \in Pids => stack'[i].cur \in Forked \ {Swapper}
    <3>0. CASE n = Astray
      BY <1>0, <2>1, <3>0 DEF Types, WalkForked
    <3>1. CASE stack' = Pop
      BY <1>2, <3>1
    <3>2. CASE n # Astray /\ stack' = at
      BY <2>5, <3>2
    <3>3. CASE n \in Pids /\ stack' = Append(at, fr)
      BY <2>6, <3>3
    <3> QED
      BY <2>1, <2>n, <3>0, <3>1, <3>2, <3>3
  <2>8. mount' = "walking" => stack' # <<>>
    <3>1. CASE n = Head0
      BY <1>1, <1>6, <2>0, <2>1, <2>a, <3>1
    <3>2. CASE n # Head0
      BY <2>0, <2>1, <2>5, <2>6, <2>n, <3>2
    <3> QED
      BY <3>1, <3>2
  <2>9. \A d \in tree' : d.path \in Seq(Pids) /\ d.path # <<>> /\ NameOf(d) \in Forked
    BY <1>5, <2>1
  <2> QED
    BY <2>1, <2>7, <2>8, <2>9, MountOnly
<1> QED
  BY <1>7, <1>8, <1>9 DEF Walk

LEMMA UnmountStep ==
    ASSUME ReadInv, Unmount
    PROVE  ReadInv'
<1>1. tree' = {} /\ mount' = "none" /\ UNCHANGED <<stack, kernelVars, readVars>>
  BY DEF Unmount
<1> QED
  BY <1>1, MountOnly DEF ReadInv, Types, WalkForked
-----------------------------------------------------------------------------
(* The reader's steps.                                                     *)

\* A step of the reader leaves the tasks and the tree alone.
LEMMA ReadOnly ==
    ASSUME ReadInv, UNCHANGED <<kernelVars, mountVars>>,
           rpc' \in {"closed", "open", "print", "oops"}, file' \in Pids, info' \in Versions,
           found' \in {"none", "pid", "task"}, offset' \in Nat,
           got' \in Seq(Versions \X Nat), eof' \in BOOLEAN, fixed' \in BOOLEAN,
           FileForked', MissIsFinal', Prefix', ClosedBlank'
    PROVE  ReadInv'
<1>1. UNCHANGED <<life, children, mm, mount, stack, tree>>
  BY DEF kernelVars, mountVars
<1>2. Forked' = Forked
  BY <1>1 DEF Forked
<1>3. Types'
  BY <1>1 DEF ReadInv, Types
<1>4. MmRuns' /\ ListsForked' /\ Linked'
  BY <1>1, <1>2 DEF ReadInv, MmRuns, ListsForked, Linked, Place
<1>5. WalkForked' /\ TreeForked'
  BY <1>1, <1>2 DEF ReadInv, WalkForked, TreeForked, NameOf
<1> QED
  BY <1>3, <1>4, <1>5 DEF ReadInv

\* The text of a task is a sequence of the length its version has.
LEMMA InfoFacts ==
    ASSUME info \in Versions
    PROVE  /\ Info \in Seq(Versions \X Nat)
           /\ Len(Info) = InfoLen[info]
           /\ InfoLen[info] \in Nat \ {0}
<1>1. InfoLen[info] \in Nat \ {0}
  BY LenAssumption
<1>2. \A i \in 1 .. InfoLen[info] : <<info, i>> \in Versions \X Nat
  BY <1>1
<1> QED
  BY <1>1, <1>2 DEF Info

LEMMA ReadStep ==
    ASSUME ReadInv, Read
    PROVE  ReadInv'
<1>0. /\ Types /\ MmRuns /\ TreeForked /\ FileForked
      /\ MissIsFinal /\ Prefix /\ ClosedBlank
  BY DEF ReadInv
<1>t. /\ rpc \in {"closed", "open", "print", "oops"} /\ file \in Pids /\ info \in Versions
      /\ found \in {"none", "pid", "task"} /\ offset \in Nat
      /\ got \in Seq(Versions \X Nat) /\ eof \in BOOLEAN /\ fixed \in BOOLEAN
  BY <1>0 DEF Types
<1>1. ASSUME NEW d \in Files, Open(d)
      PROVE  ReadInv'
  <2>1. /\ rpc = "closed" /\ rpc' = "open" /\ file' = NameOf(d) /\ info' \in Versions
        /\ fixed' = TRUE /\ UNCHANGED <<found, offset, got, eof>>
        /\ UNCHANGED <<kernelVars, mountVars>>
    BY <1>1 DEF Open
  <2>2. file' \in Forked /\ Forked' = Forked /\ Forked \subseteq Pids
    BY <1>0, <1>1, <2>1 DEF Files, TreeForked, Forked, kernelVars
  <2>3. offset' = 0 /\ got' = <<>> /\ eof' = FALSE
    BY <1>0, <2>1 DEF ClosedBlank
  <2>4. FileForked' /\ MissIsFinal' /\ ClosedBlank'
    BY <2>1, <2>2 DEF FileForked, MissIsFinal, ClosedBlank
  <2>5. Prefix'
    <3>1. /\ Info' \in Seq(Versions \X Nat)
          /\ InfoLen[info'] \in Nat
      <4>1. InfoLen[info'] \in Nat
        BY <2>1, LenAssumption
      <4> QED
        BY <2>1, <4>1 DEF Info
    <3>2. SubSeq(Info', 1, 0) = <<>>
      BY <3>1
    <3> QED
      BY <2>3, <3>1, <3>2 DEF Prefix
  <2> QED
    BY <1>t, <2>1, <2>2, <2>4, <2>5, ReadOnly
<1>2. CASE Lookup
  <2>1. /\ rpc = "open" /\ rpc' = "print"
        /\ found' = IF file # Swapper /\ file \in Tasks THEN "task"
                    ELSE IF file # Swapper /\ \E t \in Tasks : pgrp[t] = file THEN "pid"
                    ELSE "none"
        /\ UNCHANGED <<file, info, offset, got, eof, fixed>>
        /\ UNCHANGED <<kernelVars, mountVars>>
    BY <1>2 DEF Lookup
  <2>2. file \in mm => found' = "task"
    BY <1>0, <1>t, <2>1 DEF MmRuns, Tasks
  <2>3. FileForked' /\ MissIsFinal' /\ Prefix' /\ ClosedBlank'
    BY <1>0, <2>1, <2>2 DEF FileForked, MissIsFinal, Prefix, ClosedBlank, Forked, Info,
                            kernelVars
  <2> QED
    BY <1>t, <2>1, <2>3, ReadOnly
<1>3. CASE ReadGone \/ ReadOops
  <2>1. /\ rpc = "print" /\ rpc' \in {"open", "oops"}
        /\ eof' = eof \/ (eof' = TRUE /\ found = "none")
        /\ UNCHANGED <<file, info, found, offset, got, fixed>>
        /\ UNCHANGED <<kernelVars, mountVars>>
    BY <1>3 DEF ReadGone, ReadOops
  <2>2. found = "none" => file \notin mm
    BY <1>0, <2>1 DEF MissIsFinal
  <2>3. FileForked' /\ MissIsFinal' /\ ClosedBlank'
    BY <1>0, <2>1 DEF FileForked, MissIsFinal, ClosedBlank, Forked, kernelVars
  <2>4. Prefix'
    BY <1>0, <2>1, <2>2 DEF Prefix, Info, kernelVars
  <2> QED
    BY <1>t, <2>1, <2>3, <2>4, ReadOnly
<1>4. CASE Close
  <2>1. /\ rpc' = "closed" /\ file' = 0 /\ info' = 0 /\ found' = "none"
        /\ offset' = 0 /\ got' = <<>> /\ eof' = FALSE /\ fixed' = fixed
        /\ UNCHANGED <<kernelVars, mountVars>>
    BY <1>4 DEF Close
  <2>2. FileForked' /\ MissIsFinal' /\ Prefix' /\ ClosedBlank'
    BY <2>1 DEF FileForked, MissIsFinal, Prefix, ClosedBlank
  <2>3. 0 \in Pids /\ 0 \in Versions /\ <<>> \in Seq(Versions \X Nat)
    BY DEF Pids, Swapper, Versions
  <2> QED
    BY <1>t, <2>1, <2>2, <2>3, ReadOnly
<1>5. ASSUME NEW n \in 1 .. MaxCount, ReadInfo(n)
      PROVE  ReadInv'
  <2> DEFINE m == Copied(Info, n)
             len == InfoLen[info]
  <2>0. Info \in Seq(Versions \X Nat) /\ Len(Info) = len /\ len \in Nat /\ n \in Nat \ {0}
    BY <1>t, InfoFacts, CountAssumption
  <2>1. /\ rpc = "print" /\ rpc' = "open" /\ found = "task" /\ file \in mm
        /\ UNCHANGED <<file, info, found, fixed>>
        /\ UNCHANGED <<kernelVars, mountVars>>
    BY <1>5 DEF ReadInfo
  <2>2. FileForked' /\ MissIsFinal' /\ ClosedBlank'
    BY <1>0, <2>1 DEF FileForked, MissIsFinal, ClosedBlank, Forked, kernelVars
  <2>3. CASE offset > Len(Info) /\ eof' = TRUE /\ UNCHANGED <<got, offset>>
    <3>1. Prefix'
      BY <1>0, <1>t, <2>0, <2>1, <2>3 DEF Prefix
    <3> QED
      BY <1>t, <2>1, <2>2, <2>3, <3>1, ReadOnly
  <2>4. CASE /\ offset <= Len(Info)
             /\ got' = got \o Chunk(Info, m)
             /\ offset' = NewOffset(Info, n)
             /\ eof' = (m = 0)
    <3>1. /\ m \in 0 .. len - offset
          /\ offset' = offset + m
          /\ m = 0 => offset = len
      BY <1>t, <2>0, <2>4 DEF Copied, NewOffset
    <3>2. Chunk(Info, m) = SubSeq(Info, offset + 1, offset + m)
      BY DEF Chunk
    <3> HIDE DEF m
    <3>3. Chunk(Info, m) \in Seq(Versions \X Nat)
      <4>1. \A i \in offset + 1 .. offset + m : Info[i] \in Versions \X Nat
        BY <1>t, <2>0, <3>1
      <4> QED
        BY <1>t, <2>0, <3>1, <3>2, <4>1, SubSeqProperties
    <3>4. got' \in Seq(Versions \X Nat)
      BY <1>t, <2>4, <3>3, ConcatProperties
    <3>5. offset' \in Nat /\ offset' <= len
      BY <1>t, <2>0, <2>4, <3>1
    <3>6. SubSeq(Info, 1, offset) \o SubSeq(Info, offset + 1, offset + m)
            = SubSeq(Info, 1, offset + m)
      <4>1. /\ 1 \in 1 .. Len(Info) + 1
            /\ offset \in 1 - 1 .. Len(Info)
            /\ offset + m \in offset .. Len(Info)
        BY <1>t, <2>0, <2>4, <3>1
      <4> QED
        BY <2>0, <4>1, ConcatAdjacentSubSeq
    <3>7. fixed => got' = SubSeq(Info, 1, offset')
      BY <1>0, <2>1, <2>4, <3>1, <3>2, <3>6 DEF Prefix
    <3>8. eof' => offset' = len
      <4>1. eof' => m = 0
        BY <2>4
      <4>2. m = 0 => offset' = len
        BY <1>t, <3>1
      <4> QED
        BY <4>1, <4>2
    <3>9. Prefix'
      <4>1. Info' = Info /\ InfoLen[info'] = len
        BY <2>1 DEF Info
      <4> HIDE DEF len
      <4> QED
        BY <2>1, <3>5, <3>7, <3>8, <4>1 DEF Prefix, len
    <3> QED
      BY <1>t, <2>1, <2>2, <2>4, <3>4, <3>5, <3>9, ReadOnly
  <2> QED
    BY <1>5, <2>3, <2>4 DEF ReadInfo
<1> QED
  BY <1>1, <1>2, <1>3, <1>4, <1>5 DEF Read
-----------------------------------------------------------------------------
LEMMA ReadInit == Init => ReadInv
<1> SUFFICES ASSUME Init PROVE ReadInv
  OBVIOUS
<1>1. /\ {Swapper, Reaper, Kthreadd} \subseteq Pids
      /\ Swapper \notin NewPids /\ Reaper \notin NewPids /\ Kthreadd \notin NewPids
      /\ Reaper # Swapper /\ Kthreadd # Swapper
  BY PidsAssumption DEF Pids, Swapper, Reaper, Kthreadd
<1>2. /\ life = [t \in Pids |-> IF t \in NewPids THEN "none" ELSE "running"]
      /\ children = [t \in Pids |-> IF t = Swapper THEN <<Reaper, Kthreadd>> ELSE <<>>]
  BY DEF Init
<1>3. /\ <<Reaper, Kthreadd>> \in Seq(Pids \ {Swapper}) /\ <<>> \in Seq(Pids \ {Swapper})
      /\ Len(<<Reaper, Kthreadd>>) = 2
  BY <1>1
<1>4. Types
  <2>1. 0 \in Pids /\ 0 \in Versions
    BY <1>1 DEF Swapper, Versions
  <2>2. life \in [Pids -> Lives] /\ life[Swapper] = "running"
    BY <1>1, <1>2 DEF Lives
  <2>3. children \in [Pids -> Seq(Pids \ {Swapper})]
    BY <1>2, <1>3
  <2>4. mm \in SUBSET Pids
    BY <1>1 DEF Init
  <2>5. stack \in Seq(FrameType) /\ got \in Seq(Versions \X Nat)
    BY DEF Init
  <2> QED
    BY <2>1, <2>2, <2>3, <2>4, <2>5 DEF Types, Init
<1>5. MmRuns
  BY <1>1, <1>2 DEF MmRuns, Init
<1>6. ListsForked
  <2> SUFFICES ASSUME NEW q \in Pids, NEW i \in 1 .. Len(children[q])
               PROVE  children[q][i] \in Forked
    BY DEF ListsForked
  <2>1. q = Swapper /\ children[q] = <<Reaper, Kthreadd>>
    BY <1>2
  <2>2. i = 1 \/ i = 2
    BY <1>3, <2>1
  <2>3. Reaper \in Forked /\ Kthreadd \in Forked
    BY <1>1, <1>2 DEF Forked
  <2> QED
    BY <2>1, <2>2, <2>3
<1>7. Linked
  <2> SUFFICES ASSUME NEW t \in Pids \ {Swapper}, life[t] \in {"running", "zombie"}
               PROVE  \E q \in Pids : Place(q, t) # {}
    BY DEF Linked
  <2>1. t = Reaper \/ t = Kthreadd
    BY <1>1, <1>2 DEF Pids
  <2>2. children[Swapper] = <<Reaper, Kthreadd>>
    BY <1>1, <1>2
  <2>3. 1 \in Place(Swapper, t) \/ 2 \in Place(Swapper, t)
    BY <1>3, <2>1, <2>2 DEF Place
  <2> QED
    BY <1>1, <2>3
<1>8. WalkForked /\ TreeForked
  BY DEF Init, WalkForked, TreeForked
<1>9. FileForked /\ MissIsFinal /\ Prefix /\ ClosedBlank
  BY DEF Init, FileForked, MissIsFinal, Prefix, ClosedBlank
<1> QED
  BY <1>4, <1>5, <1>6, <1>7, <1>8, <1>9 DEF ReadInv

LEMMA NextKeepsReadInv == ReadInv /\ [Next]_vars => ReadInv'
<1> SUFFICES ASSUME ReadInv, [Next]_vars PROVE ReadInv'
  OBVIOUS
<1>1. CASE UNCHANGED vars
  <2>1. UNCHANGED <<life, children, mm, mount, stack, tree, rpc, file, info, found,
                    offset, got, eof, fixed>>
    BY <1>1 DEF vars, kernelVars, mountVars, readVars
  <2> QED
    BY <2>1 DEF ReadInv, Types, MmRuns, ListsForked, Linked, Place, Forked, WalkForked,
                TreeForked, NameOf, FileForked, MissIsFinal, Prefix, ClosedBlank, Info
<1> QED
  BY <1>1, KernelStep, MountStep, WalkStep, UnmountStep, ReadStep DEF Next

\* Whatever tasks do meanwhile, and however its reads are cut, a reader that
\* has come to the end of the file of a task that runs and has not changed
\* since open has got the task's text, whole and once (s2fs_read_file).
THEOREM WholeRead == Spec => []ReadWhole
<1>1. ReadInv => ReadWhole
  <2> SUFFICES ASSUME ReadInv, rpc = "open", eof, fixed, file \in mm
               PROVE  got = Info
    BY DEF ReadWhole
  <2>1. got = SubSeq(Info, 1, InfoLen[info])
    BY DEF ReadInv, Prefix
  <2>2. Info \in Seq(Versions \X Nat) /\ Len(Info) = InfoLen[info]
    BY InfoFacts DEF ReadInv, Types
  <2> QED
    BY <2>1, <2>2, SubSeqFull
<1> QED
  BY <1>1, ReadInit, NextKeepsReadInv, PTL DEF Spec
-----------------------------------------------------------------------------
(* The tree a mount makes when no task exits while it walks: one file for  *)
(* every task there was.                                                   *)

\* Task c is the i-th child of q.
At(c, q, i) == i \in 1 .. Len(children[q]) /\ children[q][i] = c
Child(c, q) == \E i \in 1 .. Len(children[q]) : children[q][i] = c

\* The task tree: a task is in one list, once; only running tasks have
\* children; the lists hold tasks that have not been reaped.
Booted == children[Swapper] = <<Reaper, Kthreadd>> /\ life[Reaper] = "running"
OnePlace ==
    \A q, r \in Pids : \A i \in 1 .. Len(children[q]) : \A j \in 1 .. Len(children[r]) :
        children[q][i] = children[r][j] => q = r /\ i = j
ParentsRun == \A q \in Pids : children[q] # <<>> => life[q] = "running"
ListsAlive ==
    \A q \in Pids : \A i \in 1 .. Len(children[q]) :
        life[children[q][i]] \in {"running", "zombie"}

\* No set of tasks is its own set of parents: every task descends from the
\* swapper.
Rooted ==
    \A U \in SUBSET (Pids \ {Swapper}) :
        U # {} /\ (\A u \in U : \E q \in Pids : Child(u, q)) =>
            \E u \in U : \E q \in Pids \ U : Child(u, q)

TaskTree == Booted /\ OnePlace /\ ParentsRun /\ ListsAlive /\ Rooted

\* The tasks that have a name in the tree.
Named == {NameOf(d) : d \in tree}

Snapped == DOMAIN snap \cup {Swapper}

\* While the walk lasts the tasks of the snapshot stay where they were.
SnapHolds == \A t \in DOMAIN snap : /\ t \in Pids \ {Swapper} /\ life[t] # "none"
                                    /\ snap[t] \in Snapped /\ snap[t] \in Pids
                                    /\ Child(t, snap[t])

\* The frames are a path of the task tree: each call is for the child its
\* caller is at; only the innermost one may have just begun; a frame that has
\* a directory has the one named for its task.
Chain ==
    /\ stack[1].task = Swapper
    /\ \A i \in 1 .. Len(stack) :
          i < Len(stack) => stack[i].cur \in Pids /\ stack[i + 1].task = stack[i].cur
Begun ==
    \A i \in 1 .. Len(stack) : stack[i].cur = Enter =>
        /\ stack[i].task \notin Named
        /\ i = 1 => stack[i].dir = <<>>
        /\ i > 1 => stack[i].dir = stack[i - 1].dir
Placed ==
    \A i \in 1 .. Len(stack) : stack[i].cur # Enter =>
        /\ stack[i].task \in Named
        /\ stack[i].dir # <<>> /\ stack[i].dir[Len(stack[i].dir)] = stack[i].task
        /\ FollowsTree(stack[i].dir)
Inside ==
    \A i \in 1 .. Len(stack) : stack[i].cur \in Pids => Child(stack[i].cur, stack[i].task)
FramesApart ==
    \A i, j \in 1 .. Len(stack) : stack[i].task = stack[j].task => i = j

\* A call has named the children of its task up to the one it is at and no
\* others; that one's own call may be about to.
Due == IF Top.cur = Enter THEN {Top.task} ELSE {}
Reached(f, j) == \E k \in 1 .. Len(children[f.task]) : j <= k /\ At(f.cur, f.task, k)
UpToCursor ==
    \A i \in 1 .. Len(stack) : stack[i].cur # Enter =>
        \A c \in Pids : \A j \in 1 .. Len(children[stack[i].task]) :
            At(c, stack[i].task, j) => (c \in Named \cup Due <=> Reached(stack[i], j))

\* A name is below that of its parent, and a call that has returned has
\* named every child of the snapshot.
ParentNamed == \A c \in Named \ {Swapper} : \E q \in Named : Child(c, q)
Returned == \A v \in Named : (\A i \in 1 .. Len(stack) : stack[i].task # v) =>
                \A c \in DOMAIN snap : snap[c] = v => c \in Named

WalkInv ==
    /\ Chain /\ Begun /\ Placed /\ Inside /\ FramesApart
    /\ UpToCursor /\ ParentNamed /\ Returned /\ SnapHolds

\* The tree: no path twice, one file a name, each below its ancestors.
Core(p) == IF Len(p) > 1 /\ p[Len(p) - 1] = p[Len(p)] THEN SubSeq(p, 1, Len(p) - 1) ELSE p
GoodTree ==
    /\ IsFiniteSet(tree)
    /\ \A d, e \in tree : d.path = e.path => d = e
    /\ \A d, e \in Files : NameOf(d) = NameOf(e) => d = e
    /\ \A d \in tree : \E e \in Files : NameOf(e) = NameOf(d)
    /\ \A d \in Files : FollowsTree(Core(d.path))

MountInv ==
    /\ mount \in {"none", "walking", "mounted"}
    /\ mount = "none" => tree = {}
    /\ mount = "walking" => WalkInv
    /\ mount = "mounted" => Snapped \subseteq Named
    /\ GoodTree

TreeInv == ReadInv /\ TaskTree /\ MountInv

LEMMA Bootlist ==
    ASSUME Booted
    PROVE  /\ Len(children[Swapper]) = 2
           /\ children[Swapper][1] = Reaper /\ children[Swapper][2] = Kthreadd
  BY DEF Booted

LEMMA PidFacts ==
    /\ Swapper \in Pids /\ Reaper \in Pids /\ Reaper # Swapper /\ Kthreadd # Swapper
    /\ \A t \in NewPids : t \in Pids /\ t # Swapper /\ t # Reaper /\ t # Kthreadd
    /\ Enter \notin Pids /\ Head0 \notin Pids /\ Astray \notin Pids
    /\ Enter # Head0 /\ Enter # Astray /\ Head0 # Astray
  BY PidsAssumption DEF Pids, Swapper, Reaper, Kthreadd, Enter, Head0, Astray

\* A fork puts the new task, and nothing else, at the end of one list.
LEMMA ForkLists ==
    ASSUME ReadInv, NEW t \in Pids, NEW c \in NewPids, Fork(t, c)
    PROVE  /\ c \in Pids \ {Swapper} /\ t # c /\ life[t] = "running" /\ life[c] = "none"
           /\ life' = [life EXCEPT ![c] = "running"]
           /\ \A q \in Pids : /\ Len(children[q]) \in Nat /\ Len(children'[q]) \in Nat
                              /\ Len(children[q]) <= Len(children'[q])
                              /\ \A j \in 1 .. Len(children[q]) :
                                    children'[q][j] = children[q][j] /\ children[q][j] # c
                              /\ q # t => children'[q] = children[q]
           /\ Len(children'[t]) = Len(children[t]) + 1
           /\ children'[t][Len(children[t]) + 1] = c
<1>1. Types /\ ListsForked
  BY DEF ReadInv
<1>2. c \in Pids \ {Swapper}
  BY PidFacts
<1>3. /\ life[c] = "none" /\ life[t] = "running" /\ t # c
      /\ life' = [life EXCEPT ![c] = "running"]
      /\ children' = [children EXCEPT ![t] = Append(@, c)]
  BY DEF Fork
<1>4. \A q \in Pids : children[q] \in Seq(Pids \ {Swapper})
  BY <1>1 DEF Types
<1>5. /\ children'[t] = Append(children[t], c)
      /\ \A q \in Pids : q # t => children'[q] = children[q]
  BY <1>1, <1>3 DEF Types
<1>6. /\ Len(Append(children[t], c)) = Len(children[t]) + 1
      /\ Len(children[t]) \in Nat
      /\ \A j \in 1 .. Len(children[t]) : Append(children[t], c)[j] = children[t][j]
      /\ Append(children[t], c)[Len(children[t]) + 1] = c
  BY <1>2, <1>4
<1>7. \A q \in Pids : \A j \in 1 .. Len(children[q]) : children[q][j] # c
  BY <1>1, <1>3 DEF ListsForked, Forked
<1>8. \A q \in Pids : Len(children[q]) \in Nat
  BY <1>4
<1>9. ASSUME NEW q \in Pids
      PROVE  /\ Len(children'[q]) \in Nat /\ Len(children[q]) <= Len(children'[q])
             /\ \A j \in 1 .. Len(children[q]) : children'[q][j] = children[q][j]
  <2>1. CASE q = t
    BY <1>5, <1>6, <2>1
  <2>2. CASE q # t
    BY <1>5, <1>8, <2>2
  <2> QED
    BY <2>1, <2>2
<1> QED
  BY <1>2, <1>3, <1>5, <1>6, <1>7, <1>8, <1>9

LEMMA ForkTree ==
    ASSUME ReadInv, TaskTree, NEW t \in Pids, NEW c \in NewPids, Fork(t, c)
    PROVE  TaskTree'
<1>1. /\ c \in Pids \ {Swapper} /\ t # c /\ life[t] = "running" /\ life[c] = "none"
      /\ life' = [life EXCEPT ![c] = "running"]
      /\ \A q \in Pids : /\ Len(children[q]) \in Nat /\ Len(children'[q]) \in Nat
                         /\ Len(children[q]) <= Len(children'[q])
                         /\ \A j \in 1 .. Len(children[q]) :
                               children'[q][j] = children[q][j] /\ children[q][j] # c
                         /\ q # t => children'[q] = children[q]
      /\ Len(children'[t]) = Len(children[t]) + 1
      /\ children'[t][Len(children[t]) + 1] = c
  BY ForkLists
<1>2. life'[c] = "running" /\ \A q \in Pids : q # c => life'[q] = life[q]
  BY <1>1 DEF ReadInv, Types
<1>3. \A q \in Pids : \A j \in 1 .. Len(children'[q]) :
         \/ j \in 1 .. Len(children[q])
         \/ q = t /\ j = Len(children[t]) + 1 /\ children'[q][j] = c
  BY <1>1
<1>4. Booted'
  <2>1. t # Swapper
    BY DEF Fork
  <2> QED
    BY <1>1, <1>2, <2>1, PidFacts DEF TaskTree, Booted
<1>5. OnePlace'
  <2> SUFFICES ASSUME NEW q \in Pids, NEW r \in Pids, NEW i \in 1 .. Len(children'[q]),
                      NEW j \in 1 .. Len(children'[r]), children'[q][i] = children'[r][j]
               PROVE  q = r /\ i = j
    BY DEF OnePlace
  <2>1. CASE i \in 1 .. Len(children[q]) /\ j \in 1 .. Len(children[r])
    BY <1>1, <2>1 DEF TaskTree, OnePlace
  <2>2. CASE children'[q][i] = c
    <3>0. \A s \in Pids : \A n \in 1 .. Len(children[s]) : children'[s][n] # c
      BY SMTT(40), <1>1
    <3>1. children'[r][j] = c
      BY <2>2
    <3>2. q = t /\ i = Len(children[t]) + 1
      BY <1>3, <2>2, <3>0
    <3>3. r = t /\ j = Len(children[t]) + 1
      BY <1>3, <3>0, <3>1
    <3> QED
      BY <3>2, <3>3
  <2> QED
    BY <1>3, <2>1, <2>2
<1>6. ParentsRun'
  <2> SUFFICES ASSUME NEW q \in Pids, children'[q] # <<>> PROVE life'[q] = "running"
    BY DEF ParentsRun
  <2>1. CASE q = t
    BY <1>1, <1>2, <2>1
  <2>2. CASE q # t
    BY <1>1, <1>2, <2>2 DEF TaskTree, ParentsRun
  <2> QED
    BY <2>1, <2>2
<1>7. ListsAlive'
  <2> SUFFICES ASSUME NEW q \in Pids, NEW i \in 1 .. Len(children'[q])
               PROVE  life'[children'[q][i]] \in {"running", "zombie"}
    BY DEF ListsAlive
  <2>1. CASE i \in 1 .. Len(children[q])
    <3>1. /\ children'[q][i] = children[q][i] /\ children[q][i] # c
          /\ life[children[q][i]] \in {"running", "zombie"}
      BY <1>1, <2>1 DEF TaskTree, ListsAlive
    <3>2. children[q][i] \in Pids
      BY <2>1 DEF ReadInv, Types
    <3> QED
      BY <1>2, <3>1, <3>2
  <2>2. CASE children'[q][i] = c
    BY <1>2, <2>2
  <2> QED
    BY <1>3, <2>1, <2>2
<1>8. Rooted'
  <2> SUFFICES ASSUME NEW U \in SUBSET (Pids \ {Swapper}), U # {},
                      \A u \in U : \E q \in Pids : Child(u, q)'
               PROVE  \E u \in U : \E q \in Pids \ U : Child(u, q)'
    BY DEF Rooted
  <2>0. ASSUME NEW u, NEW q \in Pids
        PROVE  /\ Child(u, q) => Child(u, q)'
               /\ Child(u, q)' /\ u # c => Child(u, q)
    BY <1>1, <1>3 DEF Child
  <2>1. CASE U = {c}
    <3>1. Child(c, t)'
      BY <1>1 DEF Child
    <3> QED
      BY <1>1, <2>1, <3>1
  <2>2. CASE U # {c}
    <3> DEFINE W == U \ {c}
    <3>1. W # {} /\ W \in SUBSET (Pids \ {Swapper})
      BY <2>2
    <3>2. \A u \in W : \E q \in Pids : Child(u, q)
      BY <2>0
    <3>3. PICK u \in W : \E q \in Pids \ W : Child(u, q)
      BY <3>1, <3>2 DEF TaskTree, Rooted
    <3>4. PICK q \in Pids \ W : Child(u, q)
      BY <3>3
    <3>5. q # c
      <4>1. children[c] = <<>>
        BY <1>1 DEF TaskTree, ParentsRun
      <4>2. ~Child(u, c)
        BY <4>1 DEF Child
      <4> QED
        BY <3>4, <4>2
    <3>6. q \in Pids \ U /\ u \in U /\ Child(u, q)'
      BY <2>0, <3>4, <3>5
    <3> QED
      BY <3>6
  <2> QED
    BY <2>1, <2>2
<1> QED
  BY <1>4, <1>5, <1>6, <1>7, <1>8 DEF TaskTree

LEMMA ExitTree ==
    ASSUME ReadInv, TaskTree, NEW t \in NewPids, Exit(t)
    PROVE  TaskTree'
<1>0. t \in Pids /\ t # Swapper /\ t # Reaper /\ Reaper \in Pids /\ Reaper # Swapper
  BY PidFacts
<1>1. /\ life[t] = "running"
      /\ life' = [life EXCEPT ![t] = "zombie"]
      /\ children' = [children EXCEPT ![t] = <<>>, ![Reaper] = @ \o children[t]]
  BY DEF Exit
<1>2. /\ life'[t] = "zombie" /\ \A q \in Pids : q # t => life'[q] = life[q]
  BY <1>0, <1>1 DEF ReadInv, Types
<1> DEFINE k == children[Reaper]
           m == children[t]
<1>3. k \in Seq(Pids \ {Swapper}) /\ m \in Seq(Pids \ {Swapper})
  BY <1>0 DEF ReadInv, Types
<1>4. /\ children'[t] = <<>> /\ children'[Reaper] = k \o m
      /\ \A q \in Pids : q # t /\ q # Reaper => children'[q] = children[q]
  BY <1>0, <1>1 DEF ReadInv, Types
<1>5. /\ Len(k \o m) = Len(k) + Len(m)
      /\ \A i \in 1 .. Len(k) + Len(m) :
            (k \o m)[i] = IF i <= Len(k) THEN k[i] ELSE m[i - Len(k)]
  BY <1>3, ConcatProperties
<1>6. Len(k) \in Nat /\ Len(m) \in Nat
  BY <1>3
<1> HIDE DEF k, m
\* Where a node of a list was before.
<1>7. ASSUME NEW q \in Pids, NEW i \in 1 .. Len(children'[q])
      PROVE  /\ q # t
             /\ q # Reaper => i \in 1 .. Len(children[q]) /\ children'[q][i] = children[q][i]
             /\ q = Reaper => \/ i \in 1 .. Len(k) /\ children'[q][i] = k[i]
                              \/ i - Len(k) \in 1 .. Len(m) /\ children'[q][i] = m[i - Len(k)]
  <2>1. q # t
    BY <1>4
  <2>2. ASSUME q = Reaper
        PROVE  \/ i \in 1 .. Len(k) /\ children'[q][i] = k[i]
               \/ i - Len(k) \in 1 .. Len(m) /\ children'[q][i] = m[i - Len(k)]
    <3>1. i \in 1 .. Len(k) + Len(m) /\ children'[q][i] = (k \o m)[i]
      BY <1>4, <1>5, <2>2
    <3> QED
      BY <1>5, <1>6, <3>1
  <2> QED
    BY <1>4, <2>1, <2>2
<1>8. /\ \A i \in 1 .. Len(k) : k[i] = children[Reaper][i] /\ i \in 1 .. Len(children[Reaper])
      /\ \A i \in 1 .. Len(m) : m[i] = children[t][i] /\ i \in 1 .. Len(children[t])
  BY DEF k, m
<1>9. Booted'
  BY <1>0, <1>2, <1>4, PidFacts DEF TaskTree, Booted
<1>10. OnePlace'
  <2> SUFFICES ASSUME NEW q \in Pids, NEW r \in Pids, NEW i \in 1 .. Len(children'[q]),
                      NEW j \in 1 .. Len(children'[r]), children'[q][i] = children'[r][j]
               PROVE  q = r /\ i = j
    BY DEF OnePlace
  <2>0. OnePlace
    BY DEF TaskTree
  <2>1. CASE q # Reaper /\ r # Reaper
    BY <1>7, <2>0, <2>1 DEF OnePlace
  <2>2. CASE q = Reaper /\ r # Reaper
    <3>1. r # t /\ j \in 1 .. Len(children[r]) /\ children'[r][j] = children[r][j]
      BY <1>7, <2>2
    <3>2. CASE i \in 1 .. Len(k) /\ children'[q][i] = k[i]
      <4>1. i \in 1 .. Len(children[Reaper]) /\ children[Reaper][i] = children[r][j]
        BY <1>8, <3>1, <3>2
      <4> QED
        BY <1>0, <2>0, <2>2, <3>1, <4>1 DEF OnePlace
    <3>3. CASE i - Len(k) \in 1 .. Len(m) /\ children'[q][i] = m[i - Len(k)]
      <4>1. PICK a : a = i - Len(k)
        OBVIOUS
      <4>2. a \in 1 .. Len(children[t]) /\ children[t][a] = children[r][j]
        BY <1>8, <3>1, <3>3, <4>1
      <4> QED
        BY <1>0, <2>0, <3>1, <4>2 DEF OnePlace
    <3> QED
      BY <1>7, <2>2, <3>2, <3>3
  <2>3. CASE r = Reaper /\ q # Reaper
    <3>1. q # t /\ i \in 1 .. Len(children[q]) /\ children'[q][i] = children[q][i]
      BY <1>7, <2>3
    <3>2. CASE j \in 1 .. Len(k) /\ children'[r][j] = k[j]
      <4>1. j \in 1 .. Len(children[Reaper]) /\ children[Reaper][j] = children[q][i]
        BY <1>8, <3>1, <3>2
      <4> QED
        BY <1>0, <2>0, <2>3, <3>1, <4>1 DEF OnePlace
    <3>3. CASE j - Len(k) \in 1 .. Len(m) /\ children'[r][j] = m[j - Len(k)]
      <4>1. PICK a : a = j - Len(k)
        OBVIOUS
      <4>2. a \in 1 .. Len(children[t]) /\ children[t][a] = children[q][i]
        BY <1>8, <3>1, <3>3, <4>1
      <4> QED
        BY <1>0, <2>0, <3>1, <4>2 DEF OnePlace
    <3> QED
      BY <1>7, <2>3, <3>2, <3>3
  <2>4. CASE q = Reaper /\ r = Reaper
    <3>1. i \in Int /\ j \in Int
      OBVIOUS
    <3>2. ASSUME i \in 1 .. Len(k), j \in 1 .. Len(k), k[i] = k[j] PROVE i = j
      <4>1. /\ i \in 1 .. Len(children[Reaper]) /\ j \in 1 .. Len(children[Reaper])
            /\ children[Reaper][i] = children[Reaper][j]
        BY <1>8, <3>2
      <4> QED
        BY <1>0, <2>0, <4>1 DEF OnePlace
    <3>3. ASSUME NEW a \in 1 .. Len(m), NEW b \in 1 .. Len(m), m[a] = m[b] PROVE a = b
      <4>1. /\ a \in 1 .. Len(children[t]) /\ b \in 1 .. Len(children[t])
            /\ children[t][a] = children[t][b]
        BY <1>8, <3>3
      <4> QED
        BY <1>0, <2>0, <4>1 DEF OnePlace
    <3>4. ASSUME NEW a \in 1 .. Len(k), NEW b \in 1 .. Len(m) PROVE k[a] # m[b]
      <4>1. /\ a \in 1 .. Len(children[Reaper]) /\ b \in 1 .. Len(children[t])
            /\ k[a] = children[Reaper][a] /\ m[b] = children[t][b]
        BY <1>8, <3>4
      <4>2. children[Reaper][a] = children[t][b] => Reaper = t
        BY <1>0, <2>0, <4>1 DEF OnePlace
      <4> QED
        BY <1>0, <4>1, <4>2
    <3>5. CASE i \in 1 .. Len(k) /\ children'[q][i] = k[i]
      BY <1>7, <2>4, <3>2, <3>4, <3>5
    <3>6. CASE i - Len(k) \in 1 .. Len(m) /\ children'[q][i] = m[i - Len(k)]
      <4>1. CASE j \in 1 .. Len(k) /\ children'[r][j] = k[j]
        BY <3>4, <3>6, <4>1
      <4>2. CASE j - Len(k) \in 1 .. Len(m) /\ children'[r][j] = m[j - Len(k)]
        <5>1. i - Len(k) = j - Len(k)
          BY <3>3, <3>6, <4>2
        <5> QED
          BY <1>6, <2>4, <3>1, <5>1
      <4> QED
        BY <1>7, <2>4, <4>1, <4>2
    <3> QED
      BY <1>7, <2>4, <3>5, <3>6
  <2> QED
    BY <2>1, <2>2, <2>3, <2>4
<1>11. ParentsRun'
  <2> SUFFICES ASSUME NEW q \in Pids, children'[q] # <<>> PROVE life'[q] = "running"
    BY DEF ParentsRun
  <2>1. CASE q = Reaper
    BY <1>0, <1>2, <2>1 DEF TaskTree, Booted
  <2>2. CASE q # Reaper
    <3>1. q # t /\ children'[q] = children[q]
      BY <1>4, <2>2
    <3> QED
      BY <1>2, <3>1 DEF TaskTree, ParentsRun
  <2> QED
    BY <2>1, <2>2
<1>12. ListsAlive'
  <2> SUFFICES ASSUME NEW q \in Pids, NEW i \in 1 .. Len(children'[q])
               PROVE  life'[children'[q][i]] \in {"running", "zombie"}
    BY DEF ListsAlive
  <2>1. PICK r \in Pids : \E j \in 1 .. Len(children[r]) : children'[q][i] = children[r][j]
    BY <1>0, <1>7, <1>8
  <2>2. PICK j \in 1 .. Len(children[r]) : children'[q][i] = children[r][j]
    BY <2>1
  <2>3. children[r][j] \in Pids /\ life[children[r][j]] \in {"running", "zombie"}
    <3>1. children[r] \in Seq(Pids \ {Swapper})
      BY DEF ReadInv, Types
    <3>2. children[r][j] \in Pids
      BY <3>1
    <3>3. life[children[r][j]] \in {"running", "zombie"}
      BY DEF TaskTree, ListsAlive
    <3> QED
      BY <3>2, <3>3
  <2> QED
    BY <1>2, <2>2, <2>3
<1>13. Rooted'
  <2> SUFFICES ASSUME NEW U \in SUBSET (Pids \ {Swapper}), U # {},
                      \A u \in U : \E q \in Pids : Child(u, q)'
               PROVE  \E u \in U : \E q \in Pids \ U : Child(u, q)'
    BY DEF Rooted
  <2>1. CASE Reaper \in U
    <3>1. Child(Reaper, Swapper)'
      BY <1>9, Bootlist DEF Child, Booted
    <3> QED
      BY <2>1, <3>1, PidFacts
  <2>2. CASE Reaper \notin U
    <3>1. ASSUME NEW u \in U PROVE \E q \in Pids : Child(u, q)
      <4>1. PICK q \in Pids : Child(u, q)'
        OBVIOUS
      <4>2. PICK i \in 1 .. Len(children'[q]) : children'[q][i] = u
        BY <4>1 DEF Child
      <4>3. CASE q # Reaper
        BY <1>7, <4>2, <4>3 DEF Child
      <4>4. CASE q = Reaper /\ i \in 1 .. Len(k) /\ children'[q][i] = k[i]
        BY <1>8, <4>2, <4>4 DEF Child
      <4>5. CASE i - Len(k) \in 1 .. Len(m) /\ children'[q][i] = m[i - Len(k)]
        BY <1>0, <1>8, <4>2, <4>5 DEF Child
      <4> QED
        BY <1>7, <4>3, <4>4, <4>5
    <3>2. PICK u \in U : \E q \in Pids \ U : Child(u, q)
      BY <3>1 DEF TaskTree, Rooted
    <3>3. PICK q \in Pids \ U : Child(u, q)
      BY <3>2
    <3>4. PICK i \in 1 .. Len(children[q]) : children[q][i] = u
      BY <3>3 DEF Child
    <3>5. CASE q = t
      <4>1. i \in 1 .. Len(m) /\ m[i] = u
        BY <3>4, <3>5 DEF m
      <4>2. Len(k) + i \in 1 .. Len(k) + Len(m) /\ ~(Len(k) + i <= Len(k))
            /\ (Len(k) + i) - Len(k) = i
        BY <1>6, <4>1
      <4>3. Child(u, Reaper)'
        BY <1>4, <1>5, <4>1, <4>2 DEF Child
      <4> QED
        BY <1>0, <2>2, <4>3
    <3>6. CASE q = Reaper
      <4>1. i \in 1 .. Len(k) /\ k[i] = u
        BY <3>4, <3>6 DEF k
      <4>2. i \in 1 .. Len(k) + Len(m) /\ i <= Len(k)
        BY <1>6, <4>1
      <4>3. Child(u, Reaper)'
        BY <1>4, <1>5, <4>1, <4>2 DEF Child
      <4> QED
        BY <1>0, <2>2, <4>3
    <3>7. CASE q # t /\ q # Reaper
      BY <1>4, <3>4, <3>7 DEF Child
    <3> QED
      BY <3>5, <3>6, <3>7
  <2> QED
    BY <2>1, <2>2
<1> QED
  BY <1>9, <1>10, <1>11, <1>12, <1>13 DEF TaskTree

LEMMA ReapTree ==
    ASSUME ReadInv, TaskTree, NEW t \in NewPids, Reap(t)
    PROVE  TaskTree'
<1>0. t \in Pids /\ t # Swapper /\ t # Reaper
  BY PidFacts
<1>1. /\ life[t] = "zombie" /\ life' = [life EXCEPT ![t] = "gone"]
      /\ children' = [children EXCEPT ![Parent(t)] = Without(@, Rank(t))]
  BY DEF Reap
<1>2. /\ life'[t] = "gone" /\ \A q \in Pids : q # t => life'[q] = life[q]
  BY <1>0, <1>1 DEF ReadInv, Types
<1>3. PICK p : p = Parent(t)
  OBVIOUS
<1>4. PICK r : r = Rank(t)
  OBVIOUS
<1>5. p \in Pids /\ r \in 1 .. Len(children[p]) /\ children[p][r] = t
  <2>1. \E q \in Pids : Place(q, t) # {}
    BY <1>0, <1>1 DEF ReadInv, Linked
  <2> QED
    BY <1>3, <1>4, <2>1, ParentFacts
<1>6. /\ children'[p] = Without(children[p], r)
      /\ \A q \in Pids : q # p => children'[q] = children[q]
  BY <1>1, <1>3, <1>4, <1>5 DEF ReadInv, Types
<1>7. /\ Len(children'[p]) = Len(children[p]) - 1
      /\ \A j \in 1 .. Len(children[p]) - 1 :
            children'[p][j] = IF j < r THEN children[p][j] ELSE children[p][j + 1]
  <2>1. children[p] \in Seq(Pids \ {Swapper})
    BY <1>5 DEF ReadInv, Types
  <2> QED
    BY ZenonT(40), <1>5, <1>6, <2>1, WithoutFacts
<1>8. \A q \in Pids : Len(children[q]) \in Nat
  BY DEF ReadInv, Types
\* Where a node was before, and where it is now.
<1> DEFINE Was(q, i) == IF q = p /\ i >= r THEN i + 1 ELSE i
<1>9. ASSUME NEW q \in Pids, NEW i \in 1 .. Len(children'[q])
      PROVE  /\ Was(q, i) \in 1 .. Len(children[q])
             /\ children'[q][i] = children[q][Was(q, i)]
             /\ q = p => Was(q, i) # r
  <2>1. CASE q = p
    <3>1. i \in 1 .. Len(children[p]) - 1
      BY <1>7, <2>1
    <3> QED
      BY SMTT(40), <1>5, <1>7, <1>8, <2>1, <3>1
  <2>2. CASE q # p
    BY <1>6, <2>2
  <2> QED
    BY <2>1, <2>2
<1>10. ASSUME NEW q \in Pids, NEW i \in 1 .. Len(children'[q]), NEW j \in 1 .. Len(children'[q]),
              Was(q, i) = Was(q, j)
       PROVE  i = j
  <2>1. i \in Int /\ j \in Int /\ r \in Int
    BY <1>5
  <2> QED
    BY <1>10, <2>1
<1>11. ASSUME NEW q \in Pids, NEW i \in 1 .. Len(children'[q])
       PROVE  children'[q][i] # t
  <2>1. ASSUME children[q][Was(q, i)] = t PROVE q = p /\ Was(q, i) = r
    BY <1>5, <1>9, <2>1 DEF TaskTree, OnePlace
  <2> QED
    BY <1>9, <2>1
<1>12. ASSUME NEW q \in Pids, NEW u, u # t PROVE Child(u, q)' <=> Child(u, q)
  <2>1. ASSUME NEW i \in 1 .. Len(children[q]), children[q][i] = u
        PROVE  Child(u, q)'
    <3>1. CASE q = p
      <4>1. i # r /\ i \in Int /\ r \in Int
        BY <1>5, <1>12, <2>1, <3>1
      <4>2. CASE i < r
        <5>1. i \in 1 .. Len(children[p]) - 1 /\ children'[p][i] = u
          BY <1>5, <1>7, <1>8, <2>1, <3>1, <4>2
        <5> QED
          BY <1>7, <3>1, <5>1 DEF Child
      <4>3. CASE i > r
        <5>1. i - 1 \in 1 .. Len(children[p]) - 1 /\ ~(i - 1 < r) /\ (i - 1) + 1 = i
          BY <1>5, <1>8, <2>1, <3>1, <4>3
        <5>2. children'[p][i - 1] = u
          BY <1>7, <2>1, <3>1, <5>1
        <5> QED
          BY <1>7, <3>1, <5>1, <5>2 DEF Child
      <4> QED
        BY <4>1, <4>2, <4>3
    <3>2. CASE q # p
      BY <1>6, <2>1, <3>2 DEF Child
    <3> QED
      BY <3>1, <3>2
  <2>2. Child(u, q)' => Child(u, q)
    BY <1>9 DEF Child
  <2> QED
    BY <2>1, <2>2 DEF Child
<1> HIDE DEF Was
<1>13. Booted'
  <2>1. p # Swapper
    <3>1. Len(children[Swapper]) = 2 /\ children[Swapper][1] = Reaper
          /\ children[Swapper][2] = Kthreadd
      BY Bootlist DEF TaskTree
    <3>2. p = Swapper => r = 1 \/ r = 2
      BY <1>5, <3>1
    <3> QED
      BY <1>5, <3>1, <3>2, PidFacts
  <2> QED
    BY <1>0, <1>2, <1>6, <2>1, PidFacts DEF TaskTree, Booted
<1>14. OnePlace'
  <2> SUFFICES ASSUME NEW q \in Pids, NEW s \in Pids, NEW i \in 1 .. Len(children'[q]),
                      NEW j \in 1 .. Len(children'[s]), children'[q][i] = children'[s][j]
               PROVE  q = s /\ i = j
    BY DEF OnePlace
  <2>1. q = s /\ Was(q, i) = Was(s, j)
    BY <1>9 DEF TaskTree, OnePlace
  <2> QED
    BY <1>10, <2>1
<1>15. ParentsRun'
  <2> SUFFICES ASSUME NEW q \in Pids, children'[q] # <<>> PROVE life'[q] = "running"
    BY DEF ParentsRun
  <2>1. children[q] # <<>>
    <3>1. CASE q = p
      BY <1>5, <3>1
    <3>2. CASE q # p
      BY <1>6, <3>2
    <3> QED
      BY <3>1, <3>2
  <2>2. life[q] = "running"
    BY <2>1 DEF TaskTree, ParentsRun
  <2> QED
    BY <1>1, <1>2, <2>2
<1>16. ListsAlive'
  <2> SUFFICES ASSUME NEW q \in Pids, NEW i \in 1 .. Len(children'[q])
               PROVE  life'[children'[q][i]] \in {"running", "zombie"}
    BY DEF ListsAlive
  <2>1. PICK j \in 1 .. Len(children[q]) : children'[q][i] = children[q][j]
    BY <1>9
  <2>2. children[q][j] \in Pids /\ life[children[q][j]] \in {"running", "zombie"}
    BY DEF TaskTree, ListsAlive, ReadInv, Types
  <2> QED
    BY <1>2, <1>11, <2>1, <2>2
<1>17. Rooted'
  <2> SUFFICES ASSUME NEW U \in SUBSET (Pids \ {Swapper}), U # {},
                      \A u \in U : \E q \in Pids : Child(u, q)'
               PROVE  \E u \in U : \E q \in Pids \ U : Child(u, q)'
    BY DEF Rooted
  <2>1. t \notin U
    BY <1>11 DEF Child
  <2>2. \A u \in U : \E q \in Pids : Child(u, q)
    BY <1>12, <2>1
  <2>3. PICK u \in U : \E q \in Pids \ U : Child(u, q)
    BY <2>2 DEF TaskTree, Rooted
  <2> QED
    BY <1>12, <2>1, <2>3
<1> QED
  BY <1>13, <1>14, <1>15, <1>16, <1>17 DEF TaskTree

-----------------------------------------------------------------------------
(* What does not touch the walk.                                           *)

LEMMA SoleParent ==
    ASSUME OnePlace, NEW c, NEW q \in Pids, NEW r \in Pids, Child(c, q), Child(c, r)
    PROVE  q = r
  BY DEF OnePlace, Child

LEMMA ChildIsTask ==
    ASSUME Types, NEW q \in Pids, NEW c, Child(c, q)
    PROVE  c \in Pids \ {Swapper}
<1>1. children[q] \in Seq(Pids \ {Swapper})
  BY DEF Types
<1> QED
  BY <1>1 DEF Child

LEMMA SameTree ==
    ASSUME TaskTree, UNCHANGED <<life, children>>
    PROVE  TaskTree'
<1>1. Booted' /\ OnePlace' /\ ParentsRun' /\ ListsAlive'
  BY DEF TaskTree, Booted, OnePlace, ParentsRun, ListsAlive
<1>2. \A u, q : Child(u, q)' <=> Child(u, q)
  BY DEF Child
<1>3. Rooted'
  <2> SUFFICES ASSUME NEW U \in SUBSET (Pids \ {Swapper}), U # {},
                      \A u \in U : \E q \in Pids : Child(u, q)'
               PROVE  \E u \in U : \E q \in Pids \ U : Child(u, q)'
    BY DEF Rooted
  <2>1. \E u \in U : \E q \in Pids \ U : Child(u, q)
    BY <1>2 DEF TaskTree, Rooted
  <2> QED
    BY <1>2, <2>1
<1> QED
  BY <1>1, <1>3 DEF TaskTree

LEMMA Idle ==
    ASSUME TaskTree, MountInv, UNCHANGED <<life, children, mount, stack, tree, snap>>
    PROVE  TaskTree' /\ MountInv'
<1>1. TaskTree'
  BY SameTree
<1>2. Named' = Named /\ Snapped' = Snapped /\ Due' = Due
  BY DEF Named, NameOf, Snapped, Due, Top
<1>3. GoodTree'
  BY DEF MountInv, GoodTree, Files, NameOf, Core, FollowsTree
<1>4. ASSUME WalkInv PROVE WalkInv'
  <2>1. Chain' /\ Begun' /\ Placed' /\ Inside' /\ FramesApart'
    BY <1>2, <1>4 DEF WalkInv, Chain, Begun, Placed, Inside, FramesApart, FollowsTree, Child
  <2>2. UpToCursor'
    BY <1>2, <1>4 DEF WalkInv, UpToCursor, At, Reached
  <2>3. ParentNamed' /\ Returned' /\ SnapHolds'
    BY <1>2, <1>4 DEF WalkInv, ParentNamed, Returned, SnapHolds, Child
  <2> QED
    BY <2>1, <2>2, <2>3 DEF WalkInv
<1> QED
  BY <1>1, <1>2, <1>3, <1>4 DEF MountInv

\* With no walk under way the task tree may change under the mount.
LEMMA NotWalking ==
    ASSUME MountInv, mount # "walking", UNCHANGED <<mount, stack, tree, snap>>
    PROVE  MountInv'
<1>1. Named' = Named /\ Snapped' = Snapped
  BY DEF Named, NameOf, Snapped
<1>2. GoodTree'
  BY DEF MountInv, GoodTree, Files, NameOf, Core, FollowsTree
<1> QED
  BY <1>1, <1>2 DEF MountInv

\* A fork while the mount walks: the new task is behind every cursor.
LEMMA ForkMount ==
    ASSUME ReadInv, TaskTree, MountInv, NEW t \in Pids, NEW c \in NewPids, Fork(t, c)
    PROVE  MountInv'
<1>0. UNCHANGED <<mount, stack, tree, snap>>
  BY DEF Fork, mountVars
<1>1. /\ c \in Pids \ {Swapper} /\ t # c /\ life[t] = "running" /\ life[c] = "none"
      /\ life' = [life EXCEPT ![c] = "running"]
      /\ \A q \in Pids : /\ Len(children[q]) \in Nat /\ Len(children'[q]) \in Nat
                         /\ Len(children[q]) <= Len(children'[q])
                         /\ \A j \in 1 .. Len(children[q]) :
                               children'[q][j] = children[q][j] /\ children[q][j] # c
                         /\ q # t => children'[q] = children[q]
      /\ Len(children'[t]) = Len(children[t]) + 1
      /\ children'[t][Len(children[t]) + 1] = c
  BY ForkLists
<1>2. CASE mount # "walking"
  BY <1>0, <1>2, NotWalking
<1>3. CASE mount = "walking"
  <2>0. WalkInv
    BY <1>3 DEF MountInv
  <2>1. Named' = Named /\ Snapped' = Snapped /\ Due' = Due
    BY <1>0 DEF Named, NameOf, Snapped, Due, Top
  <2>2. GoodTree'
    BY <1>0 DEF MountInv, GoodTree, Files, NameOf, Core, FollowsTree
  <2>3. ASSUME NEW u, NEW q \in Pids, Child(u, q) PROVE Child(u, q)'
    BY <1>1, <2>3 DEF Child
  <2>4. ASSUME NEW q \in Pids, NEW j \in 1 .. Len(children'[q])
        PROVE  \/ j \in 1 .. Len(children[q]) /\ children'[q][j] = children[q][j]
               \/ j = Len(children[q]) + 1 /\ children'[q][j] = c
    BY <1>1
  <2>5. /\ \A i \in 1 .. Len(stack) : /\ stack[i].task \in Pids \ {c} /\ stack[i].cur # c
                                      /\ stack[i].cur \in Pids \cup {Enter, Head0}
        /\ Len(stack) \in 1 .. Len(stack)
    <3>1. stack \in Seq(FrameType) /\ stack # <<>>
      BY <1>3 DEF ReadInv, Types
    <3>2. Len(stack) \in 1 .. Len(stack)
      BY <3>1
    <3>3. ASSUME NEW i \in 1 .. Len(stack)
          PROVE /\ stack[i].task \in Pids \ {c} /\ stack[i].cur # c
                /\ stack[i].cur \in Pids \cup {Enter, Head0}
      <4>1. stack[i] \in FrameType
        BY <3>1
      <4>2. stack[i].task \in Pids /\ stack[i].cur \in Pids \cup {Enter, Head0}
        BY <4>1 DEF FrameType
      <4>3. c \notin Forked
        BY <1>1 DEF Forked
      <4> QED
        BY <1>1, <4>2, <4>3 DEF ReadInv, WalkForked
    <3> QED
      BY <3>2, <3>3
  <2>6. c \notin Named /\ c \notin Due
    <3>1. c \notin Named
      BY <1>1 DEF ReadInv, TreeForked, Named, Forked
    <3>2. c \notin Due
      BY <2>5 DEF Due, Top
    <3> QED
      BY <3>1, <3>2
  <2>7. Chain' /\ Begun' /\ Placed' /\ FramesApart' /\ Returned'
    BY <1>0, <2>0, <2>1 DEF WalkInv, Chain, Begun, Placed, FramesApart, Returned, FollowsTree
  <2>8. Inside'
    <3> SUFFICES ASSUME NEW i \in 1 .. Len(stack), stack[i].cur \in Pids
                 PROVE  \E k \in 1 .. Len(children'[stack[i].task]) :
                            children'[stack[i].task][k] = stack[i].cur
      BY <1>0 DEF Inside, Child
    <3>1. PICK u, q : u = stack[i].cur /\ q = stack[i].task
      OBVIOUS
    <3>2. q \in Pids /\ Child(u, q)
      BY <2>0, <2>5, <3>1 DEF WalkInv, Inside
    <3>3. Child(u, q)'
      BY <2>3, <3>2
    <3> QED
      BY <3>1, <3>3 DEF Child
  <2>9. ParentNamed'
    <3>1. Named \subseteq Pids
      BY DEF ReadInv, TreeForked, Named, Forked
    <3> SUFFICES ASSUME NEW u \in Named \ {Swapper} PROVE \E q \in Named : Child(u, q)'
      BY <2>1 DEF ParentNamed
    <3>2. PICK q \in Named : Child(u, q)
      BY <2>0 DEF WalkInv, ParentNamed
    <3> QED
      BY <2>3, <3>1, <3>2
  <2>10. SnapHolds'
    <3> SUFFICES ASSUME NEW u \in DOMAIN snap
                 PROVE  /\ u \in Pids \ {Swapper} /\ life'[u] # "none"
                        /\ snap[u] \in Snapped /\ snap[u] \in Pids
                        /\ Child(u, snap[u])'
      BY <1>0, <2>1 DEF SnapHolds, Child
    <3>1. /\ u \in Pids \ {Swapper} /\ life[u] # "none"
          /\ snap[u] \in Snapped /\ snap[u] \in Pids /\ Child(u, snap[u])
      BY <2>0 DEF WalkInv, SnapHolds
    <3>2. life'[u] # "none"
      BY <1>1, <3>1 DEF ReadInv, Types
    <3>3. PICK q \in Pids : q = snap[u] /\ Child(u, q)
      BY <3>1
    <3>4. Child(u, q)'
      BY <2>3, <3>3
    <3> QED
      BY <1>0, <3>1, <3>2, <3>3, <3>4 DEF Child
  <2>11. UpToCursor'
    <3> SUFFICES ASSUME NEW i \in 1 .. Len(stack), stack[i].cur # Enter, NEW u \in Pids,
                        NEW j \in 1 .. Len(children'[stack[i].task]),
                        children'[stack[i].task][j] = u
                 PROVE  u \in Named \cup Due <=>
                            \E k \in 1 .. Len(children'[stack[i].task]) :
                                j <= k /\ children'[stack[i].task][k] = stack[i].cur
      BY <1>0, <2>1 DEF UpToCursor, At, Reached
    <3>1. PICK q, v : q = stack[i].task /\ v = stack[i].cur
      OBVIOUS
    <3>2. q \in Pids /\ v # c
      BY <2>5, <3>1
    <3>3. ASSUME NEW k \in 1 .. Len(children'[q]), children'[q][k] = v
          PROVE  k \in 1 .. Len(children[q]) /\ children[q][k] = v
      BY <2>4, <3>2, <3>3
    <3>4. CASE j \in 1 .. Len(children[q]) /\ children'[q][j] = children[q][j]
      <4>1. u \in Named \cup Due <=>
               \E k \in 1 .. Len(children[q]) : j <= k /\ children[q][k] = v
        BY <2>0, <3>1, <3>4 DEF WalkInv, UpToCursor, At, Reached
      <4>2. (\E k \in 1 .. Len(children[q]) : j <= k /\ children[q][k] = v) <=>
            (\E k \in 1 .. Len(children'[q]) : j <= k /\ children'[q][k] = v)
        <5>1. ASSUME NEW k \in 1 .. Len(children[q]), children[q][k] = v
              PROVE  k \in 1 .. Len(children'[q]) /\ children'[q][k] = v
          BY <1>1, <3>2, <5>1
        <5> QED
          BY <3>3, <5>1
      <4> QED
        BY <3>1, <4>1, <4>2
    <3>5. CASE j = Len(children[q]) + 1 /\ children'[q][j] = c
      <4>1. u \notin Named \cup Due
        BY <2>6, <3>1, <3>5
      <4>2. ASSUME NEW k \in 1 .. Len(children'[q]), j <= k, children'[q][k] = v
            PROVE  FALSE
        <5>1. k \in 1 .. Len(children[q]) /\ Len(children[q]) \in Nat
          BY <1>1, <3>2, <3>3, <4>2
        <5> QED
          BY <3>5, <4>2, <5>1
      <4> QED
        BY <3>1, <4>1, <4>2
    <3> QED
      BY <2>4, <3>1, <3>2, <3>4, <3>5
  <2>12. WalkInv'
    BY <2>7, <2>8, <2>9, <2>10, <2>11 DEF WalkInv
  <2> QED
    BY <1>0, <1>3, <2>2, <2>12 DEF MountInv
<1> QED
  BY <1>2, <1>3

\* The mount starts with an empty tree and a snapshot of the task tree.
LEMMA MountBegins ==
    ASSUME ReadInv, TaskTree, MountInv, Mount
    PROVE  MountInv'
<1>1. /\ mount = "none" /\ mount' = "walking"
      /\ stack' = <<Frame(Swapper, <<>>)>>
      /\ snap' = [t \in Tasks \ {Swapper} |-> Parent(t)]
      /\ tree' = tree /\ children' = children /\ life' = life
  BY DEF Mount, kernelVars
<1>2. tree = {} /\ tree' = {} /\ Named' = {}
  BY <1>1 DEF MountInv, Named
<1>3. GoodTree'
  <2>1. IsFiniteSet({})
    BY FS_EmptySet
  <2> QED
    BY <1>2, <2>1 DEF GoodTree, Files
<1>4. /\ Len(stack') = 1 /\ stack'[1].task = Swapper /\ stack'[1].dir = <<>>
      /\ stack'[1].cur = Enter
  BY <1>1 DEF Frame
<1>5. \A i \in 1 .. Len(stack') : i = 1
  BY <1>4
<1>6. Chain' /\ Begun' /\ Placed' /\ Inside' /\ FramesApart'
  <2>1. Chain' /\ FramesApart'
    BY <1>4, <1>5 DEF Chain, FramesApart
  <2>2. Begun'
    BY <1>2, <1>4, <1>5 DEF Begun
  <2>3. Placed' /\ Inside'
    BY <1>4, <1>5, PidFacts DEF Placed, Inside
  <2> QED
    BY <2>1, <2>2, <2>3
<1>7. UpToCursor'
  BY <1>4, <1>5 DEF UpToCursor
<1>8. ParentNamed' /\ Returned'
  BY <1>2 DEF ParentNamed, Returned
<1>9. SnapHolds'
  <2>1. DOMAIN snap' = Tasks \ {Swapper}
    BY <1>1
  <2> SUFFICES ASSUME NEW u \in Tasks \ {Swapper}
               PROVE  /\ u \in Pids \ {Swapper} /\ life[u] # "none"
                      /\ snap'[u] \in Snapped' /\ snap'[u] \in Pids
                      /\ Child(u, snap'[u])
    BY <1>1, <2>1 DEF SnapHolds, Child
  <2>2. u \in Pids \ {Swapper} /\ life[u] \in {"running", "zombie"}
    BY DEF Tasks
  <2>3. \E q \in Pids : Place(q, u) # {}
    BY <2>2 DEF ReadInv, Linked
  <2>4. PICK p : p = Parent(u)
    OBVIOUS
  <2>5. p \in Pids /\ Rank(u) \in 1 .. Len(children[p]) /\ children[p][Rank(u)] = u
    BY <2>3, <2>4, ParentFacts
  <2>6. Child(u, p)
    BY <2>5 DEF Child
  <2>7. life[p] = "running"
    <3>1. children[p] # <<>>
      BY <2>5
    <3> QED
      BY <2>5, <3>1 DEF TaskTree, ParentsRun
  <2>8. p \in Tasks
    BY <2>5, <2>7 DEF Tasks
  <2>9. snap'[u] = p
    BY <1>1, <2>4
  <2> QED
    BY <2>1, <2>2, <2>5, <2>6, <2>8, <2>9 DEF Snapped
<1> QED
  BY <1>1, <1>3, <1>6, <1>7, <1>8, <1>9 DEF MountInv, WalkInv

LEMMA UnmountEnds ==
    ASSUME Unmount
    PROVE  MountInv'
<1>1. mount' = "none" /\ tree' = {}
  BY DEF Unmount
<1>2. IsFiniteSet({})
  BY FS_EmptySet
<1> QED
  BY <1>1, <1>2 DEF MountInv, GoodTree, Files

-----------------------------------------------------------------------------
(* The steps of the walk.                                                  *)

LEMMA StackFacts ==
    ASSUME Types, mount = "walking"
    PROVE  /\ Len(stack) \in Nat \ {0}
           /\ \A i \in 1 .. Len(stack) : /\ stack[i].task \in Pids /\ stack[i].dir \in Seq(Pids)
                                         /\ stack[i].cur \in Pids \cup {Enter, Head0}
           /\ Top = stack[Len(stack)]
           /\ Pop \in Seq(FrameType) /\ Len(Pop) = Len(stack) - 1
           /\ \A i \in 1 .. Len(stack) - 1 : Pop[i] = stack[i]
<1>1. stack \in Seq(FrameType) /\ Len(stack) \in Nat \ {0}
  BY DEF Types
<1>2. ASSUME NEW i \in 1 .. Len(stack)
      PROVE  /\ stack[i].task \in Pids /\ stack[i].dir \in Seq(Pids)
             /\ stack[i].cur \in Pids \cup {Enter, Head0}
  <2>1. stack[i] \in FrameType
    BY <1>1
  <2> QED
    BY <2>1 DEF FrameType
<1>3. /\ Pop \in Seq(FrameType) /\ Len(Pop) = Len(stack) - 1
      /\ \A i \in 1 .. Len(stack) - 1 : Pop[i] = stack[i]
  <2>1. 1 \in 1 .. Len(stack) + 1 /\ Len(stack) - 1 \in 0 .. Len(stack)
    BY <1>1
  <2>2. /\ Pop \in Seq(FrameType)
        /\ Len(Pop) = IF 1 <= Len(stack) - 1 THEN Len(stack) - 1 - 1 + 1 ELSE 0
        /\ \A i \in 1 .. Len(stack) - 1 - 1 + 1 : Pop[i] = stack[1 + i - 1]
    BY <1>1, <2>1, SubSeqProperties DEF Pop
  <2>3. \A n \in Nat \ {0} : (IF 1 <= n - 1 THEN n - 1 - 1 + 1 ELSE 0) = n - 1
    OBVIOUS
  <2>4. Len(Pop) = Len(stack) - 1
    BY <1>1, <2>2, <2>3
  <2> QED
    BY <1>1, <2>2, <2>4
<1> QED
  BY <1>1, <1>2, <1>3 DEF Top

\* The calls below the innermost one are at a child each and have a name.
LEMMA Callers ==
    ASSUME Types, mount = "walking", WalkInv, NEW i \in 1 .. Len(stack) - 1
    PROVE  /\ i \in 1 .. Len(stack) /\ i + 1 \in 1 .. Len(stack)
           /\ stack[i].cur \in Pids /\ stack[i].cur # Enter
           /\ stack[i + 1].task = stack[i].cur
           /\ stack[i].task \in Named
           /\ Child(stack[i].cur, stack[i].task)
<1>1. Len(stack) \in Nat \ {0}
  BY StackFacts
<1>2. i \in 1 .. Len(stack) /\ i + 1 \in 1 .. Len(stack) /\ i < Len(stack)
  BY <1>1
<1>3. stack[i].cur \in Pids /\ stack[i + 1].task = stack[i].cur
  BY <1>2 DEF WalkInv, Chain
<1> QED
  BY <1>2, <1>3, PidFacts DEF WalkInv, Placed, Inside

\* The caller of a call that has just begun.
Caller == stack[Len(stack) - 1]

LEMMA CallerFacts ==
    ASSUME Types, mount = "walking", WalkInv, Len(stack) # 1
    PROVE  /\ Caller.task \in Pids /\ Caller.task \in Named /\ Caller.task # Top.task
           /\ Child(Top.task, Caller.task)
           /\ Caller.cur \in Pids /\ Caller.cur # Enter
           /\ Top.cur = Enter => Top.dir = Caller.dir
           /\ Caller.dir # <<>> /\ Caller.dir[Len(Caller.dir)] = Caller.task
           /\ FollowsTree(Caller.dir)
<1>1. Len(stack) \in Nat \ {0} /\ Top = stack[Len(stack)]
  BY StackFacts
<1>2. PICK i \in 1 .. Len(stack) - 1 : i = Len(stack) - 1
  BY <1>1
<1>3. /\ i \in 1 .. Len(stack) /\ i + 1 = Len(stack) /\ Len(stack) \in 1 .. Len(stack)
      /\ Len(stack) # i /\ Len(stack) > 1 /\ Caller = stack[i] /\ Len(stack) - 1 = i
  BY <1>1, <1>2 DEF Caller
<1>4. /\ stack[i].cur \in Pids /\ stack[i].cur # Enter
      /\ stack[i + 1].task = stack[i].cur /\ stack[i].task \in Named
      /\ Child(stack[i].cur, stack[i].task)
  BY Callers
<1>5. /\ stack[i].task \in Pids
  BY <1>3, StackFacts
<1>6. stack[i].task # stack[Len(stack)].task
  BY <1>3 DEF WalkInv, FramesApart
<1>7. /\ stack[i].dir # <<>> /\ stack[i].dir[Len(stack[i].dir)] = stack[i].task
      /\ FollowsTree(stack[i].dir)
  BY <1>3, <1>4 DEF WalkInv, Placed
<1>8. stack[Len(stack)].cur = Enter => stack[Len(stack)].dir = stack[i].dir
  BY <1>3 DEF WalkInv, Begun
<1> QED
  BY <1>1, <1>3, <1>4, <1>5, <1>6, <1>7, <1>8

\* The path of the task a call has just begun for.
Here == Append(Top.dir, Top.task)

LEMMA HereFacts ==
    ASSUME ReadInv, TaskTree, mount = "walking", WalkInv, Top.cur = Enter
    PROVE  /\ Top.task \in Pids /\ Top.task \notin Named
           /\ Here \in Seq(Pids) /\ Len(Here) \in Nat \ {0} /\ Here[Len(Here)] = Top.task
           /\ FollowsTree(Here) /\ Core(Here) = Here
           /\ Append(Here, Top.task) \in Seq(Pids)
           /\ Len(Append(Here, Top.task)) = Len(Here) + 1
           /\ Append(Here, Top.task)[Len(Here) + 1] = Top.task
           /\ Core(Append(Here, Top.task)) = Here
<1>0. Types
  BY DEF ReadInv
<1>1. /\ Len(stack) \in 1 .. Len(stack) /\ Top = stack[Len(stack)]
      /\ Top.task \in Pids /\ Top.dir \in Seq(Pids)
  BY <1>0, StackFacts
<1>2. Top.task \notin Named
  BY <1>1 DEF WalkInv, Begun
<1>3. /\ Here \in Seq(Pids) /\ Len(Here) = Len(Top.dir) + 1 /\ Len(Top.dir) \in Nat
      /\ Here[Len(Top.dir) + 1] = Top.task
      /\ \A i \in 1 .. Len(Top.dir) : Here[i] = Top.dir[i]
  BY <1>1 DEF Here
<1>4. FollowsTree(Here) /\ Core(Here) = Here
  <2>1. CASE Len(stack) = 1
    <3>1. Top.dir = <<>> /\ Top.task = Swapper
      BY <1>1, <2>1 DEF WalkInv, Begun, Chain
    <3>2. Len(Here) = 1 /\ Here[1] = Swapper
      BY <1>3, <3>1
    <3> QED
      BY <3>2 DEF FollowsTree, Core
  <2>2. CASE Len(stack) # 1
    <3>1. /\ Caller.task \in Pids /\ Caller.task # Top.task
          /\ Child(Top.task, Caller.task) /\ Top.dir = Caller.dir
          /\ Caller.dir # <<>> /\ Caller.dir[Len(Caller.dir)] = Caller.task
          /\ FollowsTree(Caller.dir)
      BY <1>0, <2>2, CallerFacts
    <3>2. Len(Top.dir) \in Nat \ {0} /\ Top.dir[Len(Top.dir)] = Caller.task /\ FollowsTree(Top.dir)
      BY <1>1, <3>1
    <3>3. Here[Len(Top.dir)] = Caller.task /\ Here[1] = Swapper
      BY <1>3, <3>2 DEF FollowsTree
    <3>4. Core(Here) = Here
      <4>1. Len(Here) - 1 = Len(Top.dir)
        BY <1>3
      <4> QED
        BY <1>3, <3>1, <3>3, <4>1 DEF Core
    <3>5. Top.task \in DOMAIN snap => snap[Top.task] = Caller.task
      BY <3>1, SoleParent DEF WalkInv, SnapHolds, TaskTree
    <3>6. ASSUME NEW i \in 2 .. Len(Here), Here[i] \in DOMAIN snap
          PROVE  snap[Here[i]] = Here[i - 1]
      <4>1. CASE i = Len(Here)
        <5>1. i - 1 = Len(Top.dir) /\ Here[i] = Top.task
          BY <1>3, <4>1
        <5> QED
          BY <3>3, <3>5, <3>6, <5>1
      <4>2. CASE i # Len(Here)
        <5>1. i \in 2 .. Len(Top.dir) /\ i - 1 \in 1 .. Len(Top.dir) /\ i \in 1 .. Len(Top.dir)
          BY <1>3, <4>2
        <5>2. Here[i] = Top.dir[i] /\ Here[i - 1] = Top.dir[i - 1]
          BY <1>3, <5>1
        <5> QED
          BY <3>2, <3>6, <5>1, <5>2 DEF FollowsTree
      <4> QED
        BY <4>1, <4>2
    <3> QED
      BY <3>3, <3>4, <3>6 DEF FollowsTree
  <2> QED
    BY <2>1, <2>2
<1>5. PICK h : h = Here
  OBVIOUS
<1>6. PICK g : g = Append(h, Top.task)
  OBVIOUS
<1>7. /\ h \in Seq(Pids) /\ Len(h) \in Nat \ {0} /\ h[Len(h)] = Top.task
  BY <1>3, <1>5
<1>8. /\ g \in Seq(Pids) /\ Len(g) = Len(h) + 1 /\ g[Len(h) + 1] = Top.task
      /\ \A i \in 1 .. Len(h) : g[i] = h[i]
  BY <1>1, <1>6, <1>7
<1>9. Core(g) = h
  <2>1. Len(g) > 1 /\ Len(g) - 1 = Len(h) /\ g[Len(g) - 1] = g[Len(g)]
    BY <1>7, <1>8
  <2>2. Core(g) = SubSeq(g, 1, Len(h))
    BY <2>1 DEF Core
  <2>3. SubSeq(g, 1, Len(h)) = h
    BY <1>1, <1>6, <1>7, AppendProperties, SubSeqProperties, SeqEqual
  <2> QED
    BY <2>2, <2>3
<1> QED
  BY <1>1, <1>2, <1>4, <1>5, <1>6, <1>7, <1>8, <1>9

\* The dentries of one task that has none yet go to the tree.
LEMMA TreeGrows ==
    ASSUME GoodTree, snap' = snap, NEW t, t \notin Named, NEW D, IsFiniteSet(D),
           tree' = tree \cup D, \A d \in D : NameOf(d) = t,
           \A d, e \in D : d.path = e.path => d = e,
           NEW f \in D, f.kind = "file", \A d \in D : d.kind = "file" => d = f,
           FollowsTree(Core(f.path))
    PROVE  GoodTree' /\ Named' = Named \cup {t}
<1>1. Named' = Named \cup {t}
  BY DEF Named, NameOf
<1>2. IsFiniteSet(tree')
  BY FS_Union DEF GoodTree
<1>3. Files' = Files \cup {f}
  BY DEF Files
<1>4. \A d \in tree : NameOf(d) # t
  BY DEF Named
<1>5. \A d, e \in tree' : d.path = e.path => d = e
  <2>1. ASSUME NEW d \in tree, NEW e \in D PROVE d.path # e.path
    BY <1>4 DEF NameOf
  <2> QED
    BY <2>1 DEF GoodTree
<1>6. \A d, e \in Files' : NameOf(d) = NameOf(e) => d = e
  <2>1. \A d \in Files : NameOf(d) # t
    BY <1>4 DEF Files
  <2> QED
    BY <1>3, <2>1 DEF GoodTree
<1>7. \A d \in tree' : \E e \in Files' : NameOf(e) = NameOf(d)
  <2>1. \A d \in tree : \E e \in Files : NameOf(e) = NameOf(d)
    BY DEF GoodTree
  <2> QED
    BY <1>3, <2>1
<1>8. \A d \in Files' : FollowsTree(Core(d.path))
  BY <1>3 DEF GoodTree
<1>9. \A p : FollowsTree(p)' <=> FollowsTree(p)
  BY DEF FollowsTree
<1>10. \A d \in Files' : FollowsTree(Core(d.path))'
  <2> SUFFICES ASSUME NEW d \in Files' PROVE FollowsTree(Core(d.path))'
    OBVIOUS
  <2>1. PICK p : p = Core(d.path)
    OBVIOUS
  <2>2. FollowsTree(p)
    BY <1>8, <2>1
  <2>3. FollowsTree(p)'
    BY <1>9, <2>2
  <2> QED
    BY <2>1, <2>3 DEF Core
<1>11. GoodTree'
  BY <1>2, <1>5, <1>6, <1>7, <1>10 DEF GoodTree, NameOf
<1> QED
  BY <1>1, <1>11

\* What the frames below the innermost one keep when it returns and every
\* name it was about to give has been given.
LEMMA Returns ==
    ASSUME Types, mount = "walking", WalkInv, Len(stack) # 1,
           stack' = Pop, children' = children, life' = life, snap' = snap,
           Named' = Named \cup Due,
           \A c \in DOMAIN snap : snap[c] = Top.task => c \in Named'
    PROVE  WalkInv'
<1>1. /\ Len(stack) \in Nat \ {0} /\ Top = stack[Len(stack)]
      /\ Len(stack') = Len(stack) - 1
      /\ \A i \in 1 .. Len(stack) - 1 : stack'[i] = stack[i]
  BY StackFacts
<1>2. \A i \in 1 .. Len(stack) - 1 :
           /\ i \in 1 .. Len(stack) /\ i + 1 \in 1 .. Len(stack) /\ i < Len(stack)
           /\ stack[i].cur \in Pids /\ stack[i].cur # Enter
           /\ stack[i + 1].task = stack[i].cur
           /\ stack[i].task \in Named
  BY <1>1, Callers
<1>3. Len(stack) - 1 \in 1 .. Len(stack) - 1
  BY <1>1
<1>4. Due' = {}
  BY <1>1, <1>2, <1>3 DEF Due, Top
<1>5. Named \subseteq Named'
  OBVIOUS
<1>6. Chain'
  <2>1. stack'[1].task = Swapper
    BY <1>1 DEF WalkInv, Chain
  <2>2. ASSUME NEW i \in 1 .. Len(stack'), i < Len(stack')
        PROVE  stack'[i].cur \in Pids /\ stack'[i + 1].task = stack'[i].cur
    <3>1. i \in 1 .. Len(stack) - 1 /\ i + 1 \in 1 .. Len(stack) - 1
      BY <1>1, <2>2
    <3> QED
      BY <1>1, <1>2, <3>1
  <2> QED
    BY <2>1, <2>2 DEF Chain
<1>7. Begun'
  BY <1>1, <1>2 DEF Begun
<1>8. Placed'
  <2> SUFFICES ASSUME NEW i \in 1 .. Len(stack')
               PROVE  /\ stack'[i].task \in Named'
                      /\ stack'[i].dir # <<>>
                      /\ stack'[i].dir[Len(stack'[i].dir)] = stack'[i].task
                      /\ FollowsTree(stack[i].dir)'
    BY DEF Placed
  <2>1. i \in 1 .. Len(stack) - 1 /\ stack'[i] = stack[i]
    BY <1>1
  <2>2. /\ stack[i].task \in Named
        /\ stack[i].dir # <<>> /\ stack[i].dir[Len(stack[i].dir)] = stack[i].task
        /\ FollowsTree(stack[i].dir)
    BY <1>2, <2>1 DEF WalkInv, Placed
  <2> QED
    BY <1>5, <2>1, <2>2 DEF FollowsTree
<1>9. Inside' /\ FramesApart'
  <2>1. FramesApart'
    BY <1>1, <1>2 DEF WalkInv, FramesApart
  <2> SUFFICES ASSUME NEW i \in 1 .. Len(stack'), stack'[i].cur \in Pids
               PROVE  Child(stack[i].cur, stack[i].task)'
    BY <2>1 DEF Inside
  <2>2. i \in 1 .. Len(stack) - 1 /\ stack'[i] = stack[i]
    BY <1>1
  <2>3. Child(stack[i].cur, stack[i].task)
    BY <1>2, <2>2 DEF WalkInv, Inside
  <2> QED
    BY <2>2, <2>3 DEF Child
<1>10. UpToCursor'
  <2> SUFFICES ASSUME NEW i \in 1 .. Len(stack'), stack'[i].cur # Enter, NEW c \in Pids,
                      NEW j \in 1 .. Len(children'[stack'[i].task]), At(c, stack[i].task, j)'
               PROVE  c \in Named' \cup Due' <=> Reached(stack[i], j)'
    BY DEF UpToCursor
  <2>1. i \in 1 .. Len(stack) - 1 /\ stack'[i] = stack[i]
    BY <1>1
  <2>2. j \in 1 .. Len(children[stack[i].task]) /\ At(c, stack[i].task, j)
    BY <2>1 DEF At
  <2>3. c \in Named \cup Due <=> Reached(stack[i], j)
    BY <1>2, <2>1, <2>2 DEF WalkInv, UpToCursor
  <2>4. Reached(stack[i], j) <=> Reached(stack[i], j)'
    BY <2>1 DEF Reached, At
  <2> QED
    BY <1>4, <2>3, <2>4
<1>11. ParentNamed'
  <2> SUFFICES ASSUME NEW c \in Named' \ {Swapper} PROVE \E q \in Named : Child(c, q)
    BY <1>5 DEF ParentNamed, Child
  <2>1. CASE c \in Named
    BY <2>1 DEF WalkInv, ParentNamed
  <2>2. CASE c \in Due
    BY <2>2, CallerFacts DEF Due
  <2> QED
    BY <2>1, <2>2
<1>12. Returned'
  <2> SUFFICES ASSUME NEW v \in Named', \A i \in 1 .. Len(stack) - 1 : stack[i].task # v,
                      NEW c \in DOMAIN snap, snap[c] = v
               PROVE  c \in Named'
    BY <1>1 DEF Returned
  <2>1. CASE v = Top.task
    BY <2>1
  <2>2. CASE v # Top.task
    <3>1. v \in Named
      BY <2>2 DEF Due
    <3>2. \A i \in 1 .. Len(stack) : i \in 1 .. Len(stack) - 1 \/ i = Len(stack)
      BY <1>1
    <3>3. \A i \in 1 .. Len(stack) : stack[i].task # v
      BY <1>1, <2>2, <3>2
    <3> QED
      BY <1>5, <3>1, <3>3 DEF WalkInv, Returned
  <2> QED
    BY <2>1, <2>2
<1>13. SnapHolds'
  BY DEF WalkInv, SnapHolds, Snapped, Child
<1> QED
  BY <1>6, <1>7, <1>8, <1>9, <1>10, <1>11, <1>12, <1>13 DEF WalkInv

LEMMA AddFileTree ==
    ASSUME ReadInv, TaskTree, MountInv, AddFile
    PROVE  MountInv'
<1>1. /\ mount = "walking" /\ Top.cur = Enter /\ children[Top.task] = <<>>
      /\ tree' = tree \cup {Dentry("file", Here)} /\ stack' = Pop
      /\ mount' = IF Len(stack) = 1 THEN "mounted" ELSE mount
      /\ snap' = snap /\ children' = children /\ life' = life
  BY DEF AddFile, kernelVars, Here
<1>2. WalkInv /\ GoodTree /\ Types
  BY <1>1 DEF MountInv, ReadInv
<1>3. /\ Top.task \in Pids /\ Top.task \notin Named
      /\ Here \in Seq(Pids) /\ Len(Here) \in Nat \ {0} /\ Here[Len(Here)] = Top.task
      /\ FollowsTree(Here) /\ Core(Here) = Here
  BY <1>1, <1>2, HereFacts
<1>4. Len(stack) # 1
  <2>1. Len(stack) = 1 => Top.task = Swapper
    BY <1>2 DEF WalkInv, Chain, Top
  <2>2. children[Swapper] # <<>>
    BY DEF TaskTree, Booted
  <2> QED
    BY <1>1, <2>1, <2>2
<1>5. PICK f : f = Dentry("file", Here)
  OBVIOUS
<1>6. f.kind = "file" /\ f.path = Here /\ NameOf(f) = Top.task /\ FollowsTree(Core(f.path))
  BY <1>3, <1>5 DEF Dentry, NameOf
<1>7. tree' = tree \cup {f} /\ IsFiniteSet({f})
  BY <1>1, <1>5, FS_Singleton
<1>8. GoodTree' /\ Named' = Named \cup {Top.task}
  BY <1>1, <1>2, <1>3, <1>6, <1>7, TreeGrows
<1>9. Named' = Named \cup Due
  BY <1>1, <1>8 DEF Due
<1>10. \A c \in DOMAIN snap : snap[c] # Top.task
  BY <1>1, <1>2 DEF WalkInv, SnapHolds, Child
<1>11. WalkInv'
  BY <1>1, <1>2, <1>4, <1>9, <1>10, Returns
<1> QED
  BY <1>1, <1>4, <1>8, <1>11 DEF MountInv

\* None of the children of a task that has no name yet has one.
LEMMA NoneNamed ==
    ASSUME ReadInv, TaskTree, mount = "walking", WalkInv, Top.cur = Enter,
           NEW c, Child(c, Top.task)
    PROVE  c \notin Named \cup {Top.task}
<1>0. Types /\ Len(stack) \in 1 .. Len(stack) /\ Top = stack[Len(stack)]
      /\ Named \subseteq Pids
  BY StackFacts DEF ReadInv, TreeForked, Named, Forked
<1>1. Top.task \in Pids /\ Top.task \notin Named
  BY HereFacts
<1>2. c \in Pids \ {Swapper}
  BY <1>0, <1>1, ChildIsTask
<1>3. c # Top.task
  <2>1. CASE Len(stack) = 1
    BY <1>0, <1>2, <2>1 DEF WalkInv, Chain
  <2>2. CASE Len(stack) # 1
    <3>1. Caller.task \in Pids /\ Caller.task # Top.task /\ Child(Top.task, Caller.task)
      BY <1>0, <2>2, CallerFacts
    <3> QED
      BY <1>1, <3>1, SoleParent DEF TaskTree
  <2> QED
    BY <2>1, <2>2
<1>4. c \notin Named
  <2> SUFFICES ASSUME c \in Named PROVE FALSE
    OBVIOUS
  <2>1. PICK q \in Named : Child(c, q)
    BY <1>2 DEF WalkInv, ParentNamed
  <2>2. q = Top.task
    BY <1>0, <1>1, <2>1, SoleParent DEF TaskTree
  <2> QED
    BY <1>1, <2>1, <2>2
<1> QED
  BY <1>3, <1>4

LEMMA AddDirTree ==
    ASSUME ReadInv, TaskTree, MountInv, AddDir
    PROVE  MountInv'
<1> DEFINE t == Top.task
<1>1. PICK e : e = [task |-> Top.task, dir |-> Here, cur |-> Head0]
  OBVIOUS
<1>2. /\ mount = "walking" /\ Top.cur = Enter
      /\ tree' = tree \cup {Dentry("dir", Here), Dentry("file", Append(Here, t))}
      /\ stack' = Append(Pop, e)
      /\ mount' = mount /\ snap' = snap /\ children' = children /\ life' = life
  BY <1>1 DEF AddDir, kernelVars, Here
<1>3. WalkInv /\ GoodTree /\ Types
  BY <1>2 DEF MountInv, ReadInv
<1>4. /\ t \in Pids /\ t \notin Named
      /\ Here \in Seq(Pids) /\ Len(Here) \in Nat \ {0} /\ Here[Len(Here)] = t
      /\ FollowsTree(Here)
      /\ Append(Here, t) \in Seq(Pids) /\ Len(Append(Here, t)) = Len(Here) + 1
      /\ Append(Here, t)[Len(Here) + 1] = t
      /\ Core(Append(Here, t)) = Here
  BY <1>2, <1>3, HereFacts
<1>5. GoodTree' /\ Named' = Named \cup {t}
  <2>1. PICK d : d = Dentry("dir", Here)
    OBVIOUS
  <2>2. PICK f : f = Dentry("file", Append(Here, t))
    OBVIOUS
  <2>3. /\ d.kind = "dir" /\ d.path = Here /\ NameOf(d) = t
        /\ f.kind = "file" /\ f.path = Append(Here, t) /\ NameOf(f) = t
        /\ FollowsTree(Core(f.path))
    BY <1>4, <2>1, <2>2 DEF Dentry, NameOf
  <2>4. d.path # f.path /\ d.kind # "file"
    BY <1>4, <2>3
  <2>5. tree' = tree \cup {d, f} /\ IsFiniteSet({d, f})
    <3>1. IsFiniteSet({d}) /\ IsFiniteSet({f}) /\ {d, f} = {d} \cup {f}
      BY FS_Singleton
    <3> QED
      BY <1>2, <2>1, <2>2, <3>1, FS_Union
  <2>6. PICK D : D = {d, f}
    OBVIOUS
  <2>7. /\ IsFiniteSet(D) /\ tree' = tree \cup D
        /\ \A x \in D : NameOf(x) = t
        /\ \A x, y \in D : x.path = y.path => x = y
        /\ \A x \in D : x.kind = "file" => x = f
        /\ f \in D
    BY <2>3, <2>4, <2>5, <2>6
  <2>8. snap' = snap /\ t \notin Named /\ GoodTree /\ f.kind = "file"
        /\ FollowsTree(Core(f.path))
    BY <1>2, <1>3, <1>4, <2>3
  <2> HIDE DEF t
  <2> QED
    BY <2>7, <2>8, TreeGrows
<1>6. /\ Len(stack) \in Nat \ {0} /\ Top = stack[Len(stack)]
      /\ Len(stack) \in 1 .. Len(stack)
      /\ Len(stack') = Len(stack)
      /\ \A i \in 1 .. Len(stack) - 1 : stack'[i] = stack[i]
      /\ stack'[Len(stack)] = e
  <2>1. /\ Len(stack) \in Nat \ {0} /\ Top = stack[Len(stack)]
        /\ Pop \in Seq(FrameType) /\ Len(Pop) = Len(stack) - 1
        /\ \A i \in 1 .. Len(stack) - 1 : Pop[i] = stack[i]
    BY <1>2, <1>3, StackFacts
  <2>2. /\ Len(Append(Pop, e)) = Len(Pop) + 1
        /\ \A i \in 1 .. Len(Pop) : Append(Pop, e)[i] = Pop[i]
        /\ Append(Pop, e)[Len(Pop) + 1] = e
    BY <2>1
  <2>3. (Len(stack) - 1) + 1 = Len(stack) /\ Len(stack) \in 1 .. Len(stack)
    BY <2>1
  <2> QED
    BY <1>2, <2>1, <2>2, <2>3
<1>7. e.task = t /\ e.dir = Here /\ e.cur = Head0 /\ Head0 # Enter /\ Head0 \notin Pids
  BY <1>1, PidFacts
<1>8. \A i \in 1 .. Len(stack) - 1 :
           /\ i \in 1 .. Len(stack) /\ i + 1 \in 1 .. Len(stack) /\ i < Len(stack)
           /\ stack[i].cur \in Pids /\ stack[i].cur # Enter
           /\ stack[i + 1].task = stack[i].cur
           /\ stack[i].task \in Named
  BY <1>2, <1>3, <1>6, Callers
<1>9. \A i \in 1 .. Len(stack) : i \in 1 .. Len(stack) - 1 \/ i = Len(stack)
  BY <1>6
<1>10. \A i \in 1 .. Len(stack) : stack'[i].task = stack[i].task
  BY <1>6, <1>7, <1>9
<1>11. Due' = {} /\ Due = {t}
  BY <1>2, <1>6, <1>7 DEF Due, Top
<1> HIDE DEF t
<1>12. Chain'
  <2>1. stack'[1].task = Swapper
    <3>1. 1 \in 1 .. Len(stack)
      BY <1>6
    <3> QED
      BY <1>3, <1>10, <3>1 DEF WalkInv, Chain
  <2>2. ASSUME NEW i \in 1 .. Len(stack'), i < Len(stack')
        PROVE  stack'[i].cur \in Pids /\ stack'[i + 1].task = stack'[i].cur
    <3>1. i \in 1 .. Len(stack) - 1 /\ i + 1 \in 1 .. Len(stack)
      BY <1>6, <2>2
    <3> QED
      BY <1>6, <1>8, <1>10, <3>1
  <2> QED
    BY <2>1, <2>2 DEF Chain
<1>13. Begun'
  <2>1. \A i \in 1 .. Len(stack') : stack'[i].cur # Enter
    BY <1>6, <1>7, <1>8, <1>9
  <2> QED
    BY <2>1 DEF Begun
<1>14. Placed'
  <2> SUFFICES ASSUME NEW i \in 1 .. Len(stack')
               PROVE  /\ stack'[i].task \in Named'
                      /\ stack'[i].dir # <<>>
                      /\ stack'[i].dir[Len(stack'[i].dir)] = stack'[i].task
                      /\ FollowsTree(stack[i].dir)'
    BY DEF Placed
  <2>1. CASE i \in 1 .. Len(stack) - 1
    <3>1. /\ stack[i].task \in Named
          /\ stack[i].dir # <<>> /\ stack[i].dir[Len(stack[i].dir)] = stack[i].task
          /\ FollowsTree(stack[i].dir)
      BY <1>3, <1>8, <2>1 DEF WalkInv, Placed
    <3>2. stack'[i] = stack[i]
      BY <1>6, <2>1
    <3> QED
      BY <1>2, <1>5, <3>1, <3>2 DEF FollowsTree
  <2>2. CASE i = Len(stack)
    <3>1. stack'[i].task = t /\ stack'[i].dir = Here
      BY <1>6, <1>7, <2>2
    <3>2. Here # <<>>
      BY <1>4
    <3> QED
      BY <1>2, <1>4, <1>5, <3>1, <3>2 DEF FollowsTree
  <2> QED
    BY <1>6, <1>9, <2>1, <2>2
<1>15. FramesApart'
  BY <1>3, <1>6, <1>10 DEF WalkInv, FramesApart
<1>16. Inside'
  <2> SUFFICES ASSUME NEW i \in 1 .. Len(stack'), stack'[i].cur \in Pids
               PROVE  Child(stack[i].cur, stack[i].task)'
    BY DEF Inside
  <2>1. i \in 1 .. Len(stack) - 1
    BY <1>6, <1>7, <1>9
  <2>2. Child(stack[i].cur, stack[i].task) /\ stack'[i] = stack[i]
    BY <1>3, <1>6, <1>8, <2>1 DEF WalkInv, Inside
  <2> QED
    BY <1>2, <2>2 DEF Child
<1>17. UpToCursor'
  <2> SUFFICES ASSUME NEW i \in 1 .. Len(stack'), stack'[i].cur # Enter, NEW c \in Pids,
                      NEW j \in 1 .. Len(children'[stack'[i].task]), At(c, stack[i].task, j)'
               PROVE  c \in Named' \cup Due' <=> Reached(stack[i], j)'
    BY DEF UpToCursor
  <2>1. CASE i \in 1 .. Len(stack) - 1
    <3>1. stack'[i] = stack[i]
      BY <1>6, <2>1
    <3>2. j \in 1 .. Len(children[stack[i].task]) /\ At(c, stack[i].task, j)
      BY <1>2, <3>1 DEF At
    <3>3. c \in Named \cup Due <=> Reached(stack[i], j)
      BY <1>3, <1>8, <2>1, <3>2 DEF WalkInv, UpToCursor
    <3>4. Reached(stack[i], j) <=> Reached(stack[i], j)'
      BY <1>2, <3>1 DEF Reached, At
    <3> QED
      BY <1>5, <1>11, <3>3, <3>4
  <2>2. CASE i = Len(stack)
    <3>1. stack'[i].task = t /\ stack'[i].cur = Head0
      BY <1>6, <1>7, <2>2
    <3>2. Child(c, t)
      BY <1>2, <3>1 DEF At, Child
    <3>3. c \notin Named'
      BY <1>2, <1>3, <1>5, <3>2, NoneNamed DEF t
    <3>4. ASSUME NEW k \in 1 .. Len(children[t]) PROVE children[t][k] # Head0
      <4>1. children[t] \in Seq(Pids \ {Swapper})
        BY <1>3, <1>4 DEF Types
      <4>2. children[t][k] \in Pids
        BY <4>1
      <4> QED
        BY <1>7, <4>2
    <3>5. ~Reached(stack[i], j)'
      BY <1>2, <3>1, <3>4 DEF Reached, At
    <3> QED
      BY <1>11, <3>3, <3>5
  <2> QED
    BY <1>6, <1>9, <2>1, <2>2
<1>18. ParentNamed'
  <2> SUFFICES ASSUME NEW c \in Named' \ {Swapper} PROVE \E q \in Named : Child(c, q)
    BY <1>2, <1>5 DEF ParentNamed, Child
  <2>1. CASE c \in Named
    BY <1>3, <2>1 DEF WalkInv, ParentNamed
  <2>2. CASE c = t
    <3>1. Len(stack) # 1
      BY <1>3, <1>6, <2>2 DEF WalkInv, Chain, t
    <3> QED
      BY <1>2, <1>3, <2>2, <3>1, CallerFacts DEF t
  <2> QED
    BY <1>5, <2>1, <2>2
<1>19. Returned'
  <2> SUFFICES ASSUME NEW v \in Named', \A i \in 1 .. Len(stack') : stack'[i].task # v,
                      NEW c \in DOMAIN snap, snap[c] = v
               PROVE  c \in Named'
    BY <1>2 DEF Returned
  <2>1. v # t /\ \A i \in 1 .. Len(stack) : stack[i].task # v
    BY <1>6, <1>7, <1>10
  <2> QED
    BY <1>3, <1>5, <2>1 DEF WalkInv, Returned
<1>20. SnapHolds'
  BY <1>2, <1>3 DEF WalkInv, SnapHolds, Snapped, Child
<1> QED
  BY <1>2, <1>5, <1>12, <1>13, <1>14, <1>15, <1>16, <1>17, <1>18, <1>19, <1>20
     DEF MountInv, WalkInv

\* The next node is the child after the one the call is at, and the list
\* head after the last: nothing takes the node out of its list meanwhile.
LEMMA NextFacts ==
    ASSUME ReadInv, TaskTree, mount = "walking", WalkInv, Top.cur # Enter,
           NEW n, n = NextNode(Top.task, Top.cur)
    PROVE  \/ n = Head0 /\ \A j \in 1 .. Len(children[Top.task]) : Reached(Top, j)
           \/ \E m \in 1 .. Len(children[Top.task]) :
                 /\ n = children[Top.task][m]
                 /\ \A j \in 1 .. Len(children[Top.task]) : Reached(Top, j) <=> j < m
<1>0. /\ Len(stack) \in 1 .. Len(stack) /\ Top = stack[Len(stack)]
      /\ Top.task \in Pids /\ Top.cur \in Pids \cup {Head0}
  BY StackFacts DEF ReadInv
<1>1. PICK q, v : q = Top.task /\ v = Top.cur
  OBVIOUS
<1>2. q \in Pids /\ children[q] \in Seq(Pids \ {Swapper}) /\ Len(children[q]) \in Nat
  BY <1>0, <1>1 DEF ReadInv, Types
<1>3. \A j : Reached(Top, j) <=> \E k \in 1 .. Len(children[q]) : j <= k /\ children[q][k] = v
  BY <1>1 DEF Reached, At
<1>4. CASE v = Head0
  <2>1. \A k \in 1 .. Len(children[q]) : children[q][k] # v
    <3>1. \A k \in 1 .. Len(children[q]) : children[q][k] \in Pids
      BY <1>2
    <3> QED
      BY <1>4, <3>1, PidFacts
  <2>2. n = IF children[q] = <<>> THEN Head0 ELSE children[q][1]
    BY <1>1, <1>4 DEF NextNode
  <2>3. CASE children[q] = <<>>
    BY <1>1, <2>2, <2>3
  <2>4. CASE children[q] # <<>>
    <3>1. 1 \in 1 .. Len(children[q]) /\ n = children[q][1]
      BY <1>2, <2>2, <2>4
    <3>2. \A j \in 1 .. Len(children[q]) : ~Reached(Top, j) /\ ~(j < 1)
      BY <1>3, <2>1
    <3> QED
      BY <1>1, <3>1, <3>2
  <2> QED
    BY <2>3, <2>4
<1>5. CASE v \in Pids
  <2>1. Child(v, q)
    BY <1>0, <1>1, <1>5 DEF WalkInv, Inside
  <2>2. PICK k \in 1 .. Len(children[q]) : children[q][k] = v
    BY <2>1 DEF Child
  <2>3. life[v] # "gone" /\ v # Head0
    BY <1>2, <1>5, <2>2, PidFacts DEF TaskTree, ListsAlive
  <2>4. \E r \in Pids : Place(r, v) # {}
    BY <1>2, <2>2 DEF Place
  <2>5. /\ Parent(v) \in Pids /\ Rank(v) \in 1 .. Len(children[Parent(v)])
        /\ children[Parent(v)][Rank(v)] = v
    BY <2>4, ParentFacts
  <2>6. Parent(v) = q /\ Rank(v) = k
    BY <1>2, <2>2, <2>5 DEF TaskTree, OnePlace
  <2>7. \A j \in 1 .. Len(children[q]) : children[q][j] = v => j = k
    BY <1>2, <2>2 DEF TaskTree, OnePlace
  <2>8. \A j \in 1 .. Len(children[q]) : Reached(Top, j) <=> j <= k
    BY <1>3, <2>2, <2>7
  <2>9. n = IF k < Len(children[q]) THEN children[q][k + 1] ELSE Head0
    BY <1>1, <2>3, <2>6 DEF NextNode
  <2>10. CASE k < Len(children[q])
    <3>1. k + 1 \in 1 .. Len(children[q]) /\ n = children[q][k + 1]
      BY <1>2, <2>9, <2>10
    <3>2. \A j \in 1 .. Len(children[q]) : j <= k <=> j < k + 1
      BY <1>2
    <3>3. \A j \in 1 .. Len(children[q]) : Reached(Top, j) <=> j < k + 1
      BY <2>8, <3>2
    <3> QED
      BY <1>1, <3>1, <3>3
  <2>11. CASE ~(k < Len(children[q]))
    <3>1. \A j \in 1 .. Len(children[q]) : j <= k
      BY <1>2, <2>11
    <3> QED
      BY <1>1, <2>8, <2>9, <2>11, <3>1
  <2> QED
    BY <2>10, <2>11
<1> QED
  BY <1>0, <1>1, <1>4, <1>5

\* A call returns when it has been at every child.
LEMMA PopTree ==
    ASSUME ReadInv, TaskTree, MountInv, mount = "walking", Top.cur # Enter,
           \A j \in 1 .. Len(children[Top.task]) : Reached(Top, j),
           stack' = Pop, mount' = IF Len(stack) = 1 THEN "mounted" ELSE mount,
           UNCHANGED <<tree, snap, children, life>>
    PROVE  MountInv'
<1>0. WalkInv /\ GoodTree /\ Types
  BY DEF MountInv, ReadInv
<1>1. Len(stack) \in 1 .. Len(stack) /\ Top = stack[Len(stack)] /\ Top.task \in Pids
  BY <1>0, StackFacts
<1>2. Named' = Named /\ Due = {} /\ Snapped' = Snapped
  BY DEF Named, NameOf, Due, Snapped
<1>3. GoodTree'
  BY <1>0 DEF GoodTree, Files, NameOf, Core, FollowsTree
<1>4. ASSUME NEW c, Child(c, Top.task) PROVE c \in Named
  <2>1. c \in Pids
    BY <1>0, <1>1, <1>4, ChildIsTask
  <2>2. PICK j \in 1 .. Len(children[Top.task]) : children[Top.task][j] = c
    BY <1>4 DEF Child
  <2> QED
    BY <1>0, <1>1, <1>2, <2>1, <2>2 DEF WalkInv, UpToCursor, At
<1>5. \A c \in DOMAIN snap : snap[c] = Top.task => c \in Named
  BY <1>0, <1>4 DEF WalkInv, SnapHolds
<1>6. CASE Len(stack) # 1
  <2>1. WalkInv'
    BY <1>0, <1>2, <1>5, <1>6, Returns
  <2> QED
    BY <1>3, <1>6, <2>1 DEF MountInv
<1>7. CASE Len(stack) = 1
  <2>1. Swapper = Top.task /\ Swapper \in Named
    BY <1>0, <1>1, <1>7 DEF WalkInv, Chain, Placed
  <2> DEFINE U == DOMAIN snap \ Named
  <2>2. \A u \in DOMAIN snap : /\ u \in Pids \ {Swapper} /\ snap[u] \in Snapped
                               /\ snap[u] \in Pids /\ Child(u, snap[u])
    BY <1>0 DEF WalkInv, SnapHolds
  <2>3. U = {}
    <3> SUFFICES ASSUME U # {} PROVE FALSE
      OBVIOUS
    <3>1. U \in SUBSET (Pids \ {Swapper}) /\ \A u \in U : \E q \in Pids : Child(u, q)
      BY <2>2
    <3>2. PICK u \in U : \E q \in Pids \ U : Child(u, q)
      BY <3>1 DEF TaskTree, Rooted
    <3>3. PICK q \in Pids \ U : Child(u, q)
      BY <3>2
    <3>4. q = snap[u]
      BY <2>2, <3>3, SoleParent DEF TaskTree
    <3>5. q \in Named
      BY <2>1, <2>2, <3>4 DEF Snapped
    <3>6. q # Top.task
      BY <1>4, <3>3
    <3>7. \A i \in 1 .. Len(stack) : stack[i].task # q
      BY <1>1, <1>7, <3>6
    <3> QED
      BY <1>0, <3>4, <3>5, <3>7 DEF WalkInv, Returned
  <2>4. Snapped' \subseteq Named'
    BY <1>2, <2>1, <2>3 DEF Snapped
  <2> QED
    BY <1>3, <1>7, <2>4 DEF MountInv
<1> QED
  BY <1>6, <1>7

\* A call goes to its m-th child, which has no name yet, and calls for it.
LEMMA PushTree ==
    ASSUME ReadInv, TaskTree, MountInv, mount = "walking", Top.cur # Enter,
           NEW m \in 1 .. Len(children[Top.task]), NEW n, n = children[Top.task][m],
           \A j \in 1 .. Len(children[Top.task]) : Reached(Top, j) <=> j < m,
           stack' = Append(Append(Pop, [Top EXCEPT !.cur = n]), Frame(n, Top.dir)),
           UNCHANGED <<mount, tree, snap, children, life>>
    PROVE  MountInv'
<1>0. WalkInv /\ GoodTree /\ Types
  BY DEF MountInv, ReadInv
<1>1. PICK L : L = Len(stack)
  OBVIOUS
<1>2. /\ L \in Nat \ {0} /\ Top = stack[L] /\ L \in 1 .. Len(stack)
      /\ stack[L] \in FrameType
      /\ Pop \in Seq(FrameType) /\ Len(Pop) = L - 1 /\ \A i \in 1 .. L - 1 : Pop[i] = stack[i]
  <2>1. /\ L \in Nat \ {0} /\ Top = stack[L] /\ L \in 1 .. Len(stack)
        /\ Pop \in Seq(FrameType) /\ Len(Pop) = L - 1
        /\ \A i \in 1 .. L - 1 : Pop[i] = stack[i]
    BY <1>0, <1>1, StackFacts
  <2>2. stack \in Seq(FrameType)
    BY <1>0 DEF Types
  <2> QED
    BY <2>1, <2>2
<1>3. PICK q : q = Top.task
  OBVIOUS
<1>4. /\ q \in Pids /\ stack[L].task = q /\ n \in Pids \ {Swapper} /\ Child(n, q)
      /\ m \in 1 .. Len(children[q]) /\ children[q][m] = n
  <2>1. q \in Pids /\ stack[L].task = q
    BY <1>2, <1>3 DEF FrameType
  <2>2. m \in 1 .. Len(children[q]) /\ children[q][m] = n /\ Child(n, q)
    BY <1>3 DEF Child
  <2> QED
    BY <1>0, <2>1, <2>2, ChildIsTask
<1>5. PICK e, g : e = [Top EXCEPT !.cur = n] /\ g = Frame(n, Top.dir)
  OBVIOUS
<1>6. /\ e.task = q /\ e.dir = stack[L].dir /\ e.cur = n /\ e \in FrameType
      /\ g.task = n /\ g.dir = stack[L].dir /\ g.cur = Enter
  BY <1>2, <1>3, <1>4, <1>5 DEF Frame, FrameType
<1>7. /\ Len(stack') = L + 1 /\ stack'[L] = e /\ stack'[L + 1] = g
      /\ \A i \in 1 .. L - 1 : stack'[i] = stack[i]
  <2>1. PICK s : s = Append(Pop, e)
    OBVIOUS
  <2>2. /\ s \in Seq(FrameType) /\ Len(s) = L /\ s[L] = e
        /\ \A i \in 1 .. L - 1 : s[i] = stack[i]
    <3>1. /\ s \in Seq(FrameType) /\ Len(s) = Len(Pop) + 1 /\ s[Len(Pop) + 1] = e
          /\ \A i \in 1 .. Len(Pop) : s[i] = Pop[i]
      BY <1>2, <1>6, <2>1
    <3>2. Len(Pop) + 1 = L
      BY <1>2
    <3> QED
      BY <1>2, <3>1, <3>2
  <2>3. stack' = Append(s, g)
    BY <1>5, <2>1
  <2>4. /\ Len(stack') = Len(s) + 1 /\ stack'[Len(s) + 1] = g
        /\ \A i \in 1 .. Len(s) : stack'[i] = s[i]
    BY SMTT(40), <2>2, <2>3
  <2>5. L \in 1 .. L /\ \A i \in 1 .. L - 1 : i \in 1 .. L
    BY <1>2
  <2> QED
    BY <2>2, <2>4, <2>5
<1>8. \A i \in 1 .. L - 1 :
           /\ i \in 1 .. Len(stack) /\ i # L
           /\ stack[i].cur \in Pids /\ stack[i].cur # Enter
           /\ stack[i + 1].task = stack[i].cur
  BY <1>0, <1>1, <1>2, Callers
<1>9. \A i \in 1 .. Len(stack') : i \in 1 .. L - 1 \/ i = L \/ i = L + 1
  BY <1>2, <1>7
<1>10. \A i \in 1 .. L : stack'[i].task = stack[i].task /\ stack'[i].dir = stack[i].dir
  <2>1. \A i \in 1 .. L : i \in 1 .. L - 1 \/ i = L
    BY <1>2
  <2> QED
    BY <1>4, <1>6, <1>7, <2>1
<1>11. /\ Named' = Named /\ Snapped' = Snapped /\ Due = {}
       /\ Due' = {n}
  BY <1>6, <1>7 DEF Named, NameOf, Snapped, Due, Top
<1>12. GoodTree'
  BY <1>0 DEF GoodTree, Files, NameOf, Core, FollowsTree
<1>13. \A c \in Pids : \A j \in 1 .. Len(children[q]) :
           children[q][j] = c => (c \in Named <=> j < m)
  BY <1>0, <1>2, <1>3, <1>11 DEF WalkInv, UpToCursor, At
<1>14. n \notin Named
  BY <1>4, <1>13
<1>15. n # Enter /\ Enter \notin Pids
  BY <1>4, PidFacts
<1>16. Chain'
  <2>1. stack'[1].task = Swapper
    <3>1. 1 \in 1 .. L
      BY <1>2
    <3> QED
      BY <1>0, <1>10, <3>1 DEF WalkInv, Chain
  <2>2. ASSUME NEW i \in 1 .. Len(stack'), i < Len(stack')
        PROVE  stack'[i].cur \in Pids /\ stack'[i + 1].task = stack'[i].cur
    <3>1. CASE i \in 1 .. L - 1
      <4>1. i + 1 \in 1 .. L
        BY <1>2, <3>1
      <4> QED
        BY <1>7, <1>8, <1>10, <3>1, <4>1
    <3>2. CASE i = L
      BY <1>4, <1>6, <1>7, <3>2
    <3>3. CASE i = L + 1
      BY <1>2, <1>7, <2>2, <3>3
    <3> QED
      BY <1>9, <3>1, <3>2, <3>3
  <2> QED
    BY <2>1, <2>2 DEF Chain
<1>17. Begun'
  <2> SUFFICES ASSUME NEW i \in 1 .. Len(stack'), stack'[i].cur = Enter
               PROVE  /\ stack'[i].task \notin Named'
                      /\ i = 1 => stack'[i].dir = <<>>
                      /\ i > 1 => stack'[i].dir = stack'[i - 1].dir
    BY DEF Begun
  <2>1. i = L + 1
    BY <1>6, <1>7, <1>8, <1>9, <1>15
  <2>2. i # 1 /\ i - 1 = L
    BY <1>2, <2>1
  <2> QED
    BY <1>6, <1>7, <1>11, <1>14, <2>1, <2>2
<1>18. ASSUME NEW i \in 1 .. L
       PROVE  /\ stack[i].task \in Named
              /\ stack[i].dir # <<>> /\ stack[i].dir[Len(stack[i].dir)] = stack[i].task
              /\ FollowsTree(stack[i].dir)
  <2>1. i \in 1 .. L - 1 \/ i = L
    BY <1>2
  <2>2. i \in 1 .. Len(stack) /\ stack[i].cur # Enter
    BY <1>1, <1>2, <1>8, <2>1
  <2> QED
    BY <1>0, <2>2 DEF WalkInv, Placed
<1>19. Placed'
  <2> SUFFICES ASSUME NEW i \in 1 .. Len(stack'), stack'[i].cur # Enter
               PROVE  /\ stack'[i].task \in Named'
                      /\ stack'[i].dir # <<>>
                      /\ stack'[i].dir[Len(stack'[i].dir)] = stack'[i].task
                      /\ FollowsTree(stack[i].dir)'
    BY DEF Placed
  <2>1. i \in 1 .. L
    BY <1>2, <1>6, <1>7, <1>9
  <2>2. stack'[i].task = stack[i].task /\ stack'[i].dir = stack[i].dir
    BY <1>10, <2>1
  <2>3. PICK d : d = stack[i].dir
    OBVIOUS
  <2>4. FollowsTree(d) /\ stack'[i].dir = d
    BY <1>18, <2>1, <2>2, <2>3
  <2>5. d[1] = Swapper /\ \A j \in 2 .. Len(d) : d[j] \in DOMAIN snap => snap[d[j]] = d[j - 1]
    BY <2>4 DEF FollowsTree
  <2>6. FollowsTree(stack[i].dir)'
    BY <2>4, <2>5 DEF FollowsTree
  <2> QED
    BY <1>11, <1>18, <2>1, <2>2, <2>6
<1>20. FramesApart'
  <2> SUFFICES ASSUME NEW i \in 1 .. Len(stack'), NEW j \in 1 .. Len(stack'),
                      stack'[i].task = stack'[j].task
               PROVE  i = j
    BY DEF FramesApart
  <2>1. \A k \in 1 .. Len(stack') : k \in 1 .. L \/ k = L + 1
    BY <1>2, <1>7
  <2>2. \A k \in 1 .. L : stack'[k].task = stack[k].task /\ stack'[k].task # n
    BY <1>10, <1>14, <1>18
  <2>3. CASE i \in 1 .. L /\ j \in 1 .. L
    BY <1>0, <1>1, <2>2, <2>3 DEF WalkInv, FramesApart
  <2>4. CASE ~(i \in 1 .. L /\ j \in 1 .. L)
    BY <1>6, <1>7, <2>1, <2>2, <2>4
  <2> QED
    BY <2>3, <2>4
<1>21. Inside'
  <2> SUFFICES ASSUME NEW i \in 1 .. Len(stack'), stack'[i].cur \in Pids
               PROVE  Child(stack[i].cur, stack[i].task)'
    BY DEF Inside
  <2>1. CASE i \in 1 .. L - 1
    <3>1. stack'[i] = stack[i] /\ i \in 1 .. Len(stack)
      BY <1>7, <1>8, <2>1
    <3>2. Child(stack[i].cur, stack[i].task)
      BY <1>0, <3>1 DEF WalkInv, Inside
    <3> QED
      BY <3>1, <3>2 DEF Child
  <2>2. CASE i = L
    BY <1>4, <1>6, <1>7, <2>2 DEF Child
  <2>3. CASE i = L + 1
    BY <1>6, <1>7, <1>15, <2>3
  <2> QED
    BY <1>9, <2>1, <2>2, <2>3
<1>22. UpToCursor'
  <2> SUFFICES ASSUME NEW i \in 1 .. Len(stack'), stack'[i].cur # Enter, NEW c \in Pids,
                      NEW j \in 1 .. Len(children'[stack'[i].task]), At(c, stack[i].task, j)'
               PROVE  c \in Named' \cup Due' <=> Reached(stack[i], j)'
    BY DEF UpToCursor
  <2>1. CASE i \in 1 .. L - 1
    <3>1. stack'[i] = stack[i] /\ i \in 1 .. Len(stack) /\ i # L /\ stack[i].cur # Enter
      BY <1>7, <1>8, <2>1
    <3>2. j \in 1 .. Len(children[stack[i].task]) /\ At(c, stack[i].task, j)
      BY <3>1 DEF At
    <3>3. c \in Named \cup Due <=> Reached(stack[i], j)
      BY <1>0, <3>1, <3>2 DEF WalkInv, UpToCursor
    <3>4. Reached(stack[i], j) <=> Reached(stack[i], j)'
      BY ZenonT(40), <3>1 DEF Reached, At
    <3>5. c # n
      <4>1. Child(c, stack[i].task) /\ stack[i].task \in Pids
        BY <1>0, <3>1, <3>2, StackFacts DEF Child, At
      <4>2. stack[i].task # q
        BY <1>0, <1>2, <1>4, <3>1 DEF WalkInv, FramesApart
      <4> QED
        BY <1>4, <4>1, <4>2, SoleParent DEF TaskTree
    <3> QED
      BY <1>11, <3>3, <3>4, <3>5
  <2>2. CASE i = L
    <3>1. stack'[i].task = q /\ stack'[i].cur = n
      BY <1>6, <1>7, <2>2
    <3>2. j \in 1 .. Len(children[q]) /\ children[q][j] = c
      BY <3>1 DEF At
    <3>3. \A k \in 1 .. Len(children[q]) : children[q][k] = n <=> k = m
      BY <1>4 DEF TaskTree, OnePlace
    <3>4. Reached(stack[i], j)' <=> \E k \in 1 .. Len(children[q]) : j <= k /\ children[q][k] = n
      <4>1. Reached(stack[i], j)' <=>
               \E k \in 1 .. Len(children'[stack'[i].task]) :
                   j <= k /\ children'[stack'[i].task][k] = stack'[i].cur
        BY DEF Reached, At
      <4>2. children' = children
        OBVIOUS
      <4> QED
        BY ONLY <3>1, <4>1, <4>2
    <3>5. Reached(stack[i], j)' <=> j <= m
      <4>1. ASSUME j <= m PROVE Reached(stack[i], j)'
        BY <1>4, <3>4, <4>1
      <4> QED
        BY <3>3, <3>4, <4>1
    <3>6. c \in Named <=> j < m
      BY <1>13, <3>2
    <3>7. c = n <=> j = m
      BY <3>2, <3>3
    <3>8. j <= m <=> j < m \/ j = m
      BY <1>4, <3>2
    <3> QED
      BY <1>11, <3>5, <3>6, <3>7, <3>8
  <2>3. CASE i = L + 1
    BY <1>6, <1>7, <2>3
  <2> QED
    BY <1>9, <2>1, <2>2, <2>3
<1>23. ParentNamed'
  BY <1>0, <1>11 DEF WalkInv, ParentNamed, Child
<1>24. Returned'
  <2> SUFFICES ASSUME NEW v \in Named, \A i \in 1 .. Len(stack') : stack'[i].task # v,
                      NEW c \in DOMAIN snap, snap[c] = v
               PROVE  c \in Named
    BY <1>11 DEF Returned
  <2>1. \A i \in 1 .. L : i \in 1 .. Len(stack')
    BY <1>2, <1>7
  <2>2. \A i \in 1 .. Len(stack) : stack[i].task # v
    BY <1>1, <1>10, <2>1
  <2> QED
    BY <1>0, <2>2 DEF WalkInv, Returned
<1>25. SnapHolds'
  BY <1>0 DEF WalkInv, SnapHolds, Snapped, Child
<1> QED
  BY <1>12, <1>16, <1>17, <1>19, <1>20, <1>21, <1>22, <1>23, <1>24, <1>25
     DEF MountInv, WalkInv

LEMMA NextChildTree ==
    ASSUME ReadInv, TaskTree, MountInv, NextChild
    PROVE  MountInv'
<1>1. PICK n : n = NextNode(Top.task, Top.cur)
  OBVIOUS
<1>2. /\ mount = "walking" /\ Top.cur # Enter
      /\ stack' = IF n = Astray THEN stack ELSE IF n = Head0 THEN Pop
                  ELSE IF children[Top.task] # <<>>
                         THEN Append(Append(Pop, [Top EXCEPT !.cur = n]), Frame(n, Top.dir))
                  ELSE Append(Pop, [Top EXCEPT !.cur = n])
      /\ mount' = IF n = Astray THEN "astray"
                  ELSE IF n = Head0 /\ Len(stack) = 1 THEN "mounted" ELSE mount
      /\ UNCHANGED <<tree, snap, children, life>>
  BY <1>1 DEF NextChild, kernelVars
<1>3. WalkInv /\ Types
  BY <1>2 DEF MountInv, ReadInv
<1>4. \/ n = Head0 /\ \A j \in 1 .. Len(children[Top.task]) : Reached(Top, j)
      \/ \E m \in 1 .. Len(children[Top.task]) :
            /\ n = children[Top.task][m]
            /\ \A j \in 1 .. Len(children[Top.task]) : Reached(Top, j) <=> j < m
  BY <1>1, <1>2, <1>3, NextFacts
<1>5. CASE n = Head0 /\ \A j \in 1 .. Len(children[Top.task]) : Reached(Top, j)
  <2>1. stack' = Pop /\ mount' = IF Len(stack) = 1 THEN "mounted" ELSE mount
    BY <1>2, <1>5, PidFacts
  <2> QED
    BY <1>2, <1>5, <2>1, PopTree
<1>6. ASSUME NEW m \in 1 .. Len(children[Top.task]), n = children[Top.task][m],
             \A j \in 1 .. Len(children[Top.task]) : Reached(Top, j) <=> j < m
      PROVE  MountInv'
  <2>1. Top.task \in Pids
    BY <1>2, <1>3, StackFacts
  <2>2. children[Top.task] \in Seq(Pids \ {Swapper})
    BY <1>3, <2>1 DEF Types
  <2>3. n \in Pids /\ children[Top.task] # <<>>
    BY <1>6, <2>2
  <2>4. n # Head0 /\ n # Astray
    BY <2>3, PidFacts
  <2>5. /\ stack' = Append(Append(Pop, [Top EXCEPT !.cur = n]), Frame(n, Top.dir))
        /\ mount' = mount
    BY <1>2, <2>3, <2>4
  <2> QED
    BY <1>2, <1>6, <2>5, PushTree
<1> QED
  BY <1>4, <1>5, <1>6

LEMMA TreeInit == Init => TreeInv
<1> SUFFICES ASSUME Init PROVE TreeInv
  OBVIOUS
<1>1. ReadInv
  BY ReadInit
<1>2. /\ Swapper \in Pids /\ Reaper \in Pids /\ Kthreadd \in Pids
      /\ Swapper \notin NewPids /\ Reaper \notin NewPids /\ Kthreadd \notin NewPids
      /\ Reaper # Kthreadd /\ Reaper # Swapper /\ Kthreadd # Swapper
  BY PidsAssumption DEF Pids, Swapper, Reaper, Kthreadd
<1>3. /\ life \in [Pids -> Lives]
      /\ life[Swapper] = "running" /\ life[Reaper] = "running" /\ life[Kthreadd] = "running"
      /\ children[Swapper] = <<Reaper, Kthreadd>>
      /\ \A q \in Pids : q # Swapper => children[q] = <<>>
      /\ mount = "none" /\ tree = {}
  BY <1>1, <1>2 DEF Init, ReadInv, Types
<1>4. Booted
  BY <1>3 DEF Booted
<1>5. /\ Len(children[Swapper]) = 2
      /\ children[Swapper][1] = Reaper /\ children[Swapper][2] = Kthreadd
  BY <1>4, Bootlist
<1>6. ASSUME NEW q \in Pids, NEW i \in 1 .. Len(children[q])
      PROVE  q = Swapper /\ (i = 1 \/ i = 2)
  <2>1. q = Swapper
    BY <1>3
  <2>2. i \in 1 .. 2
    BY <1>5, <2>1
  <2> QED
    BY <2>1, <2>2
<1>7. OnePlace
  BY <1>2, <1>5, <1>6 DEF OnePlace
<1>8. ParentsRun
  BY <1>3 DEF ParentsRun
<1>9. ListsAlive
  BY <1>3, <1>5, <1>6 DEF ListsAlive
<1>10. Rooted
  <2> SUFFICES ASSUME NEW U \in SUBSET (Pids \ {Swapper}), NEW u \in U,
                      \A v \in U : \E q \in Pids : Child(v, q)
               PROVE  \E v \in U : \E q \in Pids \ U : Child(v, q)
    BY DEF Rooted
  <2>1. PICK q \in Pids : Child(u, q)
    OBVIOUS
  <2>2. q = Swapper
    BY <1>6, <2>1 DEF Child
  <2> QED
    BY <1>2, <2>1, <2>2
<1>11. MountInv
  <2>1. IsFiniteSet({})
    BY FS_EmptySet
  <2> QED
    BY <1>3, <2>1 DEF MountInv, GoodTree, Files
<1> QED
  BY <1>1, <1>4, <1>7, <1>8, <1>9, <1>10, <1>11 DEF TreeInv, TaskTree

LEMMA TreeNext ==
    ASSUME ExitInWalk = FALSE, TreeInv, [Next]_vars
    PROVE  TreeInv'
<1>0. ReadInv /\ TaskTree /\ MountInv
  BY DEF TreeInv
<1>1. ReadInv'
  BY <1>0, NextKeepsReadInv
<1>2. ASSUME UNCHANGED <<life, children, mount, stack, tree, snap>>
      PROVE  TaskTree' /\ MountInv'
  BY <1>0, <1>2, Idle
<1>3. ASSUME UNCHANGED <<life, children>> PROVE TaskTree'
  BY <1>0, <1>3, SameTree
<1> SUFFICES TaskTree' /\ MountInv'
  BY <1>1 DEF TreeInv
<1>4. ASSUME NEW t \in Pids, NEW c \in NewPids, Fork(t, c) PROVE TaskTree' /\ MountInv'
  BY <1>0, <1>4, ForkTree, ForkMount
<1>5. ASSUME NEW t \in NewPids, Exit(t) PROVE TaskTree' /\ MountInv'
  <2>1. mount # "walking" /\ UNCHANGED <<mount, stack, tree, snap>>
    BY <1>5 DEF Exit, MayExit, mountVars
  <2> QED
    BY <1>0, <1>5, <2>1, ExitTree, NotWalking
<1>6. ASSUME NEW t \in NewPids, Reap(t) PROVE TaskTree' /\ MountInv'
  <2>1. mount # "walking" /\ UNCHANGED <<mount, stack, tree, snap>>
    BY <1>6 DEF Reap, MayExit, mountVars
  <2> QED
    BY <1>0, <1>6, <2>1, ReapTree, NotWalking
<1>7. ASSUME NEW t \in NewPids, Setpgrp(t) PROVE TaskTree' /\ MountInv'
  BY <1>2, <1>7 DEF Setpgrp, mountVars
<1>8. CASE Run
  BY <1>2, <1>8 DEF Run, kernelVars, mountVars
<1>9. CASE Mount
  <2>1. UNCHANGED <<life, children>>
    BY <1>9 DEF Mount, kernelVars
  <2> QED
    BY <1>0, <1>3, <1>9, <2>1, MountBegins
<1>10. CASE Walk
  <2>1. UNCHANGED <<life, children>>
    BY <1>10 DEF Walk, AddFile, AddDir, NextChild, kernelVars
  <2> QED
    BY <1>0, <1>3, <1>10, <2>1, AddFileTree, AddDirTree, NextChildTree DEF Walk
<1>11. CASE Unmount
  <2>1. UNCHANGED <<life, children>>
    BY <1>11 DEF Unmount, kernelVars
  <2> QED
    BY <1>3, <1>11, <2>1, UnmountEnds
<1>12. CASE Read
  <2>1. UNCHANGED <<life, children, mount, stack, tree, snap>>
    BY <1>12 DEF Read, Open, Lookup, ReadGone, ReadOops, ReadInfo, Close, kernelVars, mountVars
  <2> QED
    BY <1>2, <2>1
<1>13. CASE UNCHANGED vars
  BY <1>2, <1>13 DEF vars, kernelVars, mountVars
<1> QED
  BY <1>4, <1>5, <1>6, <1>7, <1>8, <1>9, <1>10, <1>11, <1>12, <1>13 DEF Next, Kernel

\* When no task exits while a mount walks the tree, forks or not, d_add is
\* never given a name its directory already has (s2fs_create_file and
\* s2fs_create_dir, called from recursive_add).
THEOREM NamesStayUnique ==
    ASSUME ExitInWalk = FALSE
    PROVE  Spec => []NamesUnique
<1>1. TreeInv => NamesUnique
  <2> SUFFICES ASSUME TreeInv PROVE NamesUnique
    OBVIOUS
  <2>1. GoodTree /\ ReadInv /\ TaskTree /\ (mount = "walking" => WalkInv)
    BY DEF TreeInv, MountInv
  <2> DEFINE paths == {d.path : d \in tree}
             f == [d \in tree |-> d.path]
  <2>2. Cardinality(paths) = Cardinality(tree)
    <3>1. f \in Bijection(tree, paths)
      <4>1. f \in [tree -> paths]
        OBVIOUS
      <4>2. \A d, e \in tree : f[d] = f[e] => d = e
        BY <2>1 DEF GoodTree
      <4>3. \A p \in paths : \E d \in tree : f[d] = p
        OBVIOUS
      <4> QED
        BY <4>1, <4>2, <4>3, Fun_IsBij
    <3>2. IsFiniteSet(tree)
      BY <2>1 DEF GoodTree
    <3> HIDE DEF f, paths
    <3>3. ExistsBijection(tree, paths)
      BY <3>1, Fun_ExistsBij
    <3> QED
      BY <3>2, <3>3, FS_Bijection
  <2>3. ASSUME mount = "walking", Top.cur = Enter
        PROVE  Append(Top.dir, Top.task) \notin paths
    <3>1. Top.task \notin Named /\ Here[Len(Here)] = Top.task
      BY <2>1, <2>3, HereFacts
    <3>2. \A d \in tree : d.path[Len(d.path)] # Top.task
      BY <3>1 DEF Named, NameOf
    <3> QED
      BY <3>1, <3>2 DEF Here
  <2> QED
    BY <2>2, <2>3 DEF NamesUnique
<1>2. ExitInWalk = FALSE /\ TreeInv /\ [Next]_vars => TreeInv'
  BY TreeNext
<1> QED
  BY <1>1, <1>2, TreeInit, PTL DEF Spec

\* When no task exits while a mount walks the tree, the mounted tree has
\* exactly one file for every task there was when the mount began, below the
\* directories of its ancestors (recursive_add), for every task tree.
THEOREM TreeStaysComplete ==
    ASSUME ExitInWalk = FALSE
    PROVE  Spec => []TreeComplete
<1>1. TreeInv => TreeComplete
  <2> SUFFICES ASSUME TreeInv, mount = "mounted", NEW t \in DOMAIN snap \cup {Swapper}
               PROVE  LET mine == {d \in Files : NameOf(d) = t}
                      IN  /\ Cardinality(mine) = 1
                          /\ \A d \in mine :
                                LET p == d.path
                                    inner == Len(p) > 1 /\ p[Len(p) - 1] = t
                                IN  FollowsTree(IF inner THEN SubSeq(p, 1, Len(p) - 1) ELSE p)
    BY DEF TreeComplete
  <2>1. GoodTree /\ t \in Named
    BY DEF TreeInv, MountInv, Snapped
  <2>2. PICK d \in tree : NameOf(d) = t
    BY <2>1 DEF Named
  <2>3. PICK e \in Files : NameOf(e) = t
    BY <2>1, <2>2 DEF GoodTree
  <2>4. {x \in Files : NameOf(x) = t} = {e}
    BY <2>1, <2>3 DEF GoodTree
  <2>5. Cardinality({e}) = 1
    BY FS_Singleton
  <2>6. FollowsTree(Core(e.path)) /\ e.path[Len(e.path)] = t
    BY <2>1, <2>3 DEF GoodTree, NameOf
  <2> QED
    BY <2>4, <2>5, <2>6 DEF Core
<1>2. ExitInWalk = FALSE /\ TreeInv /\ [Next]_vars => TreeInv'
  BY TreeNext
<1> QED
  BY <1>1, <1>2, TreeInit, PTL DEF Spec
=============================================================================
