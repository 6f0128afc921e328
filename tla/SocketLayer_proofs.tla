------------------------- MODULE SocketLayer_proofs -------------------------
(***************************************************************************)
(* Proofs about SocketLayer, for any finite sets of tasks, descriptors and *)
(* inodes: every reference count is exact, a socket in use stays open, the *)
(* protocol's module and an ioctl hook stay in place while they are used,  *)
(* and close and fd_install never meet on one number.                      *)
(***************************************************************************)
EXTENDS SocketLayer, FiniteSetTheorems, WellFoundedInduction, SequenceTheorems, TLAPS

-----------------------------------------------------------------------------
(* The views of the state that the ledger is kept in. *)

NewOf(t)   == ToSet(th[t].new)
Entries(s) == {d \in Fds : fdt[d] = s}
Holders(s) == {t \in Threads : s \in th[t].held}
Makers(s)  == {t \in Threads : sock[s] = "open" /\ s \in ToSet(th[t].new)}
Owned      == {s \in Socks : Owns(s)}
Creators   == {t \in Threads : At(t, "init")}

Typed ==
  /\ fdt \in [Fds -> Socks \union {Free, Taken, Other}]
  /\ refs \in [Socks -> Int]
  /\ sock \in [Socks -> {"none", "bare", "ops", "open"}]
  /\ DOMAIN th = Threads
  /\ \A t \in Threads :
       /\ DOMAIN th[t] = {"at", "call", "rest", "held", "new", "fds"}
       /\ th[t].held \subseteq Socks
       /\ th[t].new \in Seq(Socks)
       /\ th[t].fds \in Seq(Fds)

(* What a call has made belongs to it alone, and no table names it yet. *)
Private ==
  /\ \A t, u \in Threads : t # u =>
       NewOf(t) \cap NewOf(u) = {} /\ Reserved(t) \cap Reserved(u) = {}
  /\ \A d \in Fds : fdt[d] = Taken <=> \E t \in Threads : d \in Reserved(t)
  /\ \A s \in Socks : sock[s] \in {"bare", "ops"} =>
       \E t \in Threads : s \in NewOf(t)
  /\ \A t \in Threads : \A s \in NewOf(t) :
       /\ sock[s] # "none"
       /\ \A d \in Fds : fdt[d] # s
       /\ \A u \in Threads : s \notin th[u].held

(* What a table or a call in progress names has a file. *)
Named ==
  /\ \A d \in Fds : fdt[d] \in Socks => sock[fdt[d]] = "open"
  /\ \A t \in Threads : \A s \in th[t].held : sock[s] = "open"

Counted ==
  \A s \in Socks :
    refs[s] = Cardinality(Entries(s)) + Cardinality(Holders(s))
              + Cardinality(Makers(s))

Ledger == Typed /\ Private /\ Named /\ Counted

(* What a task has in hand at each place of its call. *)
Creating == {"family", "rcu", "pf", "init", "post"}
Using    == {"steps", "afd", "afile", "await", "kwait", "kuse",
             "hlock", "hcall", "hdone"}
None     == {"user", "fd1", "fd2", "show", "steps", "hlock", "hcall", "hdone"}
One      == {"fd", "file", "install", "install2", "afd", "afile", "await",
             "kwait", "kuse"}
Two      == {"pair", "file1", "file2", "install1"}

SizeShape(t) ==
  LET r == th[t] IN
  /\ r.at \in None => Len(r.new) = 0
  /\ r.at \in One => Len(r.new) = 1
  /\ r.at \in Two => Len(r.new) = 2
  /\ r.at = "create" =>
       Len(r.new) = 0 \/ (Len(r.new) = 1 /\ r.call = "socketpair")
  /\ r.at \in Creating =>
       Len(r.new) = 1 \/ (Len(r.new) = 2 /\ r.call = "socketpair")
  /\ Len(r.new) = 2 => r.new[1] # r.new[2]
  /\ r.at \in None \union One \union Two \union Creating \union {"create"}

FdShape(t) ==
  LET r == th[t] IN
  /\ r.at \in {"user", "fd", "fd1", "kwait", "kuse", "afd", "steps", "hlock",
               "hcall", "hdone"} => Len(r.fds) = 0
  /\ r.at \in {"file", "install", "fd2", "install2", "afile", "await"} =>
       Len(r.fds) = 1
  /\ r.at \in {"show", "pair", "file1", "file2", "install1"} =>
       Len(r.fds) = 2
  /\ r.at \in Creating \union {"create"} =>
       /\ r.call \in {"socket", "socketpair"}
       /\ Len(r.fds) = IF r.call = "socket" THEN 0 ELSE 2
  /\ r.at \in {"fd1", "fd2", "show"} => r.call = "socketpair"
  /\ Len(r.fds) = 2 => r.fds[1] # r.fds[2]

SockShape(t) ==
  LET r == th[t] IN
  /\ r.at \in {"create", "post", "fd", "file", "afd", "afile", "kuse", "pair",
               "file1"} => \A i \in DOMAIN r.new : sock[r.new[i]] = "ops"
  /\ r.at \in {"family", "rcu", "pf", "init"} =>
       \A i \in DOMAIN r.new :
         sock[r.new[i]] = IF i = Len(r.new) THEN "bare" ELSE "ops"
  /\ r.at = "kwait" => sock[r.new[1]] = "bare"
  /\ r.at \in {"install", "install1", "install2", "await"} =>
       \A i \in DOMAIN r.new : sock[r.new[i]] = "open"
  /\ r.at = "file2" => sock[r.new[1]] = "open" /\ sock[r.new[2]] = "ops"

HeldShape(t) == th[t].held # {} <=> th[t].at \in Using

Shape(t) == SizeShape(t) /\ FdShape(t) /\ SockShape(t) /\ HeldShape(t)

(* The protocol's module. *)
ModuleInv ==
  /\ mod \in [st : {"out", "live", "going"}, refs : Int, reg : BOOLEAN]
  /\ mod.refs = Cardinality(Owned) + Cardinality(Creators)
  /\ mod.st # "live" => Owned = {} /\ Creators = {}
  /\ mod.reg => mod.st # "out"
  /\ \A t \in Threads : At(t, "pf") => mod.st # "out"

(* The hook is set exactly while its module is live, and a task that is    *)
(* past the second test has the mutex.                                     *)
HookInv ==
  /\ hook \in [st : {"out", "live", "going"}, set : BOOLEAN,
               mutex : SUBSET Threads]
  /\ hook.set <=> hook.st = "live"
  /\ \A t \in Threads :
       /\ At(t, "hcall") => hook.set
       /\ th[t].at \in {"hcall", "hdone"} => hook.mutex = {t}

Shapes == \A t \in Threads : Shape(t)

Inv == Ledger /\ Shapes /\ ModuleInv /\ HookInv
-----------------------------------------------------------------------------
(* Short sequences as sets. *)

LEMMA ToSetShort ==
  ASSUME NEW S, NEW q \in Seq(S)
  PROVE  /\ Len(q) = 0 => ToSet(q) = {}
         /\ Len(q) = 1 => ToSet(q) = {q[1]} /\ DOMAIN q = {1} /\ q[1] \in S
         /\ Len(q) = 2 => /\ ToSet(q) = {q[1], q[2]} /\ DOMAIN q = {1, 2}
                          /\ q[1] \in S /\ q[2] \in S
         /\ ToSet(q) \subseteq S
<1>1. Len(q) \in Nat /\ DOMAIN q = 1..Len(q) /\ \A i \in 1..Len(q) : q[i] \in S
  OBVIOUS
<1>2. Len(q) = 0 => DOMAIN q = {}
  BY <1>1
<1>3. Len(q) = 1 => DOMAIN q = {1}
  BY <1>1
<1>4. Len(q) = 2 => DOMAIN q = {1, 2}
  BY <1>1
<1> QED
  BY <1>1, <1>2, <1>3, <1>4 DEF ToSet

LEMMA ToSetAppend ==
  ASSUME NEW S, NEW q \in Seq(S), NEW x \in S
  PROVE  /\ Append(q, x) \in Seq(S)
         /\ Len(Append(q, x)) = Len(q) + 1
         /\ ToSet(Append(q, x)) = ToSet(q) \union {x}
         /\ \A i \in DOMAIN q : Append(q, x)[i] = q[i]
         /\ Append(q, x)[Len(q) + 1] = x
         /\ DOMAIN Append(q, x) = DOMAIN q \union {Len(q) + 1}
<1>1. Len(q) \in Nat /\ DOMAIN q = 1..Len(q)
  OBVIOUS
<1>2. /\ Append(q, x) \in Seq(S)
      /\ Len(Append(q, x)) = Len(q) + 1
      /\ \A i \in 1..Len(q) : Append(q, x)[i] = q[i]
      /\ Append(q, x)[Len(q) + 1] = x
  OBVIOUS
<1>3. DOMAIN Append(q, x) = 1..(Len(q) + 1)
  BY <1>1, <1>2
<1>4. 1..(Len(q) + 1) = 1..Len(q) \union {Len(q) + 1}
  BY <1>1
<1>5. ToSet(Append(q, x)) = ToSet(q) \union {x}
  BY <1>1, <1>2, <1>3, <1>4 DEF ToSet
<1> QED
  BY <1>1, <1>2, <1>3, <1>4, <1>5

LEMMA AppendToNone ==
  ASSUME NEW S, NEW q \in Seq(S), Len(q) = 0, NEW x
  PROVE  Append(q, x) = <<x>>
<1>1. q = <<>>
  BY EmptySeq
<1> QED
  BY <1>1

LEMMA OneSeq ==
  ASSUME NEW S, NEW x \in S
  PROVE  /\ <<x>> \in Seq(S) /\ Len(<<x>>) = 1 /\ DOMAIN <<x>> = {1}
         /\ <<x>>[1] = x /\ ToSet(<<x>>) = {x}
<1>1. /\ <<x>> \in Seq(S) /\ Len(<<x>>) = 1 /\ <<x>>[1] = x
  OBVIOUS
<1> QED
  BY <1>1, ToSetShort

LEMMA NoneSeq ==
  ASSUME NEW S
  PROVE  /\ <<>> \in Seq(S) /\ Len(<<>>) = 0 /\ ToSet(<<>>) = {}
<1>1. <<>> \in Seq(S) /\ Len(<<>>) = 0
  OBVIOUS
<1> QED
  BY <1>1, ToSetShort

(* get_unused_fd_flags finds a free number when there is one. *)
LEMMA LowestFree ==
  ASSUME FreeFds # {}
  PROVE  (CHOOSE x \in FreeFds : \A y \in FreeFds : x <= y) \in FreeFds
<1>1. FreeFds \subseteq Nat
  BY TableAssumption DEF FreeFds
<1>2. \E x \in FreeFds : \A y \in FreeFds : ~(<<y, x>> \in OpToRel(<, Nat))
  BY <1>1, NatLessThanWellFounded, WFMin
<1>3. PICK x \in FreeFds : \A y \in FreeFds : ~(<<y, x>> \in OpToRel(<, Nat))
  BY <1>2
<1>4. ASSUME NEW y \in FreeFds PROVE x <= y
  <2>1. x \in Nat /\ y \in Nat
    BY <1>1
  <2>2. ~(y < x)
    BY <1>3, <2>1 DEF OpToRel
  <2> QED
    BY <2>1, <2>2
<1> QED
  BY <1>4

(* Facts about the numbers that stand for entries that are no socket. *)
LEMMA EntryKinds ==
  /\ Free \notin Socks /\ Taken \notin Socks /\ Other \notin Socks
  /\ Free # Taken /\ Free # Other /\ Taken # Other
  BY SocksAssumption DEF Free, Taken, Other

(* The sets of the ledger are finite. *)
LEMMA FiniteViews ==
  ASSUME NEW s
  PROVE  /\ IsFiniteSet(Entries(s)) /\ Cardinality(Entries(s)) \in Nat
         /\ IsFiniteSet(Holders(s)) /\ Cardinality(Holders(s)) \in Nat
         /\ IsFiniteSet(Makers(s)) /\ Cardinality(Makers(s)) \in Nat
         /\ IsFiniteSet(Owned) /\ Cardinality(Owned) \in Nat
         /\ IsFiniteSet(Creators) /\ Cardinality(Creators) \in Nat
<1>1. /\ Entries(s) \in SUBSET Fds /\ Holders(s) \in SUBSET Threads
      /\ Makers(s) \in SUBSET Threads /\ Owned \in SUBSET Socks
      /\ Creators \in SUBSET Threads
  BY DEF Entries, Holders, Makers, Owned, Creators
<1>2. /\ IsFiniteSet(Entries(s)) /\ IsFiniteSet(Holders(s))
      /\ IsFiniteSet(Makers(s)) /\ IsFiniteSet(Owned) /\ IsFiniteSet(Creators)
  BY <1>1, FiniteAssumption, FS_Subset
<1> QED
  BY <1>2, FS_CardinalityType

-----------------------------------------------------------------------------
(* The kinds of step, by what they do to the ledger. *)

(* Only task t moves. *)
Moves(t) ==
  /\ DOMAIN th' = Threads
  /\ DOMAIN th'[t] = {"at", "call", "rest", "held", "new", "fds"}
  /\ \A u \in Threads : u # t => th'[u] = th[u]

(* What the other tasks have made stays as it is. *)
Kept(t) == \A u \in Threads : u # t => \A s \in NewOf(u) : sock'[s] = sock[s]

(* The changes that DescriptorsKept allows. *)
FdRule ==
  \A d \in Fds : fdt'[d] # fdt[d] =>
    \/ fdt[d] \in Socks /\ fdt'[d] = Free
    \/ fdt[d] = Free /\ fdt'[d] = Taken
    \/ fdt[d] = Taken /\ fdt'[d] \in Socks \union {Free}

(* A step that leaves what the task has in hand. *)
LEMMA QuietStep ==
  ASSUME Ledger, NEW t \in Threads, Moves(t),
         UNCHANGED <<fdt, refs, sock>>,
         th'[t].held = th[t].held, th'[t].new = th[t].new,
         th'[t].fds = th[t].fds
  PROVE  Ledger' /\ Kept(t) /\ FdRule /\ Owned' = Owned
<1>1. \A u \in Threads : /\ th'[u].held = th[u].held /\ th'[u].new = th[u].new
                         /\ th'[u].fds = th[u].fds
                         /\ DOMAIN th'[u] = DOMAIN th[u]
  BY DEF Moves, Ledger, Typed
<1>2. Typed'
  BY <1>1 DEF Ledger, Typed, Moves
<1>3. \A u \in Threads : NewOf(u)' = NewOf(u) /\ Reserved(u)' = Reserved(u)
  BY <1>1 DEF NewOf, Reserved
<1>4. Private'
  BY <1>1, <1>3 DEF Ledger, Private
<1>5. Named'
  BY <1>1 DEF Ledger, Named
<1>6. \A s \in Socks : /\ Entries(s)' = Entries(s) /\ Holders(s)' = Holders(s)
                       /\ Makers(s)' = Makers(s)
  BY <1>1 DEF Entries, Holders, Makers
<1>7. Counted'
  BY <1>6 DEF Ledger, Counted
<1> QED
  BY <1>2, <1>4, <1>5, <1>7 DEF Ledger, Kept, FdRule, Owned, Owns

(* get_unused_fd_flags. *)
LEMMA ReserveStep ==
  ASSUME Ledger, NEW t \in Threads, Moves(t), NEW d \in Fds, fdt[d] = Free,
         fdt' = [fdt EXCEPT ![d] = Taken], UNCHANGED <<refs, sock>>,
         th'[t].held = th[t].held, th'[t].new = th[t].new,
         th'[t].fds = Append(th[t].fds, d)
  PROVE  /\ Ledger' /\ Kept(t) /\ FdRule /\ Owned' = Owned
         /\ d \notin Reserved(t)
<1>0. th[t].fds \in Seq(Fds)
  BY DEF Ledger, Typed
<1>1. \A u \in Threads : /\ th'[u].held = th[u].held /\ th'[u].new = th[u].new
                         /\ DOMAIN th'[u] = DOMAIN th[u]
                         /\ u # t => th'[u].fds = th[u].fds
  BY DEF Moves, Ledger, Typed
<1>2. Append(th[t].fds, d) \in Seq(Fds)
  BY <1>0
<1>3. fdt' \in [Fds -> Socks \union {Free, Taken, Other}]
  BY DEF Ledger, Typed
<1>4. Typed'
  BY <1>1, <1>2, <1>3 DEF Ledger, Typed, Moves
<1>5. /\ \A u \in Threads : NewOf(u)' = NewOf(u)
      /\ \A u \in Threads : u # t => Reserved(u)' = Reserved(u)
      /\ Reserved(t)' = Reserved(t) \union {d}
  BY <1>0, <1>1, ToSetAppend DEF NewOf, Reserved
<1>6. \A u \in Threads : d \notin Reserved(u)
  BY EntryKinds DEF Ledger, Private
<1>7. \A e \in Fds : fdt'[e] = IF e = d THEN Taken ELSE fdt[e]
  BY DEF Ledger, Typed
<1>8. Private'
  <2>1. \A u, v \in Threads : u # v =>
          /\ (NewOf(u) \cap NewOf(v))' = {}
          /\ (Reserved(u) \cap Reserved(v))' = {}
    BY <1>5, <1>6 DEF Ledger, Private
  <2>2. \A e \in Fds :
          fdt'[e] = Taken <=> \E u \in Threads : e \in Reserved(u)'
    BY <1>5, <1>6, <1>7 DEF Ledger, Private
  <2>3. \A u \in Threads : \A s \in NewOf(u) :
          s \in Socks /\ \A e \in Fds : fdt'[e] # s
    BY <1>7, EntryKinds, ToSetShort DEF Ledger, Private, Typed, NewOf
  <2> QED
    BY <1>1, <1>5, <2>1, <2>2, <2>3 DEF Ledger, Private
<1>9. Named'
  BY <1>1, <1>7, EntryKinds DEF Ledger, Named
<1>10. \A s \in Socks : /\ Entries(s)' = Entries(s) /\ Holders(s)' = Holders(s)
                        /\ Makers(s)' = Makers(s)
  BY <1>1, <1>7, EntryKinds DEF Entries, Holders, Makers
<1>11. Counted'
  BY <1>10 DEF Ledger, Counted
<1>12. FdRule
  BY <1>7 DEF FdRule
<1> QED
  BY <1>4, <1>8, <1>9, <1>11, <1>12, <1>6 DEF Ledger, Kept, Owned, Owns

(* sock_alloc. *)
LEMMA AllocStep ==
  ASSUME Ledger, NEW t \in Threads, Moves(t),
         NEW s \in Socks, sock[s] = "none", NEW st \in {"bare", "ops"},
         sock' = [sock EXCEPT ![s] = st], UNCHANGED <<fdt, refs>>,
         th'[t].held = th[t].held, th'[t].fds = th[t].fds,
         th'[t].new = Append(th[t].new, s)
  PROVE  /\ Ledger' /\ Kept(t) /\ FdRule
         /\ Owned' = IF st = "ops" THEN Owned \union {s} ELSE Owned
         /\ s \notin Owned /\ s \notin NewOf(t)
         /\ \A x \in Socks : x # s => sock'[x] = sock[x]
<1>0. th[t].new \in Seq(Socks)
  BY DEF Ledger, Typed
<1>1. \A u \in Threads : /\ th'[u].held = th[u].held /\ th'[u].fds = th[u].fds
                         /\ DOMAIN th'[u] = DOMAIN th[u]
                         /\ u # t => th'[u].new = th[u].new
  BY DEF Moves, Ledger, Typed
<1>2. Append(th[t].new, s) \in Seq(Socks)
  BY <1>0
<1>3. sock' \in [Socks -> {"none", "bare", "ops", "open"}]
  BY DEF Ledger, Typed
<1>4. Typed'
  BY <1>1, <1>2, <1>3 DEF Ledger, Typed, Moves
<1>5. /\ \A u \in Threads : Reserved(u)' = Reserved(u)
      /\ \A u \in Threads : u # t => NewOf(u)' = NewOf(u)
      /\ NewOf(t)' = NewOf(t) \union {s}
  BY <1>0, <1>1, ToSetAppend DEF NewOf, Reserved
<1>6. /\ \A u \in Threads : s \notin NewOf(u)
      /\ \A u \in Threads : s \notin th[u].held
      /\ \A d \in Fds : fdt[d] # s
  BY DEF Ledger, Private, Named
<1>7. \A x \in Socks : sock'[x] = IF x = s THEN st ELSE sock[x]
  BY DEF Ledger, Typed
<1>8. Private'
  <2>1. \A u, v \in Threads : u # v =>
          /\ (NewOf(u) \cap NewOf(v))' = {}
          /\ (Reserved(u) \cap Reserved(v))' = {}
    BY <1>5, <1>6 DEF Ledger, Private
  <2>2. \A x \in Socks : sock'[x] \in {"bare", "ops"} =>
          \E u \in Threads : x \in NewOf(u)'
    BY <1>5, <1>7 DEF Ledger, Private
  <2>3. \A u \in Threads : NewOf(u) \subseteq Socks
    BY ToSetShort DEF Ledger, Typed, NewOf
  <2>4. \A u \in Threads : \A x \in NewOf(u)' :
          /\ sock'[x] # "none"
          /\ \A d \in Fds : fdt'[d] # x
          /\ \A v \in Threads : x \notin th'[v].held
    BY <1>1, <1>5, <1>6, <1>7, <2>3 DEF Ledger, Private
  <2> QED
    BY <1>1, <1>5, <2>1, <2>2, <2>4 DEF Ledger, Private
<1>9. Named'
  BY <1>1, <1>6, <1>7 DEF Ledger, Named, Typed
<1>10. \A x \in Socks : /\ Entries(x)' = Entries(x) /\ Holders(x)' = Holders(x)
                        /\ Makers(x)' = Makers(x)
  <2>1. \A x \in Socks : Entries(x)' = Entries(x) /\ Holders(x)' = Holders(x)
    BY <1>1 DEF Entries, Holders
  <2>2. \A x \in Socks : x # s => Makers(x)' = Makers(x)
    BY <1>5, <1>7 DEF Makers, NewOf
  <2>3. Makers(s)' = Makers(s)
    BY <1>7 DEF Makers
  <2> QED
    BY <2>1, <2>2, <2>3
<1>11. Counted'
  BY <1>10 DEF Ledger, Counted
<1>12. Owned' = IF st = "ops" THEN Owned \union {s} ELSE Owned
  BY <1>7 DEF Owned, Owns
<1>13. Kept(t)
  <2>1. \A u \in Threads : NewOf(u) \subseteq Socks
    BY ToSetShort DEF Ledger, Typed, NewOf
  <2> QED
    BY <1>6, <1>7, <2>1 DEF Kept
<1> QED
  BY <1>4, <1>6, <1>7, <1>8, <1>9, <1>11, <1>12, <1>13
     DEF Ledger, FdRule, Owned, Owns

(* What a task has made or holds is a socket. *)
LEMMA InHand ==
  ASSUME Ledger
  PROVE  \A u \in Threads : /\ NewOf(u) \subseteq Socks
                            /\ Reserved(u) \subseteq Fds
                            /\ th[u].held \subseteq Socks
  BY ToSetShort DEF Ledger, Typed, NewOf, Reserved

(* The protocol's ops are set on an inode the task has made. *)
LEMMA SetOpsStep ==
  ASSUME Ledger, NEW t \in Threads, Moves(t),
         NEW s \in NewOf(t), sock[s] = "bare",
         sock' = [sock EXCEPT ![s] = "ops"], UNCHANGED <<fdt, refs>>,
         th'[t].held = th[t].held, th'[t].fds = th[t].fds,
         th'[t].new = th[t].new
  PROVE  /\ Ledger' /\ Kept(t) /\ FdRule /\ s \in Socks
         /\ Owned' = Owned \union {s} /\ s \notin Owned
         /\ \A x \in Socks : x # s => sock'[x] = sock[x]
<1>0. s \in Socks
  BY InHand
<1>1. \A u \in Threads : /\ th'[u].held = th[u].held /\ th'[u].fds = th[u].fds
                         /\ DOMAIN th'[u] = DOMAIN th[u]
                         /\ th'[u].new = th[u].new
  BY DEF Moves, Ledger, Typed
<1>2. sock' \in [Socks -> {"none", "bare", "ops", "open"}]
  BY DEF Ledger, Typed
<1>3. Typed'
  BY <1>1, <1>2 DEF Ledger, Typed, Moves
<1>4. \A u \in Threads : Reserved(u)' = Reserved(u) /\ NewOf(u)' = NewOf(u)
  BY <1>1 DEF NewOf, Reserved
<1>5. \A x \in Socks : sock'[x] = IF x = s THEN "ops" ELSE sock[x]
  BY DEF Ledger, Typed
<1>6. Private'
  <2>1. \A x \in Socks : sock'[x] \in {"bare", "ops"} =>
          \E u \in Threads : x \in NewOf(u)'
    BY <1>4, <1>5 DEF Ledger, Private
  <2>2. \A u \in Threads : \A x \in NewOf(u) : sock'[x] # "none"
    BY <1>5, InHand DEF Ledger, Private
  <2> QED
    BY <1>1, <1>4, <2>1, <2>2 DEF Ledger, Private
<1>7. Named'
  <2>1. \A d \in Fds : fdt[d] # s
    BY DEF Ledger, Private
  <2>2. \A u \in Threads : s \notin th[u].held
    BY DEF Ledger, Private
  <2> QED
    BY <1>1, <1>5, <2>1, <2>2, InHand DEF Ledger, Named
<1>8. \A x \in Socks : /\ Entries(x)' = Entries(x) /\ Holders(x)' = Holders(x)
                       /\ Makers(x)' = Makers(x)
  BY <1>1, <1>5 DEF Entries, Holders, Makers
<1>9. Counted'
  BY <1>8 DEF Ledger, Counted
<1>10. Owned' = Owned \union {s} /\ s \notin Owned
  BY <1>0, <1>5 DEF Owned, Owns
<1>11. Kept(t)
  BY <1>5, InHand DEF Kept, Ledger, Private
<1> QED
  BY <1>0, <1>3, <1>5, <1>6, <1>7, <1>9, <1>10, <1>11 DEF Ledger, FdRule

(* A socket a task has made and not opened has no reference at all. *)
LEMMA NoReference ==
  ASSUME Ledger, NEW t \in Threads, NEW s \in NewOf(t), s \in Socks
  PROVE  /\ Entries(s) = {} /\ Holders(s) = {}
         /\ Makers(s) = IF sock[s] = "open" THEN {t} ELSE {}
<1>1. Entries(s) = {} /\ Holders(s) = {}
  BY DEF Ledger, Private, Entries, Holders
<1>2. \A u \in Threads : s \in NewOf(u) => u = t
  BY DEF Ledger, Private
<1>3. Makers(s) = IF sock[s] = "open" THEN {t} ELSE {}
  BY <1>2 DEF Makers, NewOf
<1> QED
  BY <1>1, <1>3

(* sock_alloc_file. *)
LEMMA OpenStep ==
  ASSUME Ledger, NEW t \in Threads, Moves(t),
         NEW s \in NewOf(t), sock[s] = "ops",
         sock' = [sock EXCEPT ![s] = "open"], refs' = [refs EXCEPT ![s] = 1],
         UNCHANGED fdt,
         th'[t].held = th[t].held, th'[t].fds = th[t].fds,
         th'[t].new = th[t].new
  PROVE  /\ Ledger' /\ Kept(t) /\ FdRule /\ s \in Socks
         /\ Owned' = Owned
         /\ \A x \in Socks : x # s => sock'[x] = sock[x]
<1>0. s \in Socks
  BY InHand
<1>1. \A u \in Threads : /\ th'[u].held = th[u].held /\ th'[u].fds = th[u].fds
                         /\ DOMAIN th'[u] = DOMAIN th[u]
                         /\ th'[u].new = th[u].new
  BY DEF Moves, Ledger, Typed
<1>2. /\ sock' \in [Socks -> {"none", "bare", "ops", "open"}]
      /\ refs' \in [Socks -> Int]
  BY <1>0 DEF Ledger, Typed
<1>3. Typed'
  BY <1>1, <1>2 DEF Ledger, Typed, Moves
<1>4. \A u \in Threads : Reserved(u)' = Reserved(u) /\ NewOf(u)' = NewOf(u)
  BY <1>1 DEF NewOf, Reserved
<1>5. \A x \in Socks : /\ sock'[x] = IF x = s THEN "open" ELSE sock[x]
                       /\ refs'[x] = IF x = s THEN 1 ELSE refs[x]
  BY DEF Ledger, Typed
<1>6. Private'
  <2>1. \A x \in Socks : sock'[x] \in {"bare", "ops"} =>
          \E u \in Threads : x \in NewOf(u)'
    BY <1>4, <1>5 DEF Ledger, Private
  <2>2. \A u \in Threads : \A x \in NewOf(u) : sock'[x] # "none"
    BY <1>5, InHand DEF Ledger, Private
  <2> QED
    BY <1>1, <1>4, <2>1, <2>2 DEF Ledger, Private
<1>7. Named'
  BY <1>1, <1>5, InHand DEF Ledger, Named
<1>8. \A x \in Socks : /\ Entries(x)' = Entries(x) /\ Holders(x)' = Holders(x)
                       /\ x # s => Makers(x)' = Makers(x)
  BY <1>1, <1>5 DEF Entries, Holders, Makers
<1>9. Entries(s) = {} /\ Holders(s) = {} /\ Makers(s)' = {t}
  <2>1. \A u \in Threads : s \in NewOf(u) => u = t
    BY DEF Ledger, Private
  <2> QED
    BY <1>0, <1>4, <1>5, <2>1, NoReference DEF Makers, NewOf
<1>10. Counted'
  <2>1. SUFFICES ASSUME NEW x \in Socks
                 PROVE  (refs[x] = Cardinality(Entries(x))
                          + Cardinality(Holders(x)) + Cardinality(Makers(x)))'
    BY DEF Counted
  <2>2. /\ Cardinality(Entries(s)') = 0 /\ Cardinality(Holders(s)') = 0
        /\ Cardinality(Makers(s)') = 1
    <3>1. /\ Entries(s)' = {} /\ Holders(s)' = {} /\ Makers(s)' = {t}
      BY <1>0, <1>8, <1>9
    <3> QED
      BY <3>1, FS_EmptySet, FS_Singleton
  <2>3. CASE x = s
    BY <1>5, <2>2, <2>3
  <2>4. CASE x # s
    BY <1>5, <1>8, <2>4 DEF Ledger, Counted
  <2> QED
    BY <2>3, <2>4
<1>11. Owned' = Owned
  BY <1>0, <1>5 DEF Owned, Owns
<1>12. Kept(t)
  BY <1>5, InHand DEF Kept, Ledger, Private
<1> QED
  BY <1>0, <1>3, <1>5, <1>6, <1>7, <1>10, <1>11, <1>12 DEF Ledger, FdRule

(* fd_install. *)
LEMMA InstallStep ==
  ASSUME Ledger, NEW t \in Threads, Moves(t),
         NEW s \in NewOf(t), sock[s] = "open", NEW d \in Reserved(t),
         fdt' = [fdt EXCEPT ![d] = s], UNCHANGED <<refs, sock>>,
         th'[t].held = th[t].held,
         th'[t].new \in Seq(Socks), NewOf(t)' = NewOf(t) \ {s},
         th'[t].fds \in Seq(Fds), Reserved(t)' = Reserved(t) \ {d}
  PROVE  Ledger' /\ Kept(t) /\ FdRule /\ Owned' = Owned
<1>0. s \in Socks /\ d \in Fds /\ fdt[d] = Taken
  BY InHand DEF Ledger, Private
<1>1. \A u \in Threads : /\ th'[u].held = th[u].held
                         /\ DOMAIN th'[u] = DOMAIN th[u]
                         /\ u # t => /\ th'[u].new = th[u].new
                                     /\ th'[u].fds = th[u].fds
  BY DEF Moves, Ledger, Typed
<1>2. fdt' \in [Fds -> Socks \union {Free, Taken, Other}]
  BY <1>0 DEF Ledger, Typed
<1>3. Typed'
  BY <1>1, <1>2 DEF Ledger, Typed, Moves
<1>4. \A u \in Threads : u # t =>
        Reserved(u)' = Reserved(u) /\ NewOf(u)' = NewOf(u)
  BY <1>1 DEF NewOf, Reserved
<1>5. \A e \in Fds : fdt'[e] = IF e = d THEN s ELSE fdt[e]
  BY DEF Ledger, Typed
<1>6. /\ \A u \in Threads : u # t => s \notin NewOf(u) /\ d \notin Reserved(u)
      /\ s # Taken
  BY <1>0, EntryKinds DEF Ledger, Private
<1>7. Private'
  <2>1. \A u, v \in Threads : u # v =>
          /\ (NewOf(u) \cap NewOf(v))' = {}
          /\ (Reserved(u) \cap Reserved(v))' = {}
    BY <1>4 DEF Ledger, Private
  <2>2. \A e \in Fds :
          fdt'[e] = Taken <=> \E u \in Threads : e \in Reserved(u)'
    <3>1. \A u \in Threads : d \notin Reserved(u)'
      BY <1>4, <1>6
    <3>2. \A u \in Threads, e \in Fds :
            e # d => (e \in Reserved(u)' <=> e \in Reserved(u))
      BY <1>4
    <3> QED
      BY <1>5, <1>6, <3>1, <3>2 DEF Ledger, Private
  <2>3. \A x \in Socks : sock'[x] \in {"bare", "ops"} =>
          \E u \in Threads : x \in NewOf(u)'
    BY <1>4 DEF Ledger, Private
  <2>4. \A u \in Threads : \A x \in NewOf(u)' : x # s /\ x \in NewOf(u)
    BY <1>4, <1>6
  <2>5. \A u \in Threads : \A x \in NewOf(u)' :
          /\ sock'[x] # "none"
          /\ \A e \in Fds : fdt'[e] # x
          /\ \A v \in Threads : x \notin th'[v].held
    BY <1>1, <1>5, <2>4 DEF Ledger, Private
  <2> QED
    BY <2>1, <2>2, <2>3, <2>5 DEF Private
<1>8. Named'
  BY <1>0, <1>1, <1>5 DEF Ledger, Named
<1>9. \A x \in Socks : /\ Holders(x)' = Holders(x)
                       /\ x # s => /\ Entries(x)' = Entries(x)
                                   /\ Makers(x)' = Makers(x)
  <2>1. \A x \in Socks : x # s => Entries(x)' = Entries(x)
    BY <1>0, <1>5, EntryKinds DEF Entries
  <2>2. \A x \in Socks : x # s =>
          \A u \in Threads : x \in NewOf(u)' <=> x \in NewOf(u)
    BY <1>4
  <2>3. \A x \in Socks : x # s => Makers(x)' = Makers(x)
    BY <2>2 DEF Makers, NewOf
  <2> QED
    BY <1>1, <2>1, <2>3 DEF Holders
<1>10. Entries(s)' = {d} /\ Makers(s)' = {}
  <2>1. \A e \in Fds : fdt[e] # s
    BY DEF Ledger, Private
  <2>2. \A u \in Threads : s \notin NewOf(u)'
    BY <1>4, <1>6
  <2> QED
    BY <1>0, <1>5, <2>1, <2>2 DEF Entries, Makers, NewOf
<1>11. Counted'
  <2>1. SUFFICES ASSUME NEW x \in Socks
                 PROVE  (refs[x] = Cardinality(Entries(x))
                          + Cardinality(Holders(x)) + Cardinality(Makers(x)))'
    BY DEF Counted
  <2>2. /\ Cardinality(Entries(s)) = 0 /\ Cardinality(Makers(s)) = 1
        /\ Cardinality(Entries(s)') = 1 /\ Cardinality(Makers(s)') = 0
        /\ Cardinality(Holders(s)') = Cardinality(Holders(s))
        /\ Cardinality(Holders(s)) \in Nat
    <3>1. Entries(s) = {} /\ Makers(s) = {t}
      BY <1>0, NoReference
    <3> QED
      BY <1>0, <1>9, <1>10, <3>1, FiniteViews, FS_EmptySet, FS_Singleton
  <2>3. CASE x = s
    <3>1. refs[s] = Cardinality(Entries(s)) + Cardinality(Holders(s))
                    + Cardinality(Makers(s))
      BY <1>0 DEF Ledger, Counted
    <3> QED
      BY <2>2, <2>3, <3>1
  <2>4. CASE x # s
    BY <1>9, <2>4 DEF Ledger, Counted
  <2> QED
    BY <2>3, <2>4
<1>12. FdRule
  BY <1>0, <1>5 DEF FdRule
<1> QED
  BY <1>3, <1>7, <1>8, <1>11, <1>12 DEF Ledger, Kept, Owned, Owns

(* sockfd_lookup: fget. *)
LEMMA LookupStep ==
  ASSUME Ledger, NEW t \in Threads, Moves(t),
         NEW d \in Fds, fdt[d] \in Socks, th[t].held = {},
         refs' = [refs EXCEPT ![fdt[d]] = @ + 1], UNCHANGED <<fdt, sock>>,
         th'[t].held = {fdt[d]}, th'[t].new = th[t].new,
         th'[t].fds = th[t].fds
  PROVE  Ledger' /\ Kept(t) /\ FdRule /\ Owned' = Owned
<1> PICK s \in Socks : s = fdt[d]
  OBVIOUS
<1>0. s \in Socks /\ sock[s] = "open"
  BY DEF Ledger, Named
<1>1. \A u \in Threads : /\ th'[u].new = th[u].new /\ th'[u].fds = th[u].fds
                         /\ DOMAIN th'[u] = DOMAIN th[u]
                         /\ u # t => th'[u].held = th[u].held
  BY DEF Moves, Ledger, Typed
<1>2. refs' \in [Socks -> Int]
  BY DEF Ledger, Typed
<1>3. Typed'
  BY ZenonT(40), <1>0, <1>1, <1>2 DEF Ledger, Typed, Moves
<1>4. \A u \in Threads : Reserved(u)' = Reserved(u) /\ NewOf(u)' = NewOf(u)
  BY <1>1 DEF NewOf, Reserved
<1>5. Private'
  <2>1. \A u \in Threads : s \notin NewOf(u)
    BY DEF Ledger, Private
  <2>2. \A u \in Threads : \A x \in NewOf(u) :
          \A v \in Threads : x \notin th'[v].held
    BY <1>1, <2>1 DEF Ledger, Private
  <2> QED
    BY <1>4, <2>2 DEF Ledger, Private
<1>6. Named'
  BY <1>0, <1>1 DEF Ledger, Named
<1>7. \A x \in Socks : /\ Entries(x)' = Entries(x) /\ Makers(x)' = Makers(x)
                       /\ x # s => Holders(x)' = Holders(x)
  BY <1>1 DEF Entries, Makers, Holders
<1>8. Holders(s)' = Holders(s) \union {t} /\ t \notin Holders(s)
  BY <1>1 DEF Holders
<1>9. Cardinality(Holders(s)') = Cardinality(Holders(s)) + 1
  BY <1>8, FiniteViews, FS_AddElement
<1>10. \A x \in Socks : refs'[x] = IF x = s THEN refs[x] + 1 ELSE refs[x]
  BY DEF Ledger, Typed
<1>11. Counted'
  <2>1. SUFFICES ASSUME NEW x \in Socks
                 PROVE  (refs[x] = Cardinality(Entries(x))
                          + Cardinality(Holders(x)) + Cardinality(Makers(x)))'
    BY DEF Counted
  <2>2. refs[x] = Cardinality(Entries(x)) + Cardinality(Holders(x))
                  + Cardinality(Makers(x))
    BY DEF Ledger, Counted
  <2>3. CASE x = s
    BY <1>7, <1>9, <1>10, <2>2, <2>3, FiniteViews
  <2>4. CASE x # s
    BY <1>7, <1>10, <2>2, <2>4
  <2> QED
    BY <2>3, <2>4
<1> QED
  BY <1>3, <1>5, <1>6, <1>11 DEF Ledger, Kept, FdRule, Owned, Owns

(* close(): the descriptor's reference becomes the task's. *)
LEMMA CloseStep ==
  ASSUME Ledger, NEW t \in Threads, Moves(t),
         NEW d \in Fds, fdt[d] \in Socks, th[t].held = {},
         fdt' = [fdt EXCEPT ![d] = Free], UNCHANGED <<refs, sock>>,
         th'[t].held = {fdt[d]}, th'[t].new = th[t].new,
         th'[t].fds = th[t].fds
  PROVE  Ledger' /\ Kept(t) /\ FdRule /\ Owned' = Owned
<1> PICK s \in Socks : s = fdt[d]
  OBVIOUS
<1>0. s \in Socks /\ sock[s] = "open" /\ s # Taken
  BY EntryKinds DEF Ledger, Named
<1>1. \A u \in Threads : /\ th'[u].new = th[u].new /\ th'[u].fds = th[u].fds
                         /\ DOMAIN th'[u] = DOMAIN th[u]
                         /\ u # t => th'[u].held = th[u].held
  BY DEF Moves, Ledger, Typed
<1>2. fdt' \in [Fds -> Socks \union {Free, Taken, Other}]
  BY DEF Ledger, Typed
<1>3. Typed'
  BY ZenonT(40), <1>0, <1>1, <1>2 DEF Ledger, Typed, Moves
<1>4. \A u \in Threads : Reserved(u)' = Reserved(u) /\ NewOf(u)' = NewOf(u)
  BY <1>1 DEF NewOf, Reserved
<1>5. \A e \in Fds : fdt'[e] = IF e = d THEN Free ELSE fdt[e]
  BY DEF Ledger, Typed
<1>6. Private'
  <2>1. \A u \in Threads : s \notin NewOf(u)
    BY DEF Ledger, Private
  <2>2. \A u \in Threads : \A x \in NewOf(u) :
          /\ \A v \in Threads : x \notin th'[v].held
          /\ \A e \in Fds : fdt'[e] # x
    BY <1>1, <1>5, <2>1, InHand, EntryKinds DEF Ledger, Private
  <2>3. \A e \in Fds :
          fdt'[e] = Taken <=> \E u \in Threads : e \in Reserved(u)
    BY <1>0, <1>5, EntryKinds DEF Ledger, Private
  <2> QED
    BY <1>4, <2>2, <2>3 DEF Ledger, Private
<1>7. Named'
  BY <1>0, <1>1, <1>5, EntryKinds DEF Ledger, Named
<1>8. \A x \in Socks : /\ Makers(x)' = Makers(x)
                       /\ x # s => /\ Holders(x)' = Holders(x)
                                   /\ Entries(x)' = Entries(x)
  <2>1. \A x \in Socks : Makers(x)' = Makers(x)
    BY <1>1 DEF Makers
  <2>2. \A x \in Socks : x # s => Holders(x)' = Holders(x)
    BY <1>1 DEF Holders
  <2>3. \A x \in Socks : x # s => Entries(x)' = Entries(x)
    BY <1>5, EntryKinds DEF Entries
  <2> QED
    BY <2>1, <2>2, <2>3
<1>9. Holders(s)' = Holders(s) \union {t} /\ t \notin Holders(s)
  BY <1>1 DEF Holders
<1>10. Entries(s)' = Entries(s) \ {d} /\ d \in Entries(s)
  BY <1>0, <1>5, EntryKinds DEF Entries
<1>11. /\ Cardinality(Holders(s)') = Cardinality(Holders(s)) + 1
       /\ Cardinality(Entries(s)') = Cardinality(Entries(s)) - 1
  <2>1. Cardinality(Holders(s)') = Cardinality(Holders(s)) + 1
    BY <1>9, FiniteViews, FS_AddElement
  <2>2. Cardinality(Entries(s)') = Cardinality(Entries(s)) - 1
    BY ZenonT(40), <1>10, FiniteViews, FS_RemoveElement
  <2> QED
    BY <2>1, <2>2
<1>12. Counted'
  <2>1. SUFFICES ASSUME NEW x \in Socks
                 PROVE  (refs[x] = Cardinality(Entries(x))
                          + Cardinality(Holders(x)) + Cardinality(Makers(x)))'
    BY DEF Counted
  <2>2. refs[x] = Cardinality(Entries(x)) + Cardinality(Holders(x))
                  + Cardinality(Makers(x))
    BY DEF Ledger, Counted
  <2>3. CASE x = s
    BY <1>8, <1>11, <2>2, <2>3, FiniteViews
  <2>4. CASE x # s
    BY <1>8, <2>2, <2>4
  <2> QED
    BY <2>3, <2>4
<1>13. FdRule
  BY <1>0, <1>5 DEF FdRule
<1> QED
  BY <1>3, <1>6, <1>7, <1>12, <1>13 DEF Ledger, Kept, Owned, Owns

(* The end of a call, good or bad: everything the task has in hand goes,   *)
(* the open files through fput, the bare inodes through sock_release.      *)
Files(t)  == th[t].held \union {s \in NewOf(t) : sock[s] = "open"}
Inodes(t) == {s \in NewOf(t) : sock[s] # "open"}

LEMMA ReleaseStep ==
  ASSUME Ledger, NEW t \in Threads, Moves(t),
         NEW files, NEW socks, NEW puts,
         files = Files(t), socks = Inodes(t),
         sock_release(files, socks, puts),
         fdt' = [d \in Fds |-> IF d \in Reserved(t) THEN Free ELSE fdt[d]],
         th'[t].held = {}, th'[t].new = <<>>, th'[t].fds = <<>>
  PROVE  /\ Ledger' /\ Kept(t) /\ FdRule
         /\ Owned' \subseteq Owned
         /\ mod' = [mod EXCEPT !.refs =
                      @ - puts - (Cardinality(Owned) - Cardinality(Owned'))]
<1> USE DEF Files, Inodes
<1> DEFINE held == th[t].held
           gone == {s \in files : refs[s] = 1} \union socks
<1>1. \A u \in Threads : /\ DOMAIN th'[u] = DOMAIN th[u]
                         /\ u # t => th'[u].held = th[u].held
                         /\ u # t => th'[u].new = th[u].new
                         /\ u # t => th'[u].fds = th[u].fds
  BY DEF Moves, Ledger, Typed
<1>2. /\ files \subseteq Socks /\ socks \subseteq Socks
      /\ gone \subseteq Socks /\ NewOf(t) \subseteq Socks /\ held \subseteq Socks
  BY InHand
<1>3. /\ \A x \in Socks : sock'[x] = IF x \in gone THEN "none" ELSE sock[x]
      /\ \A x \in Socks : refs'[x] = IF x \in files THEN refs[x] - 1 ELSE refs[x]
      /\ \A d \in Fds : fdt'[d] = IF d \in Reserved(t) THEN Free ELSE fdt[d]
  BY DEF sock_release
<1>4. Typed'
  <2>1. \A x \in Socks : sock[x] \in {"none", "bare", "ops", "open"}
                         /\ refs[x] \in Int
    BY DEF Ledger, Typed
  <2>2. /\ sock' \in [Socks -> {"none", "bare", "ops", "open"}]
        /\ refs' \in [Socks -> Int]
    BY <2>1 DEF sock_release
  <2>3. fdt' \in [Fds -> Socks \union {Free, Taken, Other}]
    BY DEF Ledger, Typed
  <2>4. <<>> \in Seq(Socks) /\ <<>> \in Seq(Fds)
    OBVIOUS
  <2> QED
    BY <1>1, <2>2, <2>3, <2>4 DEF Ledger, Typed, Moves
<1>5. /\ NewOf(t)' = {} /\ Reserved(t)' = {}
      /\ \A u \in Threads : u # t =>
           NewOf(u)' = NewOf(u) /\ Reserved(u)' = Reserved(u)
  <2>1. ToSet(<<>>) = {}
    BY DEF ToSet
  <2> QED
    BY <1>1, <2>1 DEF NewOf, Reserved
<1>6. \A d \in Reserved(t) : d \in Fds /\ fdt[d] = Taken
  BY InHand DEF Ledger, Private
<1>7. /\ \A x \in held : sock[x] = "open"
      /\ \A x \in NewOf(t) : x \notin held
      /\ \A x \in held : \A u \in Threads : x \notin NewOf(u)
      /\ \A x \in NewOf(t) : \A u \in Threads : u # t => x \notin NewOf(u)
  BY DEF Ledger, Private, Named
<1>8. \A x \in Socks : Entries(x)' = Entries(x)
  BY <1>3, <1>6, EntryKinds DEF Entries
<1>9. \A x \in Socks : Holders(x)' = Holders(x) \ {t}
  BY <1>1 DEF Holders
<1>10. \A x \in Socks : Makers(x)' = Makers(x) \ {t}
  <2>1. SUFFICES ASSUME NEW x \in Socks, NEW u \in Threads
                 PROVE  u \in Makers(x)' <=> u \in Makers(x) /\ u # t
    BY DEF Makers
  <2>2. CASE u = t
    BY <1>5, <2>2 DEF Makers, NewOf
  <2>3. CASE u # t
    <3>1. x \in NewOf(u) => x \notin gone
      BY <1>7, <2>3
    <3>2. u \in Makers(x)' <=> sock'[x] = "open" /\ x \in NewOf(u)
      BY <1>5, <2>3 DEF Makers, NewOf
    <3> QED
      BY <1>3, <2>3, <3>1, <3>2 DEF Makers, NewOf
  <2> QED
    BY <2>2, <2>3
<1>11. Counted'
  <2>1. SUFFICES ASSUME NEW x \in Socks
                 PROVE  (refs[x] = Cardinality(Entries(x))
                          + Cardinality(Holders(x)) + Cardinality(Makers(x)))'
    BY DEF Counted
  <2>2. refs[x] = Cardinality(Entries(x)) + Cardinality(Holders(x))
                  + Cardinality(Makers(x))
    BY DEF Ledger, Counted
  <2>3. /\ Cardinality(Entries(x)) \in Nat /\ Cardinality(Holders(x)) \in Nat
        /\ Cardinality(Makers(x)) \in Nat
        /\ IsFiniteSet(Holders(x)) /\ IsFiniteSet(Makers(x))
    BY FiniteViews
  <2>4. Cardinality(Entries(x)') = Cardinality(Entries(x))
    BY <1>8
  <2>5. Cardinality(Holders(x)') =
          IF t \in Holders(x) THEN Cardinality(Holders(x)) - 1
                              ELSE Cardinality(Holders(x))
    BY <1>9, <2>3, FS_RemoveElement
  <2>6. Cardinality(Makers(x)') =
          IF t \in Makers(x) THEN Cardinality(Makers(x)) - 1
                             ELSE Cardinality(Makers(x))
    BY <1>10, <2>3, FS_RemoveElement
  <2>7. /\ x \in files <=> t \in Holders(x) \/ t \in Makers(x)
        /\ ~(t \in Holders(x) /\ t \in Makers(x))
    BY <1>7 DEF Holders, Makers, NewOf
  <2>8. refs'[x] = IF x \in files THEN refs[x] - 1 ELSE refs[x]
    BY <1>3
  <2> HIDE DEF held, gone, Files, Inodes
  <2> QED
    BY <2>2, <2>3, <2>4, <2>5, <2>6, <2>7, <2>8
<1>12. \A x \in Socks : x \in gone => Entries(x)' = {} /\ Holders(x)' = {}
  <2>1. SUFFICES ASSUME NEW x \in Socks, x \in gone
                 PROVE  Entries(x)' = {} /\ Holders(x)' = {}
    OBVIOUS
  <2>2. CASE x \in socks
    BY <2>2, <1>8, <1>9, NoReference
  <2>3. CASE x \in files /\ refs[x] = 1
    <3>1. refs'[x] = 0
      BY <1>3, <2>3
    <3>2. refs'[x] = Cardinality(Entries(x)') + Cardinality(Holders(x)')
                     + Cardinality(Makers(x)')
      BY <1>11 DEF Counted
    <3>3. /\ Entries(x)' = Entries(x) /\ Holders(x)' = Holders(x) \ {t}
          /\ Makers(x)' = Makers(x) \ {t}
      BY <1>8, <1>9, <1>10
    <3>4. /\ IsFiniteSet(Entries(x)) /\ IsFiniteSet(Holders(x))
          /\ IsFiniteSet(Makers(x))
      BY FiniteViews
    <3>5. /\ IsFiniteSet(Entries(x)') /\ IsFiniteSet(Holders(x)')
          /\ IsFiniteSet(Makers(x)')
      BY <3>3, <3>4, FS_RemoveElement
    <3>6. /\ Cardinality(Entries(x)') \in Nat /\ Cardinality(Holders(x)') \in Nat
          /\ Cardinality(Makers(x)') \in Nat
      BY <3>5, FS_CardinalityType
    <3>7. Cardinality(Entries(x)') = 0 /\ Cardinality(Holders(x)') = 0
      BY <3>1, <3>2, <3>6
    <3> QED
      BY <3>5, <3>7, FS_EmptySet
  <2> QED
    BY <2>1, <2>2, <2>3
<1>13. Private'
  <2>1. \A u, v \in Threads : u # v =>
          /\ (NewOf(u) \cap NewOf(v))' = {}
          /\ (Reserved(u) \cap Reserved(v))' = {}
    BY <1>5 DEF Ledger, Private
  <2>2. \A d \in Fds :
          fdt'[d] = Taken <=> \E u \in Threads : d \in Reserved(u)'
    <3>1. \A d \in Fds : d \in Reserved(t) =>
            \A u \in Threads : d \notin Reserved(u)'
      BY <1>5 DEF Ledger, Private
    <3>2. \A d \in Fds : d \notin Reserved(t) =>
            \A u \in Threads : d \in Reserved(u)' <=> d \in Reserved(u)
      BY <1>5
    <3> QED
      BY <1>3, <3>1, <3>2, EntryKinds DEF Ledger, Private
  <2>3. \A x \in Socks : sock'[x] \in {"bare", "ops"} =>
          \E u \in Threads : x \in NewOf(u)'
    <3>1. SUFFICES ASSUME NEW x \in Socks, sock'[x] \in {"bare", "ops"}
                   PROVE  \E u \in Threads : x \in NewOf(u)'
      OBVIOUS
    <3>2. x \notin gone /\ sock[x] \in {"bare", "ops"}
      BY <1>3, <3>1
    <3>3. x \notin NewOf(t)
      BY <3>2
    <3>4. PICK u \in Threads : x \in NewOf(u)
      BY <3>2 DEF Ledger, Private
    <3> QED
      BY <1>5, <3>3, <3>4
  <2>4. \A u \in Threads : \A x \in NewOf(u)' :
          u # t /\ x \in NewOf(u) /\ x \notin gone /\ x \in Socks
    BY <1>5, <1>7, InHand
  <2>5. \A u \in Threads : \A x \in NewOf(u)' :
          /\ sock'[x] # "none"
          /\ \A d \in Fds : fdt'[d] # x
          /\ \A v \in Threads : x \notin th'[v].held
    <3>1. SUFFICES ASSUME NEW u \in Threads, NEW x \in NewOf(u)'
                   PROVE  /\ sock'[x] # "none"
                          /\ \A d \in Fds : fdt'[d] # x
                          /\ \A v \in Threads : x \notin th'[v].held
      OBVIOUS
    <3>2. /\ x \in NewOf(u) /\ x \notin gone /\ x \in Socks
      BY <2>4
    <3>3. /\ sock[x] # "none" /\ \A d \in Fds : fdt[d] # x
          /\ \A v \in Threads : x \notin th[v].held
      BY <3>2 DEF Ledger, Private
    <3> QED
      BY <1>1, <1>3, <3>2, <3>3, EntryKinds
  <2> QED
    BY <2>1, <2>2, <2>3, <2>5 DEF Private
<1>14. Named'
  <2>1. \A d \in Fds, x \in Socks : fdt'[d] = x =>
          fdt[d] = x /\ d \in Entries(x)'
    BY <1>3, EntryKinds DEF Entries
  <2>2. \A d \in Fds, x \in Socks : fdt'[d] = x => x \notin gone
    BY <1>12, <2>1
  <2>3. \A u \in Threads : \A x \in th'[u].held :
          x \in Socks /\ x \in th[u].held /\ u \in Holders(x)'
    BY <1>1, InHand DEF Holders
  <2>4. \A u \in Threads : \A x \in th'[u].held : x \notin gone
    BY <1>12, <2>3
  <2> QED
    BY <1>3, <2>1, <2>2, <2>3, <2>4 DEF Ledger, Named
<1>15. Kept(t)
  BY <1>3, <1>7, InHand DEF Kept
<1>16. FdRule
  BY <1>3, <1>6 DEF FdRule
<1>17. Owned' = Owned \ gone
  BY <1>3 DEF Owned, Owns
<1>18. {s \in gone : Owns(s)} = Owned \cap gone
  BY <1>2 DEF Owned
<1>19. Cardinality({s \in gone : Owns(s)}) =
         Cardinality(Owned) - Cardinality(Owned')
  <2>1. IsFiniteSet(Owned) /\ Cardinality(Owned) \in Nat
    BY FiniteViews
  <2>2. /\ Cardinality(Owned') =
             Cardinality(Owned) - Cardinality(Owned \cap gone)
    BY <1>17, <2>1, FS_Difference
  <2>3. Cardinality(Owned \cap gone) \in Nat
    BY <2>1, FS_Intersection, FS_CardinalityType
  <2>4. Cardinality({s \in gone : Owns(s)}) = Cardinality(Owned \cap gone)
    BY <1>18
  <2> HIDE DEF gone
  <2> QED
    BY <2>1, <2>2, <2>3, <2>4
<1>20. mod' = [mod EXCEPT !.refs =
                @ - puts - (Cardinality(Owned) - Cardinality(Owned'))]
  BY <1>19 DEF sock_release
<1> QED
  BY <1>4, <1>11, <1>13, <1>14, <1>15, <1>16, <1>17, <1>20 DEF Ledger

-----------------------------------------------------------------------------
(* From the ledger to the whole invariant. *)

(* The other tasks keep their shape. *)
LEMMA OtherShapes ==
  ASSUME Inv, NEW t \in Threads, Moves(t), Kept(t), NEW u \in Threads, u # t
  PROVE  Shape(u)'
<1>1. th'[u] = th[u]
  BY DEF Moves
<1>2. th[u].new \in Seq(Socks) /\ Len(th[u].new) \in Nat
  BY DEF Inv, Ledger, Typed
<1>3. \A i \in DOMAIN th[u].new : sock'[th[u].new[i]] = sock[th[u].new[i]]
  BY DEF Kept, NewOf, ToSet
<1>4. Shape(u)
  BY DEF Inv, Shapes
<1>5. SizeShape(u)' /\ FdShape(u)' /\ HeldShape(u)'
  BY <1>1, <1>4 DEF Shape, SizeShape, FdShape, HeldShape
<1>6. /\ th[u].at = "kwait" => 1 \in DOMAIN th[u].new
      /\ th[u].at = "file2" => 1 \in DOMAIN th[u].new /\ 2 \in DOMAIN th[u].new
  BY <1>2, <1>4, ToSetShort DEF Shape, SizeShape, One, Two
<1>7. SockShape(u)'
  BY <1>1, <1>3, <1>4, <1>6 DEF Shape, SockShape
<1> QED
  BY <1>5, <1>7 DEF Shape

LEMMA CreatorsMove ==
  ASSUME NEW t \in Threads, Moves(t)
  PROVE  Creators' = IF th'[t].at = "init" THEN Creators \union {t}
                                           ELSE Creators \ {t}
  BY DEF Creators, Moves, At

(* A step of task t that has to do with neither module. *)
LEMMA PlainStep ==
  ASSUME Inv, NEW t \in Threads, Moves(t), Ledger', Kept(t), FdRule,
         Shape(t)', Owned' = Owned, UNCHANGED <<mod, hook>>,
         th[t].at # "init", th'[t].at \notin {"init", "pf", "hcall", "hdone"}
  PROVE  Inv' /\ FdRule
<1>1. Shapes'
  BY OtherShapes DEF Shapes
<1>2. Creators' = Creators
  BY CreatorsMove DEF Creators, At
<1>3. ModuleInv'
  BY <1>2 DEF Inv, ModuleInv, At, Moves
<1>4. HookInv'
  BY DEF Inv, HookInv, At, Moves
<1> QED
  BY <1>1, <1>3, <1>4 DEF Inv

(* The end of a call. *)
LEMMA ReleaseInv ==
  ASSUME Inv, NEW t \in Threads, NEW files, NEW socks, NEW puts,
         files = Files(t), socks = Inodes(t),
         puts = IF At(t, "init") THEN 1 ELSE 0,
         sock_release(files, socks, puts),
         fdt' = [d \in Fds |-> IF d \in Reserved(t) THEN Free ELSE fdt[d]],
         th' = [th EXCEPT ![t] = Idle],
         UNCHANGED hook
  PROVE  Inv' /\ FdRule
<1>1. /\ Moves(t)
      /\ th'[t].at = "user" /\ th'[t].held = {} /\ th'[t].new = <<>>
      /\ th'[t].fds = <<>>
  BY DEF Inv, Ledger, Typed, Moves, Idle
<1>2. /\ Ledger' /\ Kept(t) /\ FdRule
      /\ Owned' \subseteq Owned
      /\ mod' = [mod EXCEPT !.refs =
                   @ - puts - (Cardinality(Owned) - Cardinality(Owned'))]
  BY <1>1, ReleaseStep DEF Inv
<1>3. Shape(t)'
  <2>1. Len(<<>>) = 0
    OBVIOUS
  <2> QED
    BY <1>1, <2>1 DEF Shape, SizeShape, FdShape, SockShape, HeldShape, Creating,
       Using, None, One, Two
<1>4. Shapes'
  BY <1>1, <1>2, <1>3, OtherShapes DEF Shapes
<1>5. Creators' = Creators \ {t} /\ (At(t, "init") <=> t \in Creators)
  BY <1>1, CreatorsMove DEF Creators
<1>6. Cardinality(Creators') = Cardinality(Creators) - puts
  <2>1. IsFiniteSet(Creators) /\ Cardinality(Creators) \in Nat
    BY FiniteViews
  <2>2. Cardinality(Creators \ {t}) = IF t \in Creators
          THEN Cardinality(Creators) - 1 ELSE Cardinality(Creators)
    BY <2>1, FS_RemoveElement
  <2>3. Cardinality(Creators') = Cardinality(Creators \ {t})
    BY <1>5
  <2> QED
    BY <1>5, <2>1, <2>2, <2>3
<1>7. /\ Cardinality(Owned) \in Nat /\ Cardinality(Creators) \in Nat
      /\ puts \in Nat /\ IsFiniteSet(Owned)
  BY FiniteViews
<1>8. Cardinality(Owned') \in Nat
  <2>1. IsFiniteSet(Owned')
    BY <1>2, <1>7, FS_Subset
  <2> QED
    BY <2>1, FS_CardinalityType
<1>9. /\ mod \in [st : {"out", "live", "going"}, refs : Int, reg : BOOLEAN]
      /\ mod.refs = Cardinality(Owned) + Cardinality(Creators)
  BY DEF Inv, ModuleInv
<1>10. /\ mod'.refs = mod.refs - puts - (Cardinality(Owned) - Cardinality(Owned'))
       /\ mod'.st = mod.st /\ mod'.reg = mod.reg
       /\ mod' \in [st : {"out", "live", "going"}, refs : Int, reg : BOOLEAN]
  BY <1>2, <1>7, <1>8, <1>9
<1>11. ModuleInv'
  <2>1. mod'.refs = Cardinality(Owned') + Cardinality(Creators')
    BY <1>6, <1>7, <1>8, <1>9, <1>10
  <2>2. mod'.st # "live" => Owned' = {} /\ Creators' = {}
    BY <1>2, <1>5, <1>10 DEF Inv, ModuleInv
  <2>3. mod'.reg => mod'.st # "out"
    BY <1>10 DEF Inv, ModuleInv
  <2>4. \A u \in Threads : At(u, "pf")' => mod'.st # "out"
    BY <1>1, <1>10 DEF Inv, ModuleInv, At, Moves
  <2> QED
    BY <1>10, <2>1, <2>2, <2>3, <2>4 DEF ModuleInv
<1>12. HookInv'
  BY <1>1 DEF Inv, HookInv, At, Moves
<1> QED
  BY <1>2, <1>4, <1>11, <1>12 DEF Inv

(* Return, where it drops what the task has in hand. *)
LEMMA ReturnInv ==
  ASSUME Inv, NEW t \in Threads, NEW files, NEW socks, NEW fds,
         Return(t, files, socks, fds), ~At(t, "init"),
         files = Files(t), socks = Inodes(t), fds = Reserved(t)
  PROVE  Inv' /\ FdRule
  BY ReleaseInv DEF Return

(* CreateFails, wherever in __sock_create it is met. *)
LEMMA CreateFailsInv ==
  ASSUME Inv, NEW t \in Threads,
         th[t].at \in {"rcu", "pf", "init", "post"},
         CreateFails(t, Own(t), IF At(t, "init") THEN 1 ELSE 0)
  PROVE  Inv' /\ FdRule
<1> DEFINE first == IF th[t].call = "socketpair" /\ Len(th[t].new) = 2
                    THEN {New1(t)} ELSE {}
<1>1. th[t].new \in Seq(Socks) /\ Shape(t)
  BY DEF Inv, Ledger, Typed, Shapes
<1>2. Len(th[t].new) = 1 \/ (Len(th[t].new) = 2 /\ th[t].call = "socketpair")
  BY <1>1 DEF Shape, SizeShape, Creating
<1>3. Last(th[t].new) = th[t].new[Len(th[t].new)]
  BY DEF Last
<1>4. Own(t) \union first = NewOf(t)
  BY <1>1, <1>2, <1>3, ToSetShort DEF Own, New1, NewOf
<1>5. \A x \in NewOf(t) : sock[x] # "open"
  BY <1>1 DEF Shape, SockShape, NewOf, ToSet
<1>6. th[t].held = {}
  BY <1>1 DEF Shape, HeldShape, Using
<1>7. Files(t) = {} /\ Inodes(t) = NewOf(t)
  BY <1>5, <1>6 DEF Files, Inodes
<1> QED
  BY <1>4, <1>7, ReleaseInv DEF CreateFails

-----------------------------------------------------------------------------
(* Each action keeps the invariant. *)

(* get_unused_fd_flags, in each of its four places. *)
LEMMA TakeFdInv ==
  ASSUME Inv, NEW t \in Threads, NEW l, TakeFd(t, l),
         \/ th[t].at = "fd" /\ l = "file"
         \/ th[t].at = "fd1" /\ l = "fd2"
         \/ th[t].at = "fd2" /\ l = "show"
         \/ th[t].at = "afd" /\ l = "afile"
  PROVE  Inv' /\ FdRule
<1>1. FreeFds # {}
  BY DEF TakeFd
<1>2. PICK d \in FreeFds :
        /\ fdt' = [fdt EXCEPT ![d] = Taken]
        /\ th' = [th EXCEPT ![t].fds = Append(@, d), ![t].at = l]
  BY <1>1, LowestFree DEF TakeFd
<1>3. d \in Fds /\ fdt[d] = Free /\ UNCHANGED <<refs, sock, mod, hook>>
  BY DEF FreeFds, TakeFd
<1>4. /\ Moves(t)
      /\ th'[t].at = l /\ th'[t].call = th[t].call
      /\ th'[t].held = th[t].held /\ th'[t].new = th[t].new
      /\ th'[t].fds = Append(th[t].fds, d)
  BY <1>2 DEF Inv, Ledger, Typed, Moves
<1>5. /\ Ledger' /\ Kept(t) /\ FdRule /\ Owned' = Owned
      /\ d \notin Reserved(t)
  BY <1>2, <1>3, <1>4, ReserveStep DEF Inv
<1>6. /\ th[t].fds \in Seq(Fds) /\ th[t].new \in Seq(Socks) /\ Shape(t)
      /\ Len(th[t].fds) \in Nat
  BY DEF Inv, Ledger, Typed, Shapes
<1>7. SizeShape(t)' /\ HeldShape(t)'
  BY <1>4, <1>6 DEF Shape, SizeShape, HeldShape, Creating, Using, None, One, Two
<1>8. SockShape(t)'
  BY <1>3, <1>4, <1>6 DEF Shape, SockShape
<1>9. FdShape(t)'
  <2>1. /\ Len(th'[t].fds) = Len(th[t].fds) + 1
        /\ \A i \in DOMAIN th[t].fds : th'[t].fds[i] = th[t].fds[i]
        /\ th'[t].fds[Len(th[t].fds) + 1] = d
    BY <1>3, <1>4, <1>6, ToSetAppend
  <2>2. Len(th[t].fds) = 1 =>
          /\ th'[t].fds[1] = th[t].fds[1] /\ th'[t].fds[2] = d
          /\ th[t].fds[1] # d
    BY <1>5, <1>6, <2>1, ToSetShort DEF Reserved
  <2>3. l = "file" \/ l = "fd2" \/ l = "afile" => Len(th[t].fds) = 0
    BY <1>6 DEF Shape, FdShape
  <2>4. l = "show" => Len(th[t].fds) = 1 /\ th[t].call = "socketpair"
    BY <1>6 DEF Shape, FdShape
  <2>5. l = "fd2" => th[t].call = "socketpair"
    BY <1>6 DEF Shape, FdShape
  <2> QED
    BY <1>4, <1>6, <2>1, <2>2, <2>3, <2>4, <2>5 DEF FdShape, Creating
<1> QED
  BY <1>3, <1>4, <1>5, <1>7, <1>8, <1>9, PlainStep DEF Shape

(* sock_alloc_file, in each of its four places. *)
LEMMA AllocFileInv ==
  ASSUME Inv, NEW t \in Threads, NEW s, NEW l, sock_alloc_file(t, s, l),
         \/ th[t].at = "file" /\ s = New1(t) /\ l = "install"
         \/ th[t].at = "afile" /\ s = New1(t) /\ l = "await"
         \/ th[t].at = "file1" /\ s = New1(t) /\ l = "file2"
         \/ th[t].at = "file2" /\ s = New2(t) /\ l = "install1"
  PROVE  Inv' /\ FdRule
<1>1. /\ sock' = [sock EXCEPT ![s] = "open"]
      /\ refs' = [refs EXCEPT ![s] = 1]
      /\ th' = [th EXCEPT ![t].at = l]
      /\ UNCHANGED <<fdt, mod, hook>>
  BY DEF sock_alloc_file, Go
<1>2. /\ Moves(t)
      /\ th'[t].at = l /\ th'[t].call = th[t].call
      /\ th'[t].held = th[t].held /\ th'[t].new = th[t].new
      /\ th'[t].fds = th[t].fds
  BY <1>1 DEF Inv, Ledger, Typed, Moves
<1>3. th[t].new \in Seq(Socks) /\ Shape(t)
  BY DEF Inv, Ledger, Typed, Shapes
<1>4. /\ th[t].at \in {"file", "afile"} => Len(th[t].new) = 1
      /\ th[t].at \in {"file1", "file2"} =>
           Len(th[t].new) = 2 /\ th[t].new[1] # th[t].new[2]
  BY <1>3 DEF Shape, SizeShape, One, Two
<1>5. s \in NewOf(t) /\ sock[s] = "ops"
  <2>1. s = th[t].new[1] \/ (s = th[t].new[2] /\ th[t].at = "file2")
    BY DEF New1, New2
  <2>2. /\ Len(th[t].new) = 1 => 1 \in DOMAIN th[t].new
        /\ Len(th[t].new) = 2 => 1 \in DOMAIN th[t].new /\ 2 \in DOMAIN th[t].new
    BY <1>3, ToSetShort
  <2>3. s \in NewOf(t)
    BY <1>4, <2>1, <2>2 DEF NewOf, ToSet
  <2>4. sock[s] = "ops"
    BY <1>3, <1>4, <2>1, <2>2 DEF Shape, SockShape, New1, New2
  <2> QED
    BY <2>3, <2>4
<1>6. /\ Ledger' /\ Kept(t) /\ FdRule /\ s \in Socks
      /\ Owned' = Owned
      /\ \A x \in Socks : x # s => sock'[x] = sock[x]
  BY <1>1, <1>2, <1>5, OpenStep DEF Inv
<1>7. sock'[s] = "open"
  BY <1>1, <1>6 DEF Inv, Ledger, Typed
<1>8. SizeShape(t)' /\ FdShape(t)' /\ HeldShape(t)'
  BY <1>2, <1>3 DEF Shape, SizeShape, FdShape, HeldShape, Creating, Using, None,
     One, Two
<1>9. SockShape(t)'
  <2>1. CASE Len(th[t].new) = 1
    BY <1>2, <1>3, <1>4, <1>7, <2>1, ToSetShort DEF SockShape, New1
  <2>2. CASE Len(th[t].new) = 2 /\ th[t].at = "file1"
    BY <1>2, <1>3, <1>4, <1>6, <1>7, <2>2, ToSetShort
       DEF Shape, SockShape, New1
  <2>3. CASE Len(th[t].new) = 2 /\ th[t].at = "file2"
    BY <1>2, <1>3, <1>4, <1>6, <1>7, <2>3, ToSetShort
       DEF Shape, SockShape, New2
  <2> QED
    BY <1>4, <2>1, <2>2, <2>3
<1> QED
  BY <1>1, <1>2, <1>6, <1>8, <1>9, PlainStep DEF Shape

(* What is known of the moving task before its step. *)
LEMMA InvAt ==
  ASSUME Inv, NEW t \in Threads
  PROVE  /\ th[t].new \in Seq(Socks) /\ Len(th[t].new) \in Nat
         /\ th[t].fds \in Seq(Fds) /\ Len(th[t].fds) \in Nat
         /\ th[t].held \subseteq Socks /\ Shape(t) /\ Ledger
  BY DEF Inv, Ledger, Typed, Shapes

(* A move to another place that changes nothing else. *)
LEMMA GoInv ==
  ASSUME Inv, NEW t \in Threads, NEW l, Go(t, l),
         UNCHANGED <<fdt, refs, sock, mod, hook>>,
         \/ th[t].at = "post" /\ th[t].call = "socket" /\ l = "fd"
         \/ /\ th[t].at = "post" /\ th[t].call # "socket"
            /\ Len(th[t].new) = 1 /\ l = "create"
         \/ /\ th[t].at = "post" /\ th[t].call # "socket"
            /\ Len(th[t].new) # 1 /\ l = "pair"
         \/ th[t].at = "show" /\ l = "create"
         \/ th[t].at = "pair" /\ l = "file1"
         \/ th[t].at = "family" /\ l = "rcu"
  PROVE  Inv' /\ FdRule
<1>1. /\ Moves(t)
      /\ th'[t].at = l /\ th'[t].call = th[t].call
      /\ th'[t].held = th[t].held /\ th'[t].new = th[t].new
      /\ th'[t].fds = th[t].fds
  BY DEF Inv, Ledger, Typed, Moves, Go
<1>2. Ledger' /\ Kept(t) /\ FdRule /\ Owned' = Owned
  BY <1>1, QuietStep DEF Inv
<1>3. SizeShape(t)'
  BY <1>1, InvAt DEF Shape, SizeShape, FdShape, Creating, None, One, Two
<1>4. FdShape(t)'
  BY <1>1, InvAt DEF Shape, SizeShape, FdShape, Creating
<1>5. SockShape(t)'
  <2>1. l # "create" \/ th[t].at # "show" => SockShape(t)'
    BY <1>1, InvAt DEF Shape, SockShape
  <2>2. th[t].at = "show" => DOMAIN th[t].new = {}
    <3>1. th[t].at = "show" => Len(th[t].new) = 0
      BY InvAt DEF Shape, SizeShape, None
    <3> QED
      BY <3>1, InvAt, th[t].new \in Seq(Socks)
  <2>3. CASE l = "create" /\ th[t].at = "show"
    BY <1>1, <2>2, <2>3 DEF SockShape
  <2> QED
    BY <2>1, <2>3
<1>6. HeldShape(t)'
  BY <1>1, InvAt DEF Shape, HeldShape, Using
<1> QED
  BY <1>1, <1>2, <1>3, <1>4, <1>5, <1>6, PlainStep DEF Shape

(* A call begins; nothing is in hand. *)
LEMMA EnterInv ==
  ASSUME Inv, NEW t \in Threads, NEW c, NEW l,
         \/ c = "socket" /\ l = "create"
         \/ c = "socketpair" /\ l = "fd1",
         th[t].at = "user",
         th' = [th EXCEPT ![t].call = c, ![t].at = l],
         UNCHANGED <<fdt, refs, sock, mod, hook>>
  PROVE  Inv' /\ FdRule
<1>1. /\ Moves(t)
      /\ th'[t].at = l /\ th'[t].call = c
      /\ th'[t].held = th[t].held /\ th'[t].new = th[t].new
      /\ th'[t].fds = th[t].fds
  BY DEF Inv, Ledger, Typed, Moves
<1>2. Ledger' /\ Kept(t) /\ FdRule /\ Owned' = Owned
  BY <1>1, QuietStep DEF Inv
<1>3. Len(th[t].new) = 0 /\ Len(th[t].fds) = 0 /\ th[t].held = {}
  BY InvAt DEF Shape, SizeShape, FdShape, HeldShape, None, Using
<1>4. SizeShape(t)' /\ FdShape(t)' /\ HeldShape(t)'
  <2>0. /\ Len(th'[t].new) = 0 /\ Len(th'[t].fds) = 0
        /\ \/ th'[t].call = "socket" /\ th'[t].at = "create"
           \/ th'[t].call = "socketpair" /\ th'[t].at = "fd1"
    BY <1>1, <1>3
  <2>1. SizeShape(t)'
    BY <2>0 DEF SizeShape, Creating, None, One, Two
  <2>2. FdShape(t)'
    BY <2>0 DEF FdShape, Creating
  <2>3. HeldShape(t)'
    BY <1>1, <1>3 DEF HeldShape, Using
  <2> QED
    BY <2>1, <2>2, <2>3
<1>5. DOMAIN th[t].new = {}
  BY <1>3, InvAt
<1>6. SockShape(t)'
  BY <1>1, <1>5 DEF SockShape
<1> QED
  BY <1>1, <1>2, <1>4, <1>6, PlainStep DEF Shape

(* sock_alloc of a bare inode, for __sock_create and sock_create_lite. *)
LEMMA AllocBareInv ==
  ASSUME Inv, NEW t \in Threads, NEW s \in Socks, NEW l, sock_alloc(s, "bare"),
         \/ /\ th[t].at = "create" /\ l = "family"
            /\ th' = [th EXCEPT ![t].new = Append(@, s), ![t].at = l]
         \/ /\ th[t].at = "steps" /\ l = "kwait"
            /\ th' = [th EXCEPT ![t].new = <<s>>, ![t].at = l],
         UNCHANGED <<fdt, refs, mod, hook>>
  PROVE  Inv' /\ FdRule
<1>1. sock[s] = "none" /\ sock' = [sock EXCEPT ![s] = "bare"]
  BY DEF sock_alloc, sock_alloc_inode
<1>2. l = "kwait" => Append(th[t].new, s) = <<s>>
  <2>1. l = "kwait" => Len(th[t].new) = 0
    BY InvAt DEF Shape, SizeShape, None
  <2> QED
    BY <2>1, InvAt, AppendToNone
<1>3. /\ Moves(t)
      /\ th'[t].at = l /\ th'[t].call = th[t].call
      /\ th'[t].held = th[t].held /\ th'[t].fds = th[t].fds
      /\ th'[t].new = Append(th[t].new, s)
  <2>1. PICK q : /\ q = Append(th[t].new, s)
                 /\ th' = [th EXCEPT ![t].new = q, ![t].at = l]
    BY <1>2
  <2> QED
    BY <2>1 DEF Inv, Ledger, Typed, Moves
<1>4. /\ Ledger' /\ Kept(t) /\ FdRule /\ Owned' = Owned
      /\ s \notin NewOf(t)
      /\ \A x \in Socks : x # s => sock'[x] = sock[x]
  BY <1>1, <1>3, AllocStep DEF Inv
<1>5. sock'[s] = "bare"
  BY <1>1 DEF Inv, Ledger, Typed
<1>6. /\ Len(th'[t].new) = Len(th[t].new) + 1
      /\ DOMAIN th'[t].new = DOMAIN th[t].new \union {Len(th[t].new) + 1}
      /\ \A i \in DOMAIN th[t].new : th'[t].new[i] = th[t].new[i]
      /\ th'[t].new[Len(th[t].new) + 1] = s
  BY <1>3, InvAt, ToSetAppend
<1>7. \A i \in DOMAIN th[t].new :
        /\ th[t].new[i] # s /\ th[t].new[i] \in Socks
        /\ i # Len(th[t].new) + 1
  BY <1>4, InvAt DEF NewOf, ToSet
<1>8. SizeShape(t)'
  <2>1. Len(th[t].new) = 1 => th'[t].new[1] # th'[t].new[2]
    BY <1>6, <1>7, InvAt, ToSetShort
  <2>2. l = "family" =>
          Len(th[t].new) = 0 \/ (Len(th[t].new) = 1 /\ th[t].call = "socketpair")
    BY InvAt DEF Shape, SizeShape
  <2>3. l = "kwait" => Len(th[t].new) = 0
    BY InvAt DEF Shape, SizeShape, None
  <2> QED
    BY <1>3, <1>6, <2>1, <2>2, <2>3, InvAt
       DEF SizeShape, Creating, None, One, Two
<1>9. FdShape(t)' /\ HeldShape(t)'
  BY <1>3, InvAt DEF Shape, FdShape, HeldShape, Creating, Using
<1>10. SockShape(t)'
  <2>1. CASE l = "kwait"
    <3>1. th'[t].new[1] = s
      BY <1>2, <1>3, <2>1
    <3> QED
      BY <1>3, <1>5, <2>1, <3>1 DEF SockShape
  <2>2. CASE l = "family"
    <3>1. \A i \in DOMAIN th[t].new : sock[th[t].new[i]] = "ops"
      BY <2>2, InvAt DEF Shape, SockShape
    <3>2. \A i \in DOMAIN th'[t].new :
            sock'[th'[t].new[i]] = IF i = Len(th'[t].new) THEN "bare" ELSE "ops"
      BY <1>4, <1>5, <1>6, <1>7, <3>1
    <3> QED
      BY <1>3, <2>2, <3>2 DEF SockShape
  <2> QED
    BY <2>1, <2>2
<1> QED
  BY <1>3, <1>4, <1>8, <1>9, <1>10, PlainStep DEF Shape

(* __sock_create. *)

LEMMA CreateAllocInv ==
  ASSUME Inv, NEW t \in Threads, CreateAlloc(t)
  PROVE  Inv' /\ FdRule
<1>1. th[t].at = "create"
  BY DEF CreateAlloc, At
<1>2. ASSUME NEW s \in Socks, sock_alloc(s, "bare"),
             th' = [th EXCEPT ![t].new = Append(@, s), ![t].at = "family"],
             UNCHANGED <<fdt, refs, mod, hook>>
      PROVE  Inv' /\ FdRule
  BY <1>1, <1>2, AllocBareInv
<1>3. ASSUME sock_release({}, ToSet(th[t].new), 0),
             fdt' = [d \in Fds |-> IF d \in Reserved(t) THEN Free ELSE fdt[d]],
             th' = [th EXCEPT ![t] = Idle], UNCHANGED hook
      PROVE  Inv' /\ FdRule
  <2>1. \A x \in NewOf(t) : sock[x] # "open"
    BY <1>1, InvAt DEF Shape, SockShape, NewOf, ToSet
  <2>2. th[t].held = {}
    BY <1>1, InvAt DEF Shape, HeldShape, Using
  <2>3. Files(t) = {} /\ Inodes(t) = ToSet(th[t].new)
    BY <2>1, <2>2 DEF Files, Inodes, NewOf
  <2> QED
    BY <1>1, <1>3, <2>3, ReleaseInv DEF At
<1> QED
  BY <1>2, <1>3 DEF CreateAlloc

(* A move inside __sock_create that leaves what the task has in hand. *)
LEMMA CreateMove ==
  ASSUME Inv, NEW t \in Threads, NEW l, Go(t, l),
         UNCHANGED <<fdt, refs, sock, hook>>,
         \/ th[t].at = "family" /\ l = "rcu"
         \/ th[t].at = "rcu" /\ l = "pf"
         \/ th[t].at = "pf" /\ l = "init",
         ModuleInv'
  PROVE  Inv' /\ FdRule
<1>1. /\ Moves(t)
      /\ th'[t].at = l /\ th'[t].call = th[t].call
      /\ th'[t].held = th[t].held /\ th'[t].new = th[t].new
      /\ th'[t].fds = th[t].fds
  BY DEF Inv, Ledger, Typed, Moves, Go
<1>2. Ledger' /\ Kept(t) /\ FdRule /\ Owned' = Owned
  BY <1>1, QuietStep DEF Inv
<1>3. SizeShape(t)'
  BY <1>1, InvAt DEF Shape, SizeShape, Creating, None, One, Two
<1>4. FdShape(t)'
  BY <1>1, InvAt DEF Shape, FdShape, Creating
<1>5. SockShape(t)'
  BY <1>1, InvAt DEF Shape, SockShape
<1>6. HeldShape(t)'
  BY <1>1, InvAt DEF Shape, HeldShape, Using
<1>7. Shapes'
  BY <1>1, <1>2, <1>3, <1>4, <1>5, <1>6, OtherShapes DEF Shapes, Shape
<1>8. HookInv'
  BY <1>1 DEF Inv, HookInv, At, Moves
<1> QED
  BY <1>2, <1>7, <1>8 DEF Inv

LEMMA RequestFamilyInv ==
  ASSUME Inv, NEW t \in Threads, RequestFamily(t)
  PROVE  Inv' /\ FdRule
<1>1. /\ th[t].at = "family" /\ Go(t, "rcu")
      /\ UNCHANGED <<fdt, refs, sock, hook>>
  BY DEF RequestFamily, At
<1>2. \/ UNCHANGED mod
      \/ mod.st = "out" /\ mod' = [mod EXCEPT !.st = "live", !.reg = TRUE]
  BY DEF RequestFamily, sock_register
<1>3. /\ Moves(t) /\ th'[t].at = "rcu"
  BY <1>1 DEF Inv, Ledger, Typed, Moves, Go
<1>4. Owned' = Owned /\ Creators' = Creators
  BY <1>1, <1>3, CreatorsMove DEF Owned, Owns, Creators, At
<1>5. ModuleInv'
  <2>1. ModuleInv
    BY DEF Inv
  <2>2. /\ mod'.refs = mod.refs
        /\ mod'.st = mod.st \/ mod'.st = "live"
        /\ mod'.reg => mod.reg \/ mod'.st = "live"
        /\ mod' \in [st : {"out", "live", "going"}, refs : Int, reg : BOOLEAN]
    BY <1>2, <2>1 DEF ModuleInv
  <2>3. \A u \in Threads : At(u, "pf")' => At(u, "pf")
    BY <1>3 DEF Moves, At
  <2> QED
    BY <1>4, <2>1, <2>2, <2>3 DEF ModuleInv
<1> QED
  BY <1>1, <1>5, CreateMove

LEMMA FindFamilyInv ==
  ASSUME Inv, NEW t \in Threads, FindFamily(t)
  PROVE  Inv' /\ FdRule
<1>1. th[t].at = "rcu"
  BY DEF FindFamily, At
<1>2. CASE ~mod.reg
  BY <1>1, <1>2, CreateFailsInv DEF FindFamily, At
<1>3. CASE mod.reg
  <2>1. Go(t, "pf") /\ UNCHANGED <<fdt, refs, sock, mod, hook>>
    BY <1>3 DEF FindFamily
  <2>2. Moves(t) /\ th'[t].at = "pf"
    BY <2>1 DEF Inv, Ledger, Typed, Moves, Go
  <2>3. Owned' = Owned /\ Creators' = Creators
    BY <1>1, <2>1, <2>2, CreatorsMove DEF Owned, Owns, Creators, At
  <2>4. ModuleInv'
    BY <1>3, <2>1, <2>2, <2>3 DEF Inv, ModuleInv, Moves, At
  <2> QED
    BY <1>1, <2>1, <2>4, CreateMove
<1> QED
  BY <1>2, <1>3

LEMMA GetFamilyInv ==
  ASSUME Inv, NEW t \in Threads, GetFamily(t)
  PROVE  Inv' /\ FdRule
<1>1. th[t].at = "pf"
  BY DEF GetFamily, At
<1>2. CASE mod.st # "live"
  BY <1>1, <1>2, CreateFailsInv DEF GetFamily, At
<1>3. CASE mod.st = "live"
  <2>1. /\ Go(t, "init") /\ UNCHANGED <<fdt, refs, sock, hook>>
        /\ mod' = [mod EXCEPT !.refs = @ + 1]
    BY <1>3 DEF GetFamily
  <2>2. Moves(t) /\ th'[t].at = "init"
    BY <2>1 DEF Inv, Ledger, Typed, Moves, Go
  <2>3. /\ Owned' = Owned
        /\ Creators' = Creators \union {t} /\ t \notin Creators
    BY <1>1, <2>1, <2>2, CreatorsMove DEF Owned, Owns, Creators, At
  <2>4. Cardinality(Creators') = Cardinality(Creators) + 1
    BY <2>3, FiniteViews, FS_AddElement
  <2>5. ModuleInv /\ Cardinality(Creators) \in Nat /\ Cardinality(Owned) \in Nat
    BY FiniteViews DEF Inv
  <2>6. /\ mod'.refs = mod.refs + 1 /\ mod'.st = "live" /\ mod'.reg = mod.reg
        /\ mod' \in [st : {"out", "live", "going"}, refs : Int, reg : BOOLEAN]
    BY <1>3, <2>1, <2>5 DEF ModuleInv
  <2>7. mod'.refs = Cardinality(Owned') + Cardinality(Creators')
    BY <2>3, <2>4, <2>5, <2>6 DEF ModuleInv
  <2>8. ModuleInv'
    BY <2>6, <2>7 DEF ModuleInv
  <2> QED
    BY <1>1, <2>1, <2>8, CreateMove
<1> QED
  BY <1>2, <1>3

LEMMA CallCreateInv ==
  ASSUME Inv, NEW t \in Threads, CallCreate(t)
  PROVE  Inv' /\ FdRule
<1>1. th[t].at = "init"
  BY DEF CallCreate, At
<1>2. CASE CreateFails(t, Own(t), 1)
  BY <1>1, <1>2, CreateFailsInv DEF At
<1>3. CASE /\ sock' = [sock EXCEPT ![Last(th[t].new)] = "ops"]
           /\ mod' = [mod EXCEPT !.refs = (@ + 1) - 1]
           /\ Go(t, "post")
           /\ UNCHANGED <<fdt, refs, hook>>
  <2>1. PICK s : s = Last(th[t].new)
    OBVIOUS
  <2>2. /\ Moves(t)
        /\ th'[t].at = "post" /\ th'[t].call = th[t].call
        /\ th'[t].held = th[t].held /\ th'[t].new = th[t].new
        /\ th'[t].fds = th[t].fds
    BY <1>3 DEF Inv, Ledger, Typed, Moves, Go
  <2>3. Len(th[t].new) \in {1, 2} /\ Len(th[t].new) \in DOMAIN th[t].new
    <3>1. Len(th[t].new) \in {1, 2}
      BY <1>1, InvAt DEF Shape, SizeShape, Creating
    <3> QED
      BY <3>1, InvAt, ToSetShort
  <2>4. s = th[t].new[Len(th[t].new)]
    BY <2>1 DEF Last
  <2>5. s \in NewOf(t) /\ sock[s] = "bare"
    BY <1>1, <2>3, <2>4, InvAt DEF NewOf, ToSet, Shape, SockShape
  <2>6. /\ Ledger' /\ Kept(t) /\ FdRule /\ s \in Socks
        /\ Owned' = Owned \union {s} /\ s \notin Owned
        /\ \A x \in Socks : x # s => sock'[x] = sock[x]
    BY <1>3, <2>1, <2>2, <2>5, SetOpsStep DEF Inv
  <2>7. sock'[s] = "ops"
    BY <1>3, <2>1, <2>6 DEF Inv, Ledger, Typed
  <2>8. SizeShape(t)' /\ FdShape(t)' /\ HeldShape(t)'
    <3>1. SizeShape(t)'
      BY <1>1, <2>2, InvAt DEF Shape, SizeShape, Creating, None, One, Two
    <3>2. FdShape(t)'
      BY <1>1, <2>2, InvAt DEF Shape, FdShape, Creating
    <3>3. HeldShape(t)'
      BY <1>1, <2>2, InvAt DEF Shape, HeldShape, Using
    <3> QED
      BY <3>1, <3>2, <3>3
  <2>9. SockShape(t)'
    <3>1. \A i \in DOMAIN th[t].new : i # Len(th[t].new) =>
            sock[th[t].new[i]] = "ops" /\ th[t].new[i] \in Socks
      BY <1>1, InvAt DEF Shape, SockShape
    <3>2. \A i \in DOMAIN th[t].new : sock'[th[t].new[i]] = "ops"
      BY <2>4, <2>6, <2>7, <3>1
    <3> QED
      BY <2>2, <3>2 DEF SockShape
  <2>10. Shapes'
    BY <2>2, <2>6, <2>8, <2>9, OtherShapes DEF Shapes, Shape
  <2>11. Creators' = Creators \ {t} /\ t \in Creators
    BY <1>1, <2>2, CreatorsMove DEF Creators, At
  <2>12. /\ Cardinality(Creators) \in Nat /\ Cardinality(Owned) \in Nat
         /\ IsFiniteSet(Creators) /\ IsFiniteSet(Owned) /\ ModuleInv
    BY FiniteViews DEF Inv
  <2>13. Cardinality(Creators') = Cardinality(Creators) - 1
    BY <2>11, <2>12, FS_RemoveElement
  <2>14. Cardinality(Owned') = Cardinality(Owned) + 1
    BY <2>6, <2>12, FS_AddElement
  <2>15. mod.st = "live"
    BY <2>11, <2>12 DEF ModuleInv
  <2>16. /\ mod'.refs = mod.refs /\ mod'.st = "live" /\ mod'.reg = mod.reg
         /\ mod' \in [st : {"out", "live", "going"}, refs : Int, reg : BOOLEAN]
    BY <1>3, <2>12, <2>15 DEF ModuleInv
  <2>17. mod'.refs = Cardinality(Owned') + Cardinality(Creators')
    BY <2>12, <2>13, <2>14, <2>16 DEF ModuleInv
  <2>18. ModuleInv'
    BY <2>16, <2>17 DEF ModuleInv
  <2>19. HookInv'
    BY <1>3, <2>2 DEF Inv, HookInv, At, Moves
  <2> QED
    BY <2>6, <2>10, <2>18, <2>19 DEF Inv
<1> QED
  BY <1>2, <1>3 DEF CallCreate

LEMMA PostCreateInv ==
  ASSUME Inv, NEW t \in Threads, PostCreate(t)
  PROVE  Inv' /\ FdRule
<1>1. th[t].at = "post"
  BY DEF PostCreate, At
<1>2. CASE CreateFails(t, Own(t), 0)
  BY <1>1, <1>2, CreateFailsInv DEF At
<1>3. CASE /\ Go(t, IF th[t].call = "socket" THEN "fd"
                    ELSE IF Len(th[t].new) = 1 THEN "create" ELSE "pair")
           /\ UNCHANGED <<fdt, refs, sock, mod, hook>>
  <2>1. CASE th[t].call = "socket"
    <3>1. Go(t, "fd")
      BY <1>3, <2>1
    <3> QED
      BY <1>1, <1>3, <2>1, <3>1, GoInv
  <2>2. CASE th[t].call # "socket" /\ Len(th[t].new) = 1
    <3>1. Go(t, "create")
      BY <1>3, <2>2
    <3> QED
      BY <1>1, <1>3, <2>2, <3>1, GoInv
  <2>3. CASE th[t].call # "socket" /\ Len(th[t].new) # 1
    <3>1. Go(t, "pair")
      BY <1>3, <2>3
    <3> QED
      BY <1>1, <1>3, <2>3, <3>1, GoInv
  <2> QED
    BY <2>1, <2>2, <2>3
<1> QED
  BY <1>2, <1>3 DEF PostCreate

LEMMA SockCreateInv ==
  ASSUME Inv, NEW t \in Threads, sock_create(t)
  PROVE  Inv' /\ FdRule
  BY CreateAllocInv, RequestFamilyInv, FindFamilyInv, GetFamilyInv,
     CallCreateInv, PostCreateInv DEF sock_create

(* What a task has in hand, place by place: what Return must be given. *)
LEMMA HandAt ==
  ASSUME Inv, NEW t \in Threads
  PROVE  /\ th[t].at \in {"fd1", "fd2", "show"} =>
              Files(t) = {} /\ Inodes(t) = {}
         /\ th[t].at = "steps" =>
              Files(t) = th[t].held /\ Inodes(t) = {} /\ Reserved(t) = {}
         /\ th[t].at \in {"fd", "file"} => Files(t) = {} /\ Inodes(t) = {New1(t)}
         /\ th[t].at \in {"fd", "fd1"} => Reserved(t) = {}
         /\ th[t].at \in {"pair", "file1"} =>
              Files(t) = {} /\ Inodes(t) = {New1(t), New2(t)}
         /\ th[t].at = "file2" =>
              Files(t) = {New1(t)} /\ Inodes(t) = {New2(t)}
         /\ th[t].at \in {"afd", "afile", "kwait", "kuse"} =>
              Files(t) = th[t].held /\ Inodes(t) = {New1(t)}
         /\ th[t].at \in {"afd", "kwait", "kuse"} => Reserved(t) = {}
         /\ th[t].at = "await" =>
              Files(t) = th[t].held \union {New1(t)} /\ Inodes(t) = {}
<1>1. /\ th[t].new \in Seq(Socks) /\ th[t].fds \in Seq(Fds)
      /\ SizeShape(t) /\ FdShape(t) /\ SockShape(t) /\ HeldShape(t)
  BY InvAt DEF Shape
<1>2. th[t].at \in {"fd", "fd1", "steps", "afd", "kwait", "kuse"} =>
        Reserved(t) = {}
  BY <1>1, ToSetShort DEF FdShape, Reserved
<1>3. th[t].at \in {"fd1", "fd2", "show", "steps"} => NewOf(t) = {}
  BY <1>1, ToSetShort DEF SizeShape, None, NewOf
<1>4. /\ th[t].at \in {"fd", "file", "afd", "afile", "await", "kwait", "kuse"} =>
           NewOf(t) = {New1(t)} /\ DOMAIN th[t].new = {1}
      /\ th[t].at \in {"pair", "file1", "file2"} =>
           NewOf(t) = {New1(t), New2(t)} /\ DOMAIN th[t].new = {1, 2}
  BY <1>1, ToSetShort DEF SizeShape, One, Two, NewOf, New1, New2
<1>5. th[t].at \in {"fd1", "fd2", "show", "fd", "file", "pair", "file1", "file2"}
        => th[t].held = {}
  BY <1>1 DEF HeldShape, Using
<1>6. /\ th[t].at \in {"fd", "file", "afd", "afile", "kwait", "kuse"} =>
           sock[New1(t)] # "open"
      /\ th[t].at \in {"pair", "file1"} =>
           sock[New1(t)] # "open" /\ sock[New2(t)] # "open"
      /\ th[t].at = "file2" => sock[New1(t)] = "open" /\ sock[New2(t)] # "open"
      /\ th[t].at = "await" => sock[New1(t)] = "open"
  BY <1>1, <1>4 DEF SockShape, New1, New2
<1>7. th[t].at \in {"fd1", "fd2", "show", "steps"} =>
        Files(t) = th[t].held /\ Inodes(t) = {}
  BY <1>3 DEF Files, Inodes
<1>8. th[t].at \in {"fd", "file", "afd", "afile", "kwait", "kuse"} =>
        Files(t) = th[t].held /\ Inodes(t) = {New1(t)}
  BY <1>4, <1>6 DEF Files, Inodes
<1>9. th[t].at \in {"pair", "file1"} =>
        Files(t) = th[t].held /\ Inodes(t) = {New1(t), New2(t)}
  BY <1>4, <1>6 DEF Files, Inodes
<1>10. th[t].at = "file2" =>
         Files(t) = th[t].held \union {New1(t)} /\ Inodes(t) = {New2(t)}
  BY <1>4, <1>6 DEF Files, Inodes
<1>11. th[t].at = "await" =>
         Files(t) = th[t].held \union {New1(t)} /\ Inodes(t) = {}
  BY <1>4, <1>6 DEF Files, Inodes
<1> QED
  BY <1>2, <1>5, <1>7, <1>8, <1>9, <1>10, <1>11

(* A task that has nothing new and no number is on a descriptor, or idle. *)
LEMMA EmptyHanded ==
  ASSUME Inv, NEW t \in Threads,
         th'[t].new = <<>>, th'[t].fds = <<>>,
         \/ th'[t].at = "user" /\ th'[t].held = {}
         \/ th'[t].at = "steps" /\ th'[t].held # {}
  PROVE  Shape(t)'
<1>1. Len(th'[t].new) = 0 /\ Len(th'[t].fds) = 0
  OBVIOUS
<1>2. SizeShape(t)'
  BY <1>1 DEF SizeShape, Creating, None, One, Two
<1>3. FdShape(t)'
  BY <1>1 DEF FdShape, Creating
<1>4. SockShape(t)'
  BY DEF SockShape
<1>5. HeldShape(t)'
  BY DEF HeldShape, Using
<1> QED
  BY <1>2, <1>3, <1>4, <1>5 DEF Shape

Fielded(r) == DOMAIN r = {"at", "call", "rest", "held", "new", "fds"}

LEMMA IdleFields ==
  /\ DOMAIN Idle = {"at", "call", "rest", "held", "new", "fds"}
  /\ Idle.new = <<>> /\ Idle.fds = <<>> /\ Idle.at = "user" /\ Idle.held = {}
  BY DEF Idle

Installs(t, r) ==
  /\ fdt' = [fdt EXCEPT ![th[t].fds[1]] = New1(t)]
  /\ th' = [th EXCEPT ![t] = r]
  /\ UNCHANGED <<refs, sock, mod, hook>>

EndsAs(t, r) ==
  /\ Fielded(r)
  /\ r.new = <<>> /\ r.fds = <<>>
  /\ \/ th[t].at # "await" /\ r.at = "user" /\ r.held = {}
     \/ th[t].at = "await" /\ r.at = "steps" /\ r.held = th[t].held

(* fd_install of a file that was the only thing in hand. *)
LEMMA InstallInv ==
  ASSUME Inv, NEW t \in Threads, NEW r,
         th[t].at \in {"install", "install2", "await"},
         Installs(t, r), EndsAs(t, r)
  PROVE  Inv' /\ FdRule
<1> USE DEF Installs, EndsAs
<1>1. /\ Moves(t) /\ th'[t].held = th[t].held
      /\ th'[t].new = <<>> /\ th'[t].fds = <<>>
      /\ th'[t].at = IF th[t].at = "await" THEN "steps" ELSE "user"
  <2>1. th[t].at # "await" => th[t].held = {}
    BY InvAt DEF Shape, HeldShape, Using
  <2> QED
    BY <2>1 DEF Inv, Ledger, Typed, Moves, Fielded
<1>2. Len(th[t].new) = 1 /\ Len(th[t].fds) = 1
  BY InvAt DEF Shape, SizeShape, FdShape, One
<1>3. /\ NewOf(t) = {New1(t)} /\ DOMAIN th[t].new = {1}
      /\ Reserved(t) = {th[t].fds[1]}
  BY <1>2, InvAt, ToSetShort DEF NewOf, Reserved, New1
<1>4. sock[New1(t)] = "open"
  BY <1>3, InvAt DEF Shape, SockShape, New1
<1>5. PICK s, d : s = New1(t) /\ d = th[t].fds[1]
  OBVIOUS
<1>6. NewOf(t)' = {} /\ Reserved(t)' = {}
  BY <1>1 DEF NewOf, Reserved, ToSet
<1>7. Ledger' /\ Kept(t) /\ FdRule /\ Owned' = Owned
  <2>1. NewOf(t)' = NewOf(t) \ {s} /\ Reserved(t)' = Reserved(t) \ {d}
    BY <1>3, <1>5, <1>6
  <2>2. th'[t].new \in Seq(Socks) /\ th'[t].fds \in Seq(Fds)
    BY <1>1, NoneSeq
  <2>3. s \in NewOf(t) /\ sock[s] = "open" /\ d \in Reserved(t)
        /\ fdt' = [fdt EXCEPT ![d] = s]
    BY <1>3, <1>4, <1>5
  <2> QED
    BY <1>1, <2>1, <2>2, <2>3, InstallStep DEF Inv
<1>8. Shape(t)'
  <2>1. th[t].held # {} <=> th[t].at = "await"
    BY InvAt DEF Shape, HeldShape, Using
  <2> QED
    BY <1>1, <2>1, EmptyHanded
<1> QED
  BY <1>1, <1>7, <1>8, PlainStep

LEMMA SockMapFdInv ==
  ASSUME Inv, NEW t \in Threads, sock_map_fd(t)
  PROVE  Inv' /\ FdRule
<1>1. CASE At(t, "fd") /\ TakeFd(t, "file")
  BY <1>1, TakeFdInv DEF At
<1>2. CASE At(t, "fd") /\ Return(t, {}, {New1(t)}, {})
  BY <1>2, ReturnInv, HandAt DEF At
<1>3. CASE At(t, "file") /\ sock_alloc_file(t, New1(t), "install")
  BY <1>3, AllocFileInv DEF At
<1>4. CASE At(t, "file") /\ Return(t, {}, {New1(t)}, Reserved(t))
  BY <1>4, ReturnInv, HandAt DEF At
<1>5. CASE /\ At(t, "install")
           /\ fdt' = [fdt EXCEPT ![th[t].fds[1]] = New1(t)]
           /\ th' = [th EXCEPT ![t] = Idle]
           /\ UNCHANGED <<refs, sock, mod, hook>>
  <2>1. PICK r : r = Idle
    OBVIOUS
  <2>2. /\ th[t].at \in {"install", "install2", "await"} /\ th[t].at # "await"
        /\ Installs(t, r)
    BY <1>5, <2>1 DEF At, Installs
  <2>3. EndsAs(t, r)
    BY <2>1, <2>2, IdleFields DEF EndsAs, Fielded
  <2> QED
    BY <2>2, <2>3, InstallInv
<1> QED
  BY <1>1, <1>2, <1>3, <1>4, <1>5 DEF sock_map_fd

LEMMA SocketpairFdsInv ==
  ASSUME Inv, NEW t \in Threads, SocketpairFds(t)
  PROVE  Inv' /\ FdRule
<1>1. CASE /\ At(t, "user")
           /\ th' = [th EXCEPT ![t].call = "socketpair", ![t].at = "fd1"]
           /\ UNCHANGED <<fdt, refs, sock, mod, hook>>
  BY <1>1, EnterInv DEF At
<1>2. CASE At(t, "fd1") /\ TakeFd(t, "fd2")
  BY <1>2, TakeFdInv DEF At
<1>3. CASE At(t, "fd1") /\ Return(t, {}, {}, {})
  BY <1>3, ReturnInv, HandAt DEF At
<1>4. CASE At(t, "fd2") /\ TakeFd(t, "show")
  BY <1>4, TakeFdInv DEF At
<1>5. CASE At(t, "fd2") /\ Return(t, {}, {}, Reserved(t))
  BY <1>5, ReturnInv, HandAt DEF At
<1>6. CASE At(t, "show") /\ Return(t, {}, {}, Reserved(t))
  BY <1>6, ReturnInv, HandAt DEF At
<1>7. CASE /\ At(t, "show") /\ Go(t, "create")
           /\ UNCHANGED <<fdt, refs, sock, mod, hook>>
  BY <1>7, GoInv DEF At
<1> QED
  BY <1>1, <1>2, <1>3, <1>4, <1>5, <1>6, <1>7 DEF SocketpairFds

(* The first of the two fd_install calls of socketpair. *)
LEMMA FirstInstallInv ==
  ASSUME Inv, NEW t \in Threads, th[t].at = "install1", NEW q, NEW p,
         fdt' = [fdt EXCEPT ![th[t].fds[1]] = New1(t)],
         th' = [th EXCEPT ![t].new = q, ![t].at = "install2", ![t].fds = p],
         ASSUME New2(t) \in Socks, th[t].fds[2] \in Fds
         PROVE  /\ q \in Seq(Socks) /\ Len(q) = 1 /\ DOMAIN q = {1}
                /\ q[1] = New2(t) /\ ToSet(q) = {New2(t)}
                /\ p \in Seq(Fds) /\ Len(p) = 1 /\ ToSet(p) = {th[t].fds[2]},
         UNCHANGED <<refs, sock, mod, hook>>
  PROVE  Inv' /\ FdRule
<1>1. PICK s, x, d, e : /\ s = th[t].new[1] /\ x = th[t].new[2]
                        /\ d = th[t].fds[1] /\ e = th[t].fds[2]
  OBVIOUS
<1>2. /\ Moves(t)
      /\ th'[t].at = "install2" /\ th'[t].call = th[t].call
      /\ th'[t].held = th[t].held
      /\ th'[t].new = q /\ th'[t].fds = p
  BY <1>1 DEF Inv, Ledger, Typed, Moves
<1>3. Len(th[t].new) = 2 /\ Len(th[t].fds) = 2 /\ s # x /\ d # e
  BY <1>1, InvAt DEF Shape, SizeShape, FdShape, Two
<1>4. /\ NewOf(t) = {s, x} /\ DOMAIN th[t].new = {1, 2}
      /\ Reserved(t) = {d, e} /\ x \in Socks /\ e \in Fds
  BY <1>1, <1>3, InvAt, ToSetShort DEF NewOf, Reserved
<1>5. sock[s] = "open" /\ sock[x] = "open"
  BY <1>1, <1>4, InvAt DEF Shape, SockShape
<1>9. /\ q \in Seq(Socks) /\ Len(q) = 1 /\ DOMAIN q = {1}
      /\ q[1] = x /\ ToSet(q) = {x}
      /\ p \in Seq(Fds) /\ Len(p) = 1 /\ ToSet(p) = {e}
  BY <1>1, <1>4 DEF New2
<1>6. NewOf(t)' = {x} /\ Reserved(t)' = {e}
  BY <1>2, <1>9 DEF NewOf, Reserved
<1>7. Ledger' /\ Kept(t) /\ FdRule /\ Owned' = Owned
  <2>1. NewOf(t)' = NewOf(t) \ {s} /\ Reserved(t)' = Reserved(t) \ {d}
    BY <1>3, <1>4, <1>6
  <2>2. th'[t].new \in Seq(Socks) /\ th'[t].fds \in Seq(Fds)
    BY <1>2, <1>9
  <2>3. s \in NewOf(t) /\ d \in Reserved(t) /\ fdt' = [fdt EXCEPT ![d] = s]
    BY <1>1, <1>4 DEF New1
  <2> QED
    BY <1>2, <1>5, <2>1, <2>2, <2>3, InstallStep DEF Inv
<1>8. Shape(t)'
  <2>1. /\ Len(th'[t].new) = 1 /\ Len(th'[t].fds) = 1
        /\ DOMAIN th'[t].new = {1} /\ th'[t].new[1] = x
    BY <1>2, <1>9
  <2>2. SizeShape(t)'
    BY <1>2, <2>1 DEF SizeShape, Creating, None, One, Two
  <2>3. FdShape(t)'
    BY <1>2, <2>1 DEF FdShape, Creating
  <2>4. SockShape(t)'
    BY <1>2, <1>5, <2>1 DEF SockShape
  <2>5. HeldShape(t)'
    BY <1>2, InvAt DEF Shape, HeldShape, Using
  <2> QED
    BY <2>2, <2>3, <2>4, <2>5 DEF Shape
<1> QED
  BY <1>2, <1>7, <1>8, PlainStep

LEMMA SocketpairFilesInv ==
  ASSUME Inv, NEW t \in Threads, SocketpairFiles(t)
  PROVE  Inv' /\ FdRule
<1>1. CASE At(t, "pair") /\ Return(t, {}, {New1(t), New2(t)}, Reserved(t))
  BY <1>1, ReturnInv, HandAt DEF At
<1>2. CASE /\ At(t, "pair") /\ Go(t, "file1")
           /\ UNCHANGED <<fdt, refs, sock, mod, hook>>
  BY <1>2, GoInv DEF At
<1>3. CASE At(t, "file1") /\ sock_alloc_file(t, New1(t), "file2")
  BY <1>3, AllocFileInv DEF At
<1>4. CASE At(t, "file1") /\ Return(t, {}, {New1(t), New2(t)}, Reserved(t))
  BY <1>4, ReturnInv, HandAt DEF At
<1>5. CASE At(t, "file2") /\ sock_alloc_file(t, New2(t), "install1")
  BY <1>5, AllocFileInv DEF At
<1>6. CASE At(t, "file2") /\ Return(t, {New1(t)}, {New2(t)}, Reserved(t))
  BY <1>6, ReturnInv, HandAt DEF At
<1>7. CASE /\ At(t, "install1")
           /\ fdt' = [fdt EXCEPT ![th[t].fds[1]] = New1(t)]
           /\ th' = [th EXCEPT ![t].new = <<New2(t)>>, ![t].at = "install2",
                               ![t].fds = <<th[t].fds[2]>>]
           /\ UNCHANGED <<refs, sock, mod, hook>>
  <2>1. PICK q, p : q = <<New2(t)>> /\ p = <<th[t].fds[2]>>
    OBVIOUS
  <2>2. ASSUME New2(t) \in Socks, th[t].fds[2] \in Fds
        PROVE  /\ q \in Seq(Socks) /\ Len(q) = 1 /\ DOMAIN q = {1}
               /\ q[1] = New2(t) /\ ToSet(q) = {New2(t)}
               /\ p \in Seq(Fds) /\ Len(p) = 1 /\ ToSet(p) = {th[t].fds[2]}
    BY <2>1, <2>2, OneSeq
  <2>3. /\ th[t].at = "install1"
        /\ fdt' = [fdt EXCEPT ![th[t].fds[1]] = New1(t)]
        /\ th' = [th EXCEPT ![t].new = q, ![t].at = "install2", ![t].fds = p]
        /\ UNCHANGED <<refs, sock, mod, hook>>
    BY <1>7, <2>1 DEF At
  <2> QED
    BY <2>2, <2>3, FirstInstallInv
<1>8. CASE /\ At(t, "install2")
           /\ fdt' = [fdt EXCEPT ![th[t].fds[1]] = New1(t)]
           /\ th' = [th EXCEPT ![t] = Idle]
           /\ UNCHANGED <<refs, sock, mod, hook>>
  <2>1. PICK r : r = Idle
    OBVIOUS
  <2>2. /\ th[t].at \in {"install", "install2", "await"} /\ th[t].at # "await"
        /\ Installs(t, r)
    BY <1>8, <2>1 DEF At, Installs
  <2>3. EndsAs(t, r)
    BY <2>1, <2>2, IdleFields DEF EndsAs, Fielded
  <2> QED
    BY <2>2, <2>3, InstallInv
<1> QED
  BY <1>1, <1>2, <1>3, <1>4, <1>5, <1>6, <1>7, <1>8 DEF SocketpairFiles

(* Calls on a descriptor. *)

LEMMA IdleHand ==
  ASSUME Inv, NEW t \in Threads, th[t].at \in {"user", "steps"}
  PROVE  /\ th[t].new = <<>> /\ th[t].fds = <<>>
         /\ th[t].at = "user" => th[t].held = {}
         /\ th[t].at = "steps" => th[t].held # {}
<1>1. Len(th[t].new) = 0 /\ Len(th[t].fds) = 0
  BY InvAt DEF Shape, SizeShape, FdShape, None
<1>2. th[t].new = <<>> /\ th[t].fds = <<>>
  BY <1>1, InvAt, EmptySeq
<1>3. th[t].held # {} <=> th[t].at = "steps"
  BY InvAt DEF Shape, HeldShape, Using
<1> QED
  BY <1>2, <1>3

LEMMA LookupInv ==
  ASSUME Inv, NEW t \in Threads, sockfd_lookup(t)
  PROVE  Inv' /\ FdRule
<1>1. th[t].at = "user" /\ UNCHANGED <<fdt, sock, mod, hook>>
  BY DEF sockfd_lookup, At
<1>2. PICK d \in Fds, p \in UNION {socketcall, socket_file_ops, kernel_calls} :
        /\ fdt[d] \in Socks
        /\ refs' = [refs EXCEPT ![fdt[d]] = @ + 1]
        /\ th' = [th EXCEPT ![t].at = "steps", ![t].rest = p,
                            ![t].held = {fdt[d]}]
  BY DEF sockfd_lookup
<1>3. /\ Moves(t) /\ th'[t].at = "steps" /\ th'[t].held = {fdt[d]}
      /\ th'[t].new = th[t].new /\ th'[t].fds = th[t].fds
  BY <1>2 DEF Inv, Ledger, Typed, Moves
<1>4. /\ th[t].new = <<>> /\ th[t].fds = <<>> /\ th[t].held = {}
  BY <1>1, IdleHand
<1>5. Ledger' /\ Kept(t) /\ FdRule /\ Owned' = Owned
  BY <1>1, <1>2, <1>3, <1>4, LookupStep DEF Inv
<1>6. Shape(t)'
  BY <1>3, <1>4, EmptyHanded
<1> QED
  BY <1>1, <1>3, <1>5, <1>6, PlainStep

LEMMA CloseInv ==
  ASSUME Inv, NEW t \in Threads, sock_close(t)
  PROVE  Inv' /\ FdRule
<1>1. th[t].at = "user" /\ UNCHANGED <<refs, sock, mod, hook>>
  BY DEF sock_close, At
<1>2. PICK d \in Fds :
        /\ fdt[d] \in Socks
        /\ fdt' = [fdt EXCEPT ![d] = Free]
        /\ th' = [th EXCEPT ![t].at = "steps", ![t].held = {fdt[d]}]
  BY DEF sock_close
<1>3. /\ Moves(t) /\ th'[t].at = "steps" /\ th'[t].held = {fdt[d]}
      /\ th'[t].new = th[t].new /\ th'[t].fds = th[t].fds
  BY <1>2 DEF Inv, Ledger, Typed, Moves
<1>4. /\ th[t].new = <<>> /\ th[t].fds = <<>> /\ th[t].held = {}
  BY <1>1, IdleHand
<1>5. Ledger' /\ Kept(t) /\ FdRule /\ Owned' = Owned
  BY <1>1, <1>2, <1>3, <1>4, CloseStep DEF Inv
<1>6. Shape(t)'
  BY <1>3, <1>4, EmptyHanded
<1> QED
  BY <1>1, <1>3, <1>5, <1>6, PlainStep

LEMMA FdStepInv ==
  ASSUME Inv, NEW t \in Threads, FdStep(t)
  PROVE  Inv' /\ FdRule
<1>1. th[t].at = "steps" /\ UNCHANGED <<fdt, refs, sock, mod, hook>>
  BY DEF FdStep, At
<1>2. PICK p : th' = [th EXCEPT ![t].rest = p]
  BY DEF FdStep
<1>3. /\ Moves(t) /\ th'[t].at = "steps" /\ th'[t].held = th[t].held
      /\ th'[t].new = th[t].new /\ th'[t].fds = th[t].fds
  BY <1>1, <1>2 DEF Inv, Ledger, Typed, Moves
<1>4. /\ th[t].new = <<>> /\ th[t].fds = <<>> /\ th[t].held # {}
  BY <1>1, IdleHand
<1>5. Ledger' /\ Kept(t) /\ FdRule /\ Owned' = Owned
  BY <1>1, <1>3, QuietStep DEF Inv
<1>6. Shape(t)'
  BY <1>3, <1>4, EmptyHanded
<1> QED
  BY <1>1, <1>3, <1>5, <1>6, PlainStep

LEMMA StepsEnd ==
  ASSUME Inv, NEW t \in Threads, th[t].at = "steps",
         Return(t, th[t].held, {}, {})
  PROVE  Inv' /\ FdRule
  BY ReturnInv, HandAt DEF At

(* accept() and kernel_accept(). *)

(* A socket that gets the protocol's ops while the task holds one that has *)
(* them: the module is there, and one more reference is counted.           *)
LEMMA OneMoreOwned ==
  ASSUME Inv, NEW t \in Threads, NEW s, Moves(t), th[t].held # {},
         th[t].at # "init", th'[t].at \notin {"init", "pf"},
         Owned' = Owned \union {s}, s \notin Owned,
         mod' = [mod EXCEPT !.refs = @ + 1]
  PROVE  ModuleInv'
<1>1. Creators' = Creators
  BY CreatorsMove DEF Creators, At
<1>2. /\ Cardinality(Creators) \in Nat /\ Cardinality(Owned) \in Nat
      /\ IsFiniteSet(Owned) /\ ModuleInv
  BY FiniteViews DEF Inv
<1>3. Cardinality(Owned') = Cardinality(Owned) + 1
  BY <1>2, FS_AddElement
<1>4. mod.st = "live"
  <2>1. PICK x \in th[t].held : x \in Socks /\ sock[x] = "open"
    BY InvAt DEF Ledger, Named
  <2>2. x \in Owned
    BY <2>1 DEF Owned, Owns
  <2> QED
    BY <1>2, <2>2 DEF ModuleInv
<1>5. /\ mod'.refs = mod.refs + 1 /\ mod'.st = "live" /\ mod'.reg = mod.reg
      /\ mod' \in [st : {"out", "live", "going"}, refs : Int, reg : BOOLEAN]
  BY <1>2, <1>4 DEF ModuleInv
<1>6. mod'.refs = Cardinality(Owned') + Cardinality(Creators')
  BY <1>1, <1>2, <1>3, <1>5 DEF ModuleInv
<1> QED
  BY <1>5, <1>6 DEF ModuleInv

LEMMA AcceptAllocInv ==
  ASSUME Inv, NEW t \in Threads, AcceptAlloc(t)
  PROVE  Inv' /\ FdRule
<1>1. th[t].at = "steps"
  BY DEF AcceptAlloc, At
<1>2. CASE Return(t, th[t].held, {}, {})
  BY <1>1, <1>2, StepsEnd
<1>3. ASSUME NEW s \in Socks,
             sock_alloc(s, "ops"),
             mod' = [mod EXCEPT !.refs = @ + 1],
             th' = [th EXCEPT ![t].new = <<s>>, ![t].at = "afd"],
             UNCHANGED <<fdt, refs, hook>>
      PROVE  Inv' /\ FdRule
  <2>1. /\ sock[s] = "none" /\ sock' = [sock EXCEPT ![s] = "ops"]
    BY <1>3 DEF sock_alloc, sock_alloc_inode
  <2>2. PICK q : q = <<s>>
    OBVIOUS
  <2>3. th' = [th EXCEPT ![t].new = q, ![t].at = "afd"]
    BY <1>3, <2>2
  <2>4. q = Append(th[t].new, s) /\ Len(q) = 1 /\ q[1] = s /\ DOMAIN q = {1}
    <3>1. Len(th[t].new) = 0
      BY <1>1, InvAt DEF Shape, SizeShape, None
    <3> QED
      BY <2>2, <3>1, InvAt, AppendToNone, OneSeq
  <2>5. /\ Moves(t)
        /\ th'[t].at = "afd" /\ th'[t].call = th[t].call
        /\ th'[t].held = th[t].held /\ th'[t].fds = th[t].fds
        /\ th'[t].new = q
    BY <2>3 DEF Inv, Ledger, Typed, Moves
  <2>6. /\ Ledger' /\ Kept(t) /\ FdRule
        /\ Owned' = Owned \union {s} /\ s \notin Owned
    BY <1>3, <2>1, <2>4, <2>5, AllocStep DEF Inv
  <2>7. sock'[s] = "ops"
    BY <2>1 DEF Inv, Ledger, Typed
  <2>8. Shape(t)'
    <3>1. SizeShape(t)'
      BY <2>4, <2>5 DEF SizeShape, Creating, None, One, Two
    <3>2. FdShape(t)'
      BY <1>1, <2>5, InvAt DEF Shape, FdShape, Creating
    <3>3. SockShape(t)'
      BY <2>4, <2>5, <2>7 DEF SockShape
    <3>4. HeldShape(t)'
      BY <1>1, <2>5, InvAt DEF Shape, HeldShape, Using
    <3> QED
      BY <3>1, <3>2, <3>3, <3>4 DEF Shape
  <2>9. Shapes'
    BY <2>5, <2>6, <2>8, OtherShapes DEF Shapes
  <2>10. ModuleInv'
    BY <1>1, <1>3, <2>5, <2>6, IdleHand, OneMoreOwned
  <2>11. HookInv'
    BY <1>3, <2>5 DEF Inv, HookInv, At, Moves
  <2> QED
    BY <2>6, <2>9, <2>10, <2>11 DEF Inv
<1> QED
  BY <1>2, <1>3 DEF AcceptAlloc

LEMMA AcceptFileInv ==
  ASSUME Inv, NEW t \in Threads, AcceptFile(t)
  PROVE  Inv' /\ FdRule
<1>1. CASE At(t, "afd") /\ TakeFd(t, "afile")
  BY <1>1, TakeFdInv DEF At
<1>2. CASE At(t, "afd") /\ Return(t, th[t].held, {New1(t)}, {})
  BY <1>2, ReturnInv, HandAt DEF At
<1>3. CASE At(t, "afile") /\ sock_alloc_file(t, New1(t), "await")
  BY <1>3, AllocFileInv DEF At
<1>4. CASE At(t, "afile") /\ Return(t, th[t].held, {New1(t)}, Reserved(t))
  BY <1>4, ReturnInv, HandAt DEF At
<1> QED
  BY <1>1, <1>2, <1>3, <1>4 DEF AcceptFile

LEMMA AcceptWaitInv ==
  ASSUME Inv, NEW t \in Threads, AcceptWait(t)
  PROVE  Inv' /\ FdRule
<1>1. th[t].at = "await"
  BY DEF AcceptWait, At
<1>2. CASE Return(t, th[t].held \union {New1(t)}, {}, Reserved(t))
  BY <1>1, <1>2, ReturnInv, HandAt DEF At
<1>3. CASE /\ fdt' = [fdt EXCEPT ![th[t].fds[1]] = New1(t)]
           /\ th' = [th EXCEPT ![t] = [Idle EXCEPT !.at = "steps",
                                                   !.held = th[t].held]]
           /\ UNCHANGED <<refs, sock, mod, hook>>
  <2>1. PICK r : r = [Idle EXCEPT !.at = "steps", !.held = th[t].held]
    OBVIOUS
  <2>2. th[t].at \in {"install", "install2", "await"} /\ Installs(t, r)
    BY <1>1, <1>3, <2>1 DEF Installs
  <2>3. EndsAs(t, r)
    BY <1>1, <2>1, IdleFields DEF EndsAs, Fielded
  <2> QED
    BY <2>2, <2>3, InstallInv
<1> QED
  BY <1>2, <1>3 DEF AcceptWait

LEMMA CreateLiteInv ==
  ASSUME Inv, NEW t \in Threads, sock_create_lite(t)
  PROVE  Inv' /\ FdRule
<1>1. th[t].at = "steps"
  BY DEF sock_create_lite, At
<1>2. CASE Return(t, th[t].held, {}, {})
  BY <1>1, <1>2, StepsEnd
<1>3. ASSUME NEW s \in Socks,
             sock_alloc(s, "bare"),
             th' = [th EXCEPT ![t].new = <<s>>, ![t].at = "kwait"],
             UNCHANGED <<fdt, refs, mod, hook>>
      PROVE  Inv' /\ FdRule
  BY <1>1, <1>3, AllocBareInv
<1> QED
  BY <1>2, <1>3 DEF sock_create_lite

LEMMA KernelAcceptInv ==
  ASSUME Inv, NEW t \in Threads, kernel_accept(t)
  PROVE  Inv' /\ FdRule
<1>1. CASE At(t, "kwait") /\ Return(t, th[t].held, {New1(t)}, {})
  BY <1>1, ReturnInv, HandAt DEF At
<1>2. CASE At(t, "kuse") /\ Return(t, th[t].held, {New1(t)}, {})
  BY <1>2, ReturnInv, HandAt DEF At
<1>3. CASE /\ At(t, "kwait")
           /\ sock' = [sock EXCEPT ![New1(t)] = "ops"]
           /\ mod' = [mod EXCEPT !.refs = @ + 1]
           /\ Go(t, "kuse")
           /\ UNCHANGED <<fdt, refs, hook>>
  <2>1. PICK s : s = New1(t)
    OBVIOUS
  <2>2. /\ Moves(t)
        /\ th'[t].at = "kuse" /\ th'[t].call = th[t].call
        /\ th'[t].held = th[t].held /\ th'[t].new = th[t].new
        /\ th'[t].fds = th[t].fds
    BY <1>3 DEF Inv, Ledger, Typed, Moves, Go
  <2>3. th[t].at = "kwait"
    BY <1>3 DEF At
  <2>4. Len(th[t].new) = 1
    BY <2>3, InvAt DEF Shape, SizeShape, One
  <2>5. NewOf(t) = {s} /\ DOMAIN th[t].new = {1} /\ th[t].new[1] = s
    BY <2>1, <2>4, InvAt, ToSetShort DEF NewOf, New1
  <2>6. sock[s] = "bare"
    BY <2>3, <2>5, InvAt DEF Shape, SockShape
  <2>7. /\ Ledger' /\ Kept(t) /\ FdRule /\ s \in Socks
        /\ Owned' = Owned \union {s} /\ s \notin Owned
    BY <1>3, <2>1, <2>2, <2>5, <2>6, SetOpsStep DEF Inv
  <2>8. sock'[s] = "ops"
    BY <1>3, <2>1, <2>7 DEF Inv, Ledger, Typed
  <2>9. Shape(t)'
    <3>1. SizeShape(t)'
      BY <2>2, <2>3, InvAt DEF Shape, SizeShape, Creating, None, One, Two
    <3>2. FdShape(t)'
      BY <2>2, <2>3, InvAt DEF Shape, FdShape, Creating
    <3>3. SockShape(t)'
      BY <2>2, <2>5, <2>8 DEF SockShape
    <3>4. HeldShape(t)'
      BY <2>2, <2>3, InvAt DEF Shape, HeldShape, Using
    <3> QED
      BY <3>1, <3>2, <3>3, <3>4 DEF Shape
  <2>10. Shapes'
    BY <2>2, <2>7, <2>9, OtherShapes DEF Shapes
  <2>11. th[t].held # {}
    BY <2>3, InvAt DEF Shape, HeldShape, Using
  <2>12. ModuleInv'
    BY <1>3, <2>2, <2>3, <2>7, <2>11, OneMoreOwned
  <2>13. HookInv'
    BY <1>3, <2>2 DEF Inv, HookInv, At, Moves
  <2> QED
    BY <2>7, <2>10, <2>12, <2>13 DEF Inv
<1> QED
  BY <1>1, <1>2, <1>3 DEF kernel_accept

(* The ioctl hooks. *)

(* A task moves on in sock_ioctl with what it has in hand. *)
LEMMA IoctlMove ==
  ASSUME Inv, NEW t \in Threads, Moves(t), UNCHANGED <<fdt, refs, sock, mod>>,
         th[t].at \in {"steps", "hlock", "hcall", "hdone"},
         th'[t].at \in {"steps", "hlock", "hcall", "hdone"},
         th'[t].held = th[t].held, th'[t].new = th[t].new,
         th'[t].fds = th[t].fds, HookInv'
  PROVE  Inv' /\ FdRule
<1>1. Ledger' /\ Kept(t) /\ FdRule /\ Owned' = Owned
  BY QuietStep DEF Inv
<1>2. /\ Len(th[t].new) = 0 /\ Len(th[t].fds) = 0 /\ th[t].held # {}
  BY InvAt DEF Shape, SizeShape, FdShape, HeldShape, None, Using
<1>3. Shape(t)'
  <2>1. SizeShape(t)'
    BY <1>2 DEF SizeShape, Creating, None, One, Two
  <2>2. FdShape(t)'
    BY <1>2 DEF FdShape, Creating
  <2>3. SockShape(t)'
    BY DEF SockShape
  <2>4. HeldShape(t)'
    BY <1>2 DEF HeldShape, Using
  <2> QED
    BY <2>1, <2>2, <2>3, <2>4 DEF Shape
<1>4. Shapes'
  BY <1>1, <1>3, OtherShapes DEF Shapes
<1>5. Creators' = Creators
  BY CreatorsMove DEF Creators, At
<1>6. ModuleInv'
  BY <1>1, <1>5 DEF Inv, ModuleInv, At, Moves
<1> QED
  BY <1>1, <1>4, <1>6 DEF Inv

LEMMA HookTestInv ==
  ASSUME Inv, NEW t \in Threads, HookTest(t)
  PROVE  Inv' /\ FdRule
<1>1. /\ th[t].at = "steps" /\ UNCHANGED <<fdt, refs, sock, mod>>
      /\ Go(t, "hlock")
  BY DEF HookTest, At
<1>2. /\ Moves(t) /\ th'[t].at = "hlock" /\ th'[t].held = th[t].held
      /\ th'[t].new = th[t].new /\ th'[t].fds = th[t].fds
  BY <1>1 DEF Inv, Ledger, Typed, Moves, Go
<1>3. HookInv
  BY DEF Inv
<1>4. CASE UNCHANGED hook
  <2>1. HookInv'
    BY <1>2, <1>3, <1>4 DEF HookInv, At, Moves
  <2> QED
    BY <1>1, <1>2, <2>1, IoctlMove
<1>5. CASE hook.st = "out" /\ ioctl_set(TRUE, "live")
  <2>1. hook.mutex = {} /\ hook' = [hook EXCEPT !.set = TRUE, !.st = "live"]
    BY <1>5 DEF ioctl_set
  <2>2. /\ hook'.set = TRUE /\ hook'.st = "live" /\ hook'.mutex = hook.mutex
        /\ hook' \in [st : {"out", "live", "going"}, set : BOOLEAN,
                      mutex : SUBSET Threads]
    BY <1>3, <2>1 DEF HookInv
  <2>3. \A u \in Threads : th[u].at \notin {"hcall", "hdone"}
    BY <1>3, <2>1 DEF HookInv
  <2>4. \A u \in Threads : th'[u].at \notin {"hcall", "hdone"}
    BY <1>2, <2>3 DEF Moves
  <2>5. HookInv'
    BY <2>2, <2>4 DEF HookInv, At
  <2> QED
    BY <1>1, <1>2, <2>5, IoctlMove
<1> QED
  BY <1>4, <1>5 DEF HookTest

LEMMA HookCallInv ==
  ASSUME Inv, NEW t \in Threads, HookCall(t)
  PROVE  Inv' /\ FdRule
<1>0. /\ HookInv /\ UNCHANGED <<fdt, refs, sock, mod>>
  BY DEF Inv, HookCall
<1>1. CASE /\ At(t, "hlock")
           /\ hook.mutex = {}
           /\ hook' = [hook EXCEPT !.mutex = {t}]
           /\ Go(t, IF hook.set THEN "hcall" ELSE "hdone")
  <2>1. /\ Moves(t) /\ th'[t].at = IF hook.set THEN "hcall" ELSE "hdone"
        /\ th'[t].held = th[t].held
        /\ th'[t].new = th[t].new /\ th'[t].fds = th[t].fds
    BY <1>1 DEF Inv, Ledger, Typed, Moves, Go
  <2>2. /\ hook'.set = hook.set /\ hook'.st = hook.st /\ hook'.mutex = {t}
        /\ hook' \in [st : {"out", "live", "going"}, set : BOOLEAN,
                      mutex : SUBSET Threads]
    BY <1>0, <1>1 DEF HookInv
  <2>3. \A u \in Threads : th[u].at \notin {"hcall", "hdone"}
    BY <1>0, <1>1 DEF HookInv
  <2>4. \A u \in Threads : u # t => th'[u].at \notin {"hcall", "hdone"}
    BY <2>1, <2>3 DEF Moves
  <2>5. th'[t].at = "hcall" => hook.set
    BY <2>1
  <2>6. HookInv'
    BY <1>0, <2>2, <2>4, <2>5 DEF HookInv, At
  <2>7. th[t].at = "hlock" /\ th'[t].at \in {"steps", "hlock", "hcall", "hdone"}
    BY <1>1, <2>1 DEF At
  <2> QED
    BY <1>0, <2>1, <2>6, <2>7, IoctlMove
<1>2. CASE At(t, "hcall") /\ Go(t, "hdone") /\ UNCHANGED hook
  <2>1. /\ Moves(t) /\ th'[t].at = "hdone" /\ th[t].at = "hcall"
        /\ th'[t].held = th[t].held
        /\ th'[t].new = th[t].new /\ th'[t].fds = th[t].fds
    BY <1>2 DEF Inv, Ledger, Typed, Moves, Go, At
  <2>2. HookInv'
    BY <1>0, <1>2, <2>1 DEF HookInv, At, Moves
  <2> QED
    BY <1>0, <2>1, <2>2, IoctlMove
<1>3. CASE /\ At(t, "hdone")
           /\ hook' = [hook EXCEPT !.mutex = {}]
           /\ th' = [th EXCEPT ![t].at = "steps", ![t].rest = <<>>]
  <2>0. PICK p : th' = [th EXCEPT ![t].at = "steps", ![t].rest = p]
    BY <1>3
  <2>1. /\ Moves(t) /\ th'[t].at = "steps" /\ th[t].at = "hdone"
        /\ th'[t].held = th[t].held
        /\ th'[t].new = th[t].new /\ th'[t].fds = th[t].fds
    BY <1>3, <2>0 DEF Inv, Ledger, Typed, Moves, At
  <2>2. /\ hook'.set = hook.set /\ hook'.st = hook.st
        /\ hook' \in [st : {"out", "live", "going"}, set : BOOLEAN,
                      mutex : SUBSET Threads]
    BY <1>0, <1>3 DEF HookInv
  <2>3. \A u \in Threads : u # t => th[u].at \notin {"hcall", "hdone"}
    <3>1. hook.mutex = {t}
      BY <1>0, <2>1 DEF HookInv
    <3> QED
      BY <1>0, <3>1 DEF HookInv
  <2>4. \A u \in Threads : th'[u].at \notin {"hcall", "hdone"}
    BY <2>1, <2>3 DEF Moves
  <2>5. HookInv'
    BY <1>0, <2>2, <2>4 DEF HookInv, At
  <2> QED
    BY <1>0, <2>1, <2>5, IoctlMove
<1> QED
  BY <1>1, <1>2, <1>3 DEF HookCall

-----------------------------------------------------------------------------
(* The modules come and go. *)

(* A step that only a module takes. *)
LEMMA ModuleStep ==
  ASSUME Inv, UNCHANGED <<fdt, refs, sock, th>>, ModuleInv', HookInv'
  PROVE  Inv' /\ FdRule
<1>1. Typed' /\ Private' /\ Named'
  <2>1. Typed'
    BY DEF Inv, Ledger, Typed
  <2>2. Private'
    BY DEF Inv, Ledger, Private, NewOf, Reserved
  <2>3. Named'
    BY DEF Inv, Ledger, Named
  <2> QED
    BY <2>1, <2>2, <2>3
<1>2. Counted'
  BY DEF Inv, Ledger, Counted, Entries, Holders, Makers
<1>3. Shapes'
  BY DEF Inv, Shapes, Shape, SizeShape, FdShape, SockShape, HeldShape
<1>4. FdRule
  BY DEF FdRule
<1> QED
  BY <1>1, <1>2, <1>3, <1>4 DEF Inv, Ledger

LEMMA HookExitInv ==
  ASSUME Inv, HookExit \/ HookFree
  PROVE  Inv' /\ FdRule
<1>1. UNCHANGED <<fdt, refs, sock, mod, th>>
  BY DEF HookExit, HookFree
<1>2. ModuleInv'
  BY <1>1 DEF Inv, ModuleInv, Owned, Owns, Creators, At
<1>3. HookInv
  BY DEF Inv
<1>4. CASE HookExit
  <2>1. hook.mutex = {} /\ hook' = [hook EXCEPT !.set = FALSE, !.st = "going"]
    BY <1>4 DEF HookExit, ioctl_set
  <2>2. /\ hook'.set = FALSE /\ hook'.st = "going"
        /\ hook' \in [st : {"out", "live", "going"}, set : BOOLEAN,
                      mutex : SUBSET Threads]
    BY <1>3, <2>1 DEF HookInv
  <2>3. \A u \in Threads : th'[u].at \notin {"hcall", "hdone"}
    BY <1>1, <1>3, <2>1 DEF HookInv
  <2>4. HookInv'
    BY <2>2, <2>3 DEF HookInv, At
  <2> QED
    BY <1>1, <1>2, <2>4, ModuleStep
<1>5. CASE HookFree
  <2>1. hook.st = "going" /\ hook' = [hook EXCEPT !.st = "out"]
    BY <1>5 DEF HookFree
  <2>2. /\ hook'.set = hook.set /\ hook'.st = "out" /\ hook'.mutex = hook.mutex
        /\ hook' \in [st : {"out", "live", "going"}, set : BOOLEAN,
                      mutex : SUBSET Threads]
    BY <1>3, <2>1 DEF HookInv
  <2>3. HookInv'
    BY <1>1, <1>3, <2>1, <2>2 DEF HookInv, At
  <2> QED
    BY <1>1, <1>2, <2>3, ModuleStep
<1> QED
  BY <1>4, <1>5

LEMMA RemovalInv ==
  ASSUME Inv, ModuleStop \/ sock_unregister \/ ModuleFree
  PROVE  Inv' /\ FdRule
<1>1. UNCHANGED <<fdt, refs, sock, hook, th>>
  BY DEF ModuleStop, sock_unregister, ModuleFree
<1>2. HookInv'
  BY <1>1 DEF Inv, HookInv, At
<1>3. /\ ModuleInv /\ Owned' = Owned /\ Creators' = Creators
      /\ IsFiniteSet(Owned) /\ IsFiniteSet(Creators)
      /\ Cardinality(Owned) \in Nat /\ Cardinality(Creators) \in Nat
  BY <1>1, FiniteViews DEF Inv, Owned, Owns, Creators, At
<1>4. CASE ModuleStop
  <2>1. mod.st = "live" /\ mod.refs = 0 /\ mod' = [mod EXCEPT !.st = "going"]
    BY <1>4 DEF ModuleStop
  <2>2. /\ mod'.refs = mod.refs /\ mod'.st = "going" /\ mod'.reg = mod.reg
        /\ mod' \in [st : {"out", "live", "going"}, refs : Int, reg : BOOLEAN]
    BY <1>3, <2>1 DEF ModuleInv
  <2>3. Cardinality(Owned) = 0 /\ Cardinality(Creators) = 0
    BY <1>3, <2>1 DEF ModuleInv
  <2>4. Owned = {} /\ Creators = {}
    BY <1>3, <2>3, FS_EmptySet
  <2>5. ModuleInv'
    BY <1>1, <1>3, <2>2, <2>4 DEF ModuleInv, At
  <2> QED
    BY <1>1, <1>2, <2>5, ModuleStep
<1>5. CASE sock_unregister
  <2>1. mod.st = "going" /\ mod' = [mod EXCEPT !.reg = FALSE]
    BY <1>5 DEF sock_unregister
  <2>2. /\ mod'.refs = mod.refs /\ mod'.st = mod.st /\ mod'.reg = FALSE
        /\ mod' \in [st : {"out", "live", "going"}, refs : Int, reg : BOOLEAN]
    BY <1>3, <2>1 DEF ModuleInv
  <2>3. ModuleInv'
    BY <1>1, <1>3, <2>1, <2>2 DEF ModuleInv, At
  <2> QED
    BY <1>1, <1>2, <2>3, ModuleStep
<1>6. CASE ModuleFree
  <2>1. /\ mod.st = "going" /\ ~mod.reg /\ mod' = [mod EXCEPT !.st = "out"]
        /\ \A t \in Threads : ~At(t, "pf")
    BY <1>6 DEF ModuleFree, Synchronized
  <2>2. /\ mod'.refs = mod.refs /\ mod'.st = "out" /\ mod'.reg = mod.reg
        /\ mod' \in [st : {"out", "live", "going"}, refs : Int, reg : BOOLEAN]
    BY <1>3, <2>1 DEF ModuleInv
  <2>3. ModuleInv'
    BY <1>1, <1>3, <2>1, <2>2 DEF ModuleInv, At
  <2> QED
    BY <1>1, <1>2, <2>3, ModuleStep
<1> QED
  BY <1>4, <1>5, <1>6

-----------------------------------------------------------------------------
LEMMA InitInv ==
  ASSUME Init
  PROVE  Inv
<1>1. /\ fdt = [d \in Fds |-> IF d = Tty THEN Other ELSE Free]
      /\ refs = [s \in Socks |-> 0] /\ sock = [s \in Socks |-> "none"]
      /\ th = [t \in Threads |-> Idle]
      /\ mod = [st |-> "out", refs |-> 0, reg |-> FALSE]
      /\ hook = [st |-> "out", set |-> FALSE, mutex |-> {}]
  BY DEF Init
<1>2. \A t \in Threads :
        /\ DOMAIN th[t] = {"at", "call", "rest", "held", "new", "fds"}
        /\ th[t].at = "user" /\ th[t].held = {} /\ th[t].new = <<>>
        /\ th[t].fds = <<>>
  BY <1>1, IdleFields
<1>3. Typed
  <2>1. fdt \in [Fds -> Socks \union {Free, Taken, Other}]
    BY <1>1
  <2>2. /\ refs \in [Socks -> Int]
        /\ sock \in [Socks -> {"none", "bare", "ops", "open"}]
    BY <1>1
  <2>3. DOMAIN th = Threads
    BY <1>1
  <2> QED
    BY <1>2, <2>1, <2>2, <2>3, NoneSeq DEF Typed
<1>4. \A t \in Threads : NewOf(t) = {} /\ Reserved(t) = {}
  BY <1>2, NoneSeq DEF NewOf, Reserved
<1>5. \A d \in Fds : fdt[d] \notin Socks /\ fdt[d] # Taken
  BY <1>1, EntryKinds
<1>6. Private
  BY <1>1, <1>4, <1>5 DEF Private
<1>7. Named
  BY <1>2, <1>5 DEF Named
<1>8. \A s \in Socks : Entries(s) = {} /\ Holders(s) = {} /\ Makers(s) = {}
  BY <1>1, <1>2, <1>5 DEF Entries, Holders, Makers
<1>9. Counted
  BY <1>1, <1>8, FS_EmptySet DEF Counted
<1>10. Shapes
  <2>1. \A t \in Threads : Len(th[t].new) = 0 /\ Len(th[t].fds) = 0
    BY <1>2, NoneSeq
  <2>2. \A t \in Threads : SizeShape(t)
    BY <1>2, <2>1 DEF SizeShape, Creating, None, One, Two
  <2>3. \A t \in Threads : FdShape(t)
    BY <1>2, <2>1 DEF FdShape, Creating
  <2>4. \A t \in Threads : SockShape(t)
    BY <1>2 DEF SockShape
  <2>5. \A t \in Threads : HeldShape(t)
    BY <1>2 DEF HeldShape, Using
  <2> QED
    BY <2>2, <2>3, <2>4, <2>5 DEF Shapes, Shape
<1>11. Owned = {} /\ Creators = {}
  BY <1>1, <1>2 DEF Owned, Owns, Creators, At
<1>12. ModuleInv
  BY <1>1, <1>2, <1>11, FS_EmptySet DEF ModuleInv, At
<1>13. HookInv
  BY <1>1, <1>2 DEF HookInv, At
<1> QED
  BY <1>3, <1>6, <1>7, <1>9, <1>10, <1>12, <1>13 DEF Inv, Ledger

LEMMA StepInv ==
  ASSUME Inv, NEW t \in Threads, Step(t)
  PROVE  Inv' /\ FdRule
<1>1. CASE sys_socket(t)
  BY <1>1, EnterInv DEF sys_socket, At
<1>2. CASE sys_socketpair(t)
  BY <1>2, SocketpairFdsInv, SocketpairFilesInv DEF sys_socketpair
<1>3. CASE FdPut(t)
  BY <1>3, StepsEnd DEF FdPut, At
<1>4. CASE sys_accept4(t)
  BY <1>4, AcceptAllocInv, AcceptFileInv, AcceptWaitInv DEF sys_accept4
<1>5. CASE sock_ioctl(t)
  BY <1>5, HookTestInv, HookCallInv DEF sock_ioctl
<1> QED
  BY <1>1, <1>2, <1>3, <1>4, <1>5, SockCreateInv, SockMapFdInv, LookupInv,
     FdStepInv, CloseInv, CreateLiteInv, KernelAcceptInv DEF Step

LEMMA NextInv ==
  ASSUME Inv, [Next]_vars
  PROVE  Inv' /\ (FdRule \/ UNCHANGED fdt)
<1>1. CASE Next
  BY <1>1, StepInv, HookExitInv, RemovalInv DEF Next
<1>2. CASE UNCHANGED vars
  <2>1. UNCHANGED <<fdt, refs, sock, mod, hook, th>>
    BY <1>2 DEF vars
  <2>2. ModuleInv'
    BY <2>1 DEF Inv, ModuleInv, Owned, Owns, Creators, At
  <2>3. HookInv'
    BY <2>1 DEF Inv, HookInv, At
  <2> QED
    BY <2>1, <2>2, <2>3, ModuleStep
<1> QED
  BY <1>1, <1>2

LEMMA SpecInv == Spec => []Inv
<1>1. Init => Inv
  BY InitInv
<1>2. Inv /\ [Next]_vars => Inv'
  BY NextInv
<1> QED
  BY <1>1, <1>2, PTL DEF Spec

(* Every f_count, the module's count, and the ownership of bare inodes and *)
(* reserved descriptors are exact on every path of socket.c.               *)
THEOREM CountsAreExact == Spec => []Accounted
<1>1. ASSUME Inv PROVE Accounted
  <2>1. \A s \in Socks :
          refs[s] = Cardinality({d \in Fds : fdt[d] = s})
                    + Cardinality({t \in Threads : s \in th[t].held})
                    + Cardinality({t \in Threads : sock[s] = "open"
                                                 /\ s \in ToSet(th[t].new)})
    BY <1>1 DEF Inv, Ledger, Counted, Entries, Holders, Makers
  <2>2. mod.refs = Cardinality({s \in Socks : Owns(s)})
                   + Cardinality({t \in Threads : At(t, "init")})
    BY <1>1 DEF Inv, ModuleInv, Owned, Creators
  <2>3. ASSUME NEW s \in Socks, sock[s] \in {"bare", "ops"}
        PROVE  Cardinality({t \in Threads : s \in ToSet(th[t].new)}) = 1
    <3>1. PICK t \in Threads : s \in NewOf(t)
      BY <1>1, <2>3 DEF Inv, Ledger, Private
    <3>2. \A u \in Threads : s \in NewOf(u) => u = t
      BY <1>1, <3>1 DEF Inv, Ledger, Private
    <3>3. {u \in Threads : s \in ToSet(th[u].new)} = {t}
      BY <3>1, <3>2 DEF NewOf
    <3> QED
      BY <3>3, FS_Singleton
  <2>4. ASSUME NEW d \in Fds, fdt[d] = Taken
        PROVE  Cardinality({t \in Threads : d \in Reserved(t)}) = 1
    <3>1. PICK t \in Threads : d \in Reserved(t)
      BY <1>1, <2>4 DEF Inv, Ledger, Private
    <3>2. \A u \in Threads : d \in Reserved(u) => u = t
      BY <1>1, <3>1 DEF Inv, Ledger, Private
    <3>3. {u \in Threads : d \in Reserved(u)} = {t}
      BY <3>1, <3>2
    <3> QED
      BY <3>3, FS_Singleton
  <2> QED
    BY <2>1, <2>2, <2>3, <2>4 DEF Accounted
<1> QED
  BY <1>1, SpecInv, PTL

(* A call that holds a file works on an open socket with a positive count, *)
(* whoever has closed the descriptor since.                                *)
THEOREM HeldStaysOpen == Spec => []UsedWhileOpen
<1>1. ASSUME Inv PROVE UsedWhileOpen
  <2>1. SUFFICES ASSUME NEW t \in Threads, NEW s \in th[t].held
                 PROVE  sock[s] = "open" /\ refs[s] > 0
    BY DEF UsedWhileOpen
  <2>2. sock[s] = "open" /\ s \in Socks
    BY <1>1, InvAt DEF Ledger, Named
  <2>3. /\ IsFiniteSet(Holders(s)) /\ Cardinality(Holders(s)) \in Nat
        /\ Cardinality(Entries(s)) \in Nat /\ Cardinality(Makers(s)) \in Nat
    BY FiniteViews
  <2>4. t \in Holders(s)
    BY DEF Holders
  <2>5. Cardinality(Holders(s)) # 0
    BY <2>3, <2>4, FS_EmptySet
  <2>6. refs[s] = Cardinality(Entries(s)) + Cardinality(Holders(s))
                  + Cardinality(Makers(s))
    BY <1>1, <2>2 DEF Inv, Ledger, Counted
  <2> QED
    BY <2>2, <2>3, <2>5, <2>6
<1> QED
  BY <1>1, SpecInv, PTL

(* The protocol's module is live while a socket has its ops or pf->create  *)
(* runs, and its family is there for a task that reads it: the second      *)
(* try_module_get of __sock_create cannot fail.                            *)
THEOREM ModuleStays == Spec => []PinnedModule
<1>1. ASSUME Inv PROVE PinnedModule
  BY <1>1 DEF Inv, ModuleInv, PinnedModule, Owned, Creators
<1> QED
  BY <1>1, SpecInv, PTL

(* An ioctl hook runs only while its module is live: the mutex is enough.  *)
THEOREM HookStays == Spec => []HookInPlace
<1>1. ASSUME Inv PROVE HookInPlace
  BY <1>1 DEF Inv, HookInv, HookInPlace
<1> QED
  BY <1>1, SpecInv, PTL

(* A descriptor that names a socket changes only by its close, and a       *)
(* socket appears only under a number that was reserved for it.            *)
THEOREM NumbersAreKept == Spec => DescriptorsKept
<1>1. Inv /\ [Next]_vars =>
        [\A d \in Fds : fdt'[d] # fdt[d] =>
            \/ fdt[d] \in Socks /\ fdt'[d] = Free
            \/ fdt[d] = Free /\ fdt'[d] = Taken
            \/ fdt[d] = Taken /\ fdt'[d] \in Socks \union {Free}]_vars
  BY NextInv DEF FdRule
<1> QED
  BY <1>1, SpecInv, PTL DEF Spec, DescriptorsKept
=============================================================================
