-------------------------- MODULE Handshake_proofs --------------------------
(* Proofs about Handshake, for every set of page counts.                   *)
EXTENDS Handshake, TLAPS

USE DEF Machines, Other

\* Where a client is says how far its role is decided.
RoleSet ==
    \A p \in Machines :
        /\ cl[p] = "off" <=> sv[p] = "off"
        /\ cl[p] \in {"off", "connect", "one", "two"} => mch[p] = 0

\* One process is first: the other is not started before the first one is
\* machine 1 and listens, so the other's connection cannot fail.
FirstIsOne ==
    \E f \in Machines :
        /\ cl[f] # "two" /\ mch[f] # 2
        /\ \/ cl[Other(f)] = "off"
           \/ /\ mch[f] = 1 /\ Listening(f)
              /\ cl[Other(f)] # "one" /\ mch[Other(f)] # 1

TypesOK == /\ sv \in [Machines -> ServerPC]
           /\ cl \in [Machines -> ClientPC]
           /\ mch \in [Machines -> 0 .. 2]

RoleInv == TypesOK /\ RoleSet /\ FirstIsOne

LEMMA RoleInit == Init => RoleInv
  BY DEF Init, RoleInv, TypesOK, RoleSet, FirstIsOne, ServerPC, ClientPC

LEMMA RoleStep ==
    ASSUME "staggered" \in timing, RoleInv, [Next]_vars
    PROVE  RoleInv'
<1>1. ASSUME NEW p \in Machines, Start(p)
      PROVE  RoleInv'
  <2>1. TypesOK'
    BY <1>1 DEF Start, RoleInv, TypesOK, ServerPC, ClientPC
  <2>2. RoleSet'
    BY <1>1 DEF Start, RoleInv, TypesOK, RoleSet
  <2>3. FirstIsOne'
    <3>0. \/ cl[Other(p)] = "off"
          \/ mch[Other(p)] = 1 /\ Listening(Other(p))
      BY <1>1 DEF Start, Assumed
    <3>1. CASE cl[Other(p)] = "off"
      BY <1>1, <3>1 DEF Start, RoleInv, TypesOK, RoleSet, FirstIsOne
    <3>2. CASE mch[Other(p)] = 1 /\ Listening(Other(p))
      BY <1>1, <3>2 DEF Start, RoleInv, TypesOK, RoleSet, FirstIsOne, Listening
    <3> QED
      BY <3>0, <3>1, <3>2
  <2> QED
    BY <2>1, <2>2, <2>3 DEF RoleInv
<1>2. ASSUME NEW p \in Machines, Server(p)
      PROVE  RoleInv'
  <2>1. /\ UNCHANGED <<cl, mch>>
        /\ sv' \in [Machines -> ServerPC]
        /\ \A q \in Machines : /\ sv'[q] = "off" <=> sv[q] = "off"
                               /\ Listening(q) => sv'[q] \notin {"off", "start"}
    BY <1>2 DEF Server, Listen, Accept, ServerRole, ReadInit, ServerInitMSI, ServerUffd,
                LoopRead, RoleInv, TypesOK, ServerPC, Listening
  <2> QED
    BY <2>1 DEF RoleInv, TypesOK, RoleSet, FirstIsOne, Listening
<1>3. ASSUME NEW p \in Machines, Connect(p)
      PROVE  RoleInv'
  <2>1. TypesOK' /\ RoleSet'
    BY <1>3 DEF Connect, RoleInv, TypesOK, RoleSet, ClientPC
  <2>2. PICK f \in Machines :
          /\ cl[f] # "two" /\ mch[f] # 2
          /\ \/ cl[Other(f)] = "off"
             \/ /\ mch[f] = 1 /\ Listening(f)
                /\ cl[Other(f)] # "one" /\ mch[Other(f)] # 1
    BY DEF RoleInv, FirstIsOne
  <2>3. CASE p = f
    <3>1. cl[Other(f)] = "off" /\ ~Listening(Other(f))
      BY <1>3, <2>2, <2>3 DEF Connect, RoleInv, RoleSet, Listening
    <3>2. cl'[f] = "one" /\ cl'[Other(f)] = "off" /\ mch' = mch
      BY <1>3, <2>3, <3>1 DEF Connect, RoleInv, TypesOK
    <3> QED
      BY <2>1, <2>2, <3>2 DEF RoleInv, FirstIsOne
  <2>4. CASE p = Other(f)
    <3>1. mch[f] = 1 /\ Listening(f) /\ Other(p) = f /\ mch[p] # 1
      BY <1>3, <2>2, <2>4 DEF Connect
    <3>2. cl'[p] = "two" /\ cl'[f] = cl[f] /\ mch' = mch /\ sv' = sv
      BY <1>3, <2>4, <3>1 DEF Connect, RoleInv, TypesOK
    <3>3. Listening(f)'
      BY <3>1, <3>2 DEF Listening
    <3> QED
      BY <2>1, <2>2, <2>4, <3>1, <3>2, <3>3 DEF RoleInv, FirstIsOne
  <2> QED
    BY <2>3, <2>4
<1>4. ASSUME NEW p \in Machines, SetRole(p)
      PROVE  RoleInv'
  <2>1. TypesOK' /\ RoleSet'
    BY <1>4 DEF SetRole, RoleInv, TypesOK, RoleSet, ClientPC
  <2>2. FirstIsOne'
    BY <1>4 DEF SetRole, RoleInv, TypesOK, RoleSet, FirstIsOne, Listening
  <2> QED
    BY <2>1, <2>2 DEF RoleInv
<1>5. ASSUME NEW p \in Machines,
             \/ Retry(p) \/ ClientInitMSI(p) \/ SendInit(p) \/ ClientUffd(p)
             \/ WaitAddr(p) \/ StartHandler(p) \/ \E n \in Counts : TypeCount(p, n)
      PROVE  RoleInv'
  <2>1. /\ UNCHANGED <<sv, mch>>
        /\ \E pc \in {"count", "send", "uffd", "handler", "menu", "msi"} :
              cl' = [cl EXCEPT ![p] = pc]
        /\ cl[p] \notin {"off", "connect", "one", "two"}
    BY <1>5 DEF Retry, ClientInitMSI, SendInit, ClientUffd, WaitAddr, StartHandler, TypeCount
  <2>2. TypesOK' /\ RoleSet'
    BY <2>1 DEF RoleInv, TypesOK, RoleSet, ClientPC
  <2>3. FirstIsOne'
    BY <2>1 DEF RoleInv, TypesOK, FirstIsOne, Listening
  <2> QED
    BY <2>2, <2>3 DEF RoleInv
<1>6. CASE UNCHANGED vars
  BY <1>6 DEF vars, RoleInv, TypesOK, RoleSet, FirstIsOne, Listening
<1> QED
  BY <1>1, <1>2, <1>3, <1>4, <1>5, <1>6 DEF Next, Client

\* If the second process is started only when the first one listens and has
\* seen its own connection fail, the two never take the same role, whatever
\* else the schedule does.
THEOREM RolesDiffer == Spec => []StaggeredRoles
<1> DEFINE Inv == "staggered" \in timing => RoleInv
<1>0. Init => Inv
  BY RoleInit
<1>1. Inv => StaggeredRoles
  <2>1. RoleInv => DifferentRoles
    BY DEF RoleInv, RoleSet, FirstIsOne, DifferentRoles, TypesOK
  <2> QED
    BY <2>1 DEF StaggeredRoles
<1>2. Inv /\ [Next]_vars => Inv'
  <2>1. [Next]_vars => timing' = timing
    BY DEF Next, vars
  <2> QED
    BY <2>1, RoleStep
<1> QED
  BY <1>0, <1>1, <1>2, PTL DEF Spec
-----------------------------------------------------------------------------
(* What the second machine takes over from the first one.                  *)

StoresOK ==
    /\ TypesOK
    /\ DOMAIN chan = Machines /\ DOMAIN inited = Machines /\ DOMAIN uffd = Machines
    /\ DOMAIN handler = Machines /\ DOMAIN count = Machines /\ DOMAIN mapped = Machines

\* Where the threads of p are says which role p has.
RoleKnown(p) ==
    /\ cl[p] \in {"off", "connect", "one", "two"} => mch[p] = 0
    /\ cl[p] \in {"retry", "count", "msi", "send", "uffd"} => mch[p] = 1
    /\ cl[p] = "wait" => mch[p] = 2
    /\ cl[p] \in {"handler", "menu"} => mch[p] \in {1, 2}
    /\ sv[p] \in {"init", "msi", "uffd"} => mch[p] = 2

HasSent(p) == cl[p] \in {"uffd", "handler", "menu"} /\ mch[p] = 1

\* The one struct p sends is under way, or it has not been sent, or it has
\* been read: then nothing follows it.
OneStruct(p) == chan[p] = <<>> \/ (HasSent(p) /\ chan[p] = <<mapped[p]>>)

\* A machine 2 with pages has those of a machine 1 whose struct it has read.
TakenOver(p) ==
    /\ mch[p] # 1 /\ mapped[p] # 0 =>
          /\ mch[p] = 2 /\ HasSent(Other(p)) /\ chan[Other(p)] = <<>>
          /\ mapped[p] = mapped[Other(p)] /\ count[p] = mapped[p]
    /\ mch[p] = 2 /\ cl[p] \in {"handler", "menu"} => mapped[p] # 0

FollowInv ==
    /\ StoresOK
    /\ \A p \in Machines : RoleKnown(p) /\ OneStruct(p) /\ TakenOver(p)

\* With the three assumptions on time: what a machine has by the time its
\* handler starts.
Prepared(p) ==
    /\ mch[p] = 1 /\ cl[p] \in {"msi", "send", "uffd", "handler", "menu"} =>
          count[p] = mapped[p]
    /\ mch[p] = 1 /\ cl[p] \in {"send", "uffd", "handler", "menu"} => inited[p]
    /\ mch[p] = 1 /\ cl[p] \in {"handler", "menu"} => uffd[p]
    /\ sv[p] = "uffd" => inited[p]
    /\ sv[p] = "loop" => mch[p] # 0
    /\ mch[p] = 2 /\ sv[p] = "loop" => inited[p] /\ uffd[p]
    /\ mch[p] = 2 /\ cl[p] \in {"handler", "menu"} => sv[p] = "loop"
    /\ cl[p] = "menu" => handler[p] = "uffd"

ReadyInv == RoleInv /\ FollowInv /\ \A p \in Machines : Prepared(p)

\* A channel holds one struct at most.
LEMMA OneSeq ==
    ASSUME NEW x
    PROVE  /\ Append(<<>>, x) = <<x>> /\ Tail(<<x>>) = <<>> /\ Head(<<x>>) = x
           /\ <<x>> # <<>>
<1>1. <<x>> \in Seq({x}) /\ <<>> \in Seq({x})
  OBVIOUS
<1>2. Append(<<>>, x) = <<x>>
  OBVIOUS
<1>3. Tail(<<x>>) = <<>> /\ Head(<<x>>) = x /\ <<x>> # <<>>
  OBVIOUS
<1> QED
  BY <1>2, <1>3

LEMMA FollowStep ==
    ASSUME FollowInv, [Next]_vars
    PROVE  FollowInv'
<1>0. ASSUME NEW p \in Machines
      PROVE  /\ Other(p) \in Machines /\ Other(p) # p /\ Other(Other(p)) = p
             /\ \A q \in Machines : q = p \/ q = Other(p)
             /\ RoleKnown(p) /\ OneStruct(p) /\ TakenOver(p)
             /\ RoleKnown(Other(p)) /\ OneStruct(Other(p)) /\ TakenOver(Other(p))
  BY DEF FollowInv
<1> USE DEF FollowInv
<1>1. ASSUME NEW p \in Machines, Start(p)
      PROVE  FollowInv'
  <2>1. StoresOK'
    BY <1>1 DEF Start, StoresOK, TypesOK, ServerPC, ClientPC
  <2>2. /\ sv[p] = "off" /\ cl[p] = "off"
        /\ sv'[p] = "start" /\ sv'[Other(p)] = sv[Other(p)]
        /\ cl'[p] = "connect" /\ cl'[Other(p)] = cl[Other(p)]
        /\ UNCHANGED <<chan, mch, count, mapped>>
    BY <1>1 DEF Start, StoresOK, TypesOK, Listening
  <2>3. RoleKnown(p)' /\ RoleKnown(Other(p))'
    BY <1>0, <1>1, <2>2 DEF RoleKnown
  <2>4. OneStruct(p)' /\ OneStruct(Other(p))'
    BY <1>0, <1>1, <2>2 DEF OneStruct, HasSent, RoleKnown
  <2>5. TakenOver(p)' /\ TakenOver(Other(p))'
    BY <1>0, <1>1, <2>2 DEF TakenOver, OneStruct, HasSent, RoleKnown
  <2> QED
    BY <1>0, <2>1, <2>3, <2>4, <2>5
<1>2. ASSUME NEW p \in Machines, Listen(p)
      PROVE  FollowInv'
  <2>1. StoresOK'
    BY <1>2 DEF Listen, StoresOK, TypesOK, ServerPC, ClientPC
  <2>2. /\ sv'[p] = "accept" /\ sv'[Other(p)] = sv[Other(p)]
        /\ UNCHANGED <<cl, chan, mch, count, mapped>>
    BY <1>2 DEF Listen, StoresOK, TypesOK, Listening
  <2>3. RoleKnown(p)' /\ RoleKnown(Other(p))'
    BY <1>0, <1>2, <2>2 DEF RoleKnown
  <2>4. OneStruct(p)' /\ OneStruct(Other(p))'
    BY <1>0, <1>2, <2>2 DEF OneStruct, HasSent, RoleKnown
  <2>5. TakenOver(p)' /\ TakenOver(Other(p))'
    BY <1>0, <1>2, <2>2 DEF TakenOver, OneStruct, HasSent, RoleKnown
  <2> QED
    BY <1>0, <2>1, <2>3, <2>4, <2>5
<1>3. ASSUME NEW p \in Machines, Accept(p)
      PROVE  FollowInv'
  <2>1. StoresOK'
    BY <1>3 DEF Accept, StoresOK, TypesOK, ServerPC, ClientPC
  <2>2. /\ sv'[p] = "role" /\ sv'[Other(p)] = sv[Other(p)]
        /\ UNCHANGED <<cl, chan, mch, count, mapped>>
    BY <1>3 DEF Accept, StoresOK, TypesOK, Listening
  <2>3. RoleKnown(p)' /\ RoleKnown(Other(p))'
    BY <1>0, <1>3, <2>2 DEF RoleKnown
  <2>4. OneStruct(p)' /\ OneStruct(Other(p))'
    BY <1>0, <1>3, <2>2 DEF OneStruct, HasSent, RoleKnown
  <2>5. TakenOver(p)' /\ TakenOver(Other(p))'
    BY <1>0, <1>3, <2>2 DEF TakenOver, OneStruct, HasSent, RoleKnown
  <2> QED
    BY <1>0, <2>1, <2>3, <2>4, <2>5
<1>4. ASSUME NEW p \in Machines, ServerRole(p)
      PROVE  FollowInv'
  <2>1. StoresOK'
    BY <1>4 DEF ServerRole, StoresOK, TypesOK, ServerPC, ClientPC
  <2>2. /\ sv'[p] = (IF mch[p] = 2 THEN "init" ELSE "loop")
        /\ sv'[Other(p)] = sv[Other(p)]
        /\ UNCHANGED <<cl, chan, mch, count, mapped>>
    BY <1>4 DEF ServerRole, StoresOK, TypesOK, Listening
  <2>3. RoleKnown(p)' /\ RoleKnown(Other(p))'
    BY <1>0, <1>4, <2>2 DEF RoleKnown
  <2>4. OneStruct(p)' /\ OneStruct(Other(p))'
    BY <1>0, <1>4, <2>2 DEF OneStruct, HasSent, RoleKnown
  <2>5. TakenOver(p)' /\ TakenOver(Other(p))'
    BY <1>0, <1>4, <2>2 DEF TakenOver, OneStruct, HasSent, RoleKnown
  <2> QED
    BY <1>0, <2>1, <2>3, <2>4, <2>5
<1>5. ASSUME NEW p \in Machines, ServerInitMSI(p)
      PROVE  FollowInv'
  <2>1. StoresOK'
    BY <1>5 DEF ServerInitMSI, StoresOK, TypesOK, ServerPC, ClientPC
  <2>2. /\ sv[p] = "msi" /\ sv'[p] = "uffd" /\ sv'[Other(p)] = sv[Other(p)]
        /\ UNCHANGED <<cl, chan, mch, count, mapped>>
    BY <1>5 DEF ServerInitMSI, StoresOK, TypesOK, Listening
  <2>3. RoleKnown(p)' /\ RoleKnown(Other(p))'
    BY <1>0, <1>5, <2>2 DEF RoleKnown
  <2>4. OneStruct(p)' /\ OneStruct(Other(p))'
    BY <1>0, <1>5, <2>2 DEF OneStruct, HasSent, RoleKnown
  <2>5. TakenOver(p)' /\ TakenOver(Other(p))'
    BY <1>0, <1>5, <2>2 DEF TakenOver, OneStruct, HasSent, RoleKnown
  <2> QED
    BY <1>0, <2>1, <2>3, <2>4, <2>5
<1>6. ASSUME NEW p \in Machines, ServerUffd(p)
      PROVE  FollowInv'
  <2>1. StoresOK'
    BY <1>6 DEF ServerUffd, StoresOK, TypesOK, ServerPC, ClientPC
  <2>2. /\ sv'[p] = "loop" /\ sv'[Other(p)] = sv[Other(p)]
        /\ UNCHANGED <<cl, chan, mch, count, mapped>>
    BY <1>6 DEF ServerUffd, StoresOK, TypesOK, Listening
  <2>3. RoleKnown(p)' /\ RoleKnown(Other(p))'
    BY <1>0, <1>6, <2>2 DEF RoleKnown
  <2>4. OneStruct(p)' /\ OneStruct(Other(p))'
    BY <1>0, <1>6, <2>2 DEF OneStruct, HasSent, RoleKnown
  <2>5. TakenOver(p)' /\ TakenOver(Other(p))'
    BY <1>0, <1>6, <2>2 DEF TakenOver, OneStruct, HasSent, RoleKnown
  <2> QED
    BY <1>0, <2>1, <2>3, <2>4, <2>5
<1>7. ASSUME NEW p \in Machines, Connect(p)
      PROVE  FollowInv'
  <2>1. StoresOK'
    BY <1>7 DEF Connect, StoresOK, TypesOK, ServerPC, ClientPC
  <2>2. /\ cl[p] = "connect" /\ cl'[p] \in {"one", "two"}
        /\ cl'[Other(p)] = cl[Other(p)]
        /\ UNCHANGED <<sv, chan, mch, count, mapped>>
    BY <1>7 DEF Connect, StoresOK, TypesOK, Listening
  <2>3. RoleKnown(p)' /\ RoleKnown(Other(p))'
    BY <1>0, <1>7, <2>2 DEF RoleKnown
  <2>4. OneStruct(p)' /\ OneStruct(Other(p))'
    BY <1>0, <1>7, <2>2 DEF OneStruct, HasSent, RoleKnown
  <2>5. TakenOver(p)' /\ TakenOver(Other(p))'
    BY <1>0, <1>7, <2>2 DEF TakenOver, OneStruct, HasSent, RoleKnown
  <2> QED
    BY <1>0, <2>1, <2>3, <2>4, <2>5
<1>8. ASSUME NEW p \in Machines, SetRole(p)
      PROVE  FollowInv'
  <2>1. StoresOK'
    BY <1>8 DEF SetRole, StoresOK, TypesOK, ServerPC, ClientPC
  <2>2. /\ \/ cl[p] = "one" /\ cl'[p] = "retry" /\ mch'[p] = 1
           \/ cl[p] = "two" /\ cl'[p] = "wait" /\ mch'[p] = 2
        /\ cl'[Other(p)] = cl[Other(p)] /\ mch'[Other(p)] = mch[Other(p)]
        /\ UNCHANGED <<sv, chan, count, mapped>>
    BY <1>8 DEF SetRole, StoresOK, TypesOK, Listening
  <2>3. RoleKnown(p)' /\ RoleKnown(Other(p))'
    BY <1>0, <1>8, <2>2 DEF RoleKnown
  <2>4. OneStruct(p)' /\ OneStruct(Other(p))'
    BY <1>0, <1>8, <2>2 DEF OneStruct, HasSent, RoleKnown
  <2>5. TakenOver(p)' /\ TakenOver(Other(p))'
    BY <1>0, <1>8, <2>2 DEF TakenOver, OneStruct, HasSent, RoleKnown
  <2> QED
    BY <1>0, <2>1, <2>3, <2>4, <2>5
<1>9. ASSUME NEW p \in Machines, Retry(p)
      PROVE  FollowInv'
  <2>1. StoresOK'
    BY <1>9 DEF Retry, StoresOK, TypesOK, ServerPC, ClientPC
  <2>2. /\ cl[p] = "retry" /\ cl'[p] = "count"
        /\ cl'[Other(p)] = cl[Other(p)]
        /\ UNCHANGED <<sv, chan, mch, count, mapped>>
    BY <1>9 DEF Retry, StoresOK, TypesOK, Listening
  <2>3. RoleKnown(p)' /\ RoleKnown(Other(p))'
    BY <1>0, <1>9, <2>2 DEF RoleKnown
  <2>4. OneStruct(p)' /\ OneStruct(Other(p))'
    BY <1>0, <1>9, <2>2 DEF OneStruct, HasSent, RoleKnown
  <2>5. TakenOver(p)' /\ TakenOver(Other(p))'
    BY <1>0, <1>9, <2>2 DEF TakenOver, OneStruct, HasSent, RoleKnown
  <2> QED
    BY <1>0, <2>1, <2>3, <2>4, <2>5
<1>10. ASSUME NEW p \in Machines, NEW n \in Counts, TypeCount(p, n)
      PROVE  FollowInv'
  <2>1. StoresOK'
    BY <1>10 DEF TypeCount, StoresOK, TypesOK, ServerPC, ClientPC
  <2>2. /\ cl[p] = "count" /\ cl'[p] = "msi"
        /\ cl'[Other(p)] = cl[Other(p)]
        /\ mapped'[Other(p)] = mapped[Other(p)] /\ count'[Other(p)] = count[Other(p)]
        /\ UNCHANGED <<sv, chan, mch>>
    BY <1>10 DEF TypeCount, StoresOK, TypesOK, Listening
  <2>3. RoleKnown(p)' /\ RoleKnown(Other(p))'
    BY <1>0, <1>10, <2>2 DEF RoleKnown
  <2>4. OneStruct(p)' /\ OneStruct(Other(p))'
    BY <1>0, <1>10, <2>2 DEF OneStruct, HasSent, RoleKnown
  <2>5. TakenOver(p)' /\ TakenOver(Other(p))'
    BY <1>0, <1>10, <2>2 DEF TakenOver, OneStruct, HasSent, RoleKnown
  <2> QED
    BY <1>0, <2>1, <2>3, <2>4, <2>5
<1>11. ASSUME NEW p \in Machines, ClientInitMSI(p)
      PROVE  FollowInv'
  <2>1. StoresOK'
    BY <1>11 DEF ClientInitMSI, StoresOK, TypesOK, ServerPC, ClientPC
  <2>2. /\ cl[p] = "msi" /\ cl'[p] = "send"
        /\ cl'[Other(p)] = cl[Other(p)]
        /\ UNCHANGED <<sv, chan, mch, count, mapped>>
    BY <1>11 DEF ClientInitMSI, StoresOK, TypesOK, Listening
  <2>3. RoleKnown(p)' /\ RoleKnown(Other(p))'
    BY <1>0, <1>11, <2>2 DEF RoleKnown
  <2>4. OneStruct(p)' /\ OneStruct(Other(p))'
    BY <1>0, <1>11, <2>2 DEF OneStruct, HasSent, RoleKnown
  <2>5. TakenOver(p)' /\ TakenOver(Other(p))'
    BY <1>0, <1>11, <2>2 DEF TakenOver, OneStruct, HasSent, RoleKnown
  <2> QED
    BY <1>0, <2>1, <2>3, <2>4, <2>5
<1>12. ASSUME NEW p \in Machines, SendInit(p)
      PROVE  FollowInv'
  <2>1. StoresOK'
    BY <1>12 DEF SendInit, StoresOK, TypesOK, ServerPC, ClientPC
  <2>2. /\ cl[p] = "send" /\ cl'[p] = "uffd"
        /\ cl'[Other(p)] = cl[Other(p)] /\ chan'[Other(p)] = chan[Other(p)]
        /\ chan'[p] = Append(chan[p], mapped[p])
        /\ UNCHANGED <<sv, mch, count, mapped>>
    BY <1>12 DEF SendInit, StoresOK, TypesOK, Listening
  <2>3. RoleKnown(p)' /\ RoleKnown(Other(p))'
    BY <1>0, <1>12, <2>2 DEF RoleKnown
  <2>4. OneStruct(p)' /\ OneStruct(Other(p))'
    <3>1. chan[p] = <<>> /\ mch[p] = 1
      BY <1>0, <2>2 DEF OneStruct, HasSent, RoleKnown
    <3>2. chan'[p] = <<mapped[p]>>
      BY <2>2, <3>1, OneSeq
    <3> QED
      BY <1>0, <2>2, <3>1, <3>2 DEF OneStruct, HasSent
  <2>5. TakenOver(p)' /\ TakenOver(Other(p))'
    BY <1>0, <1>12, <2>2 DEF TakenOver, OneStruct, HasSent, RoleKnown
  <2> QED
    BY <1>0, <2>1, <2>3, <2>4, <2>5
<1>13. ASSUME NEW p \in Machines, ClientUffd(p)
      PROVE  FollowInv'
  <2>1. StoresOK'
    BY <1>13 DEF ClientUffd, StoresOK, TypesOK, ServerPC, ClientPC
  <2>2. /\ cl[p] = "uffd" /\ cl'[p] = "handler"
        /\ cl'[Other(p)] = cl[Other(p)]
        /\ UNCHANGED <<sv, chan, mch, count, mapped>>
    BY <1>13 DEF ClientUffd, StoresOK, TypesOK, Listening
  <2>3. RoleKnown(p)' /\ RoleKnown(Other(p))'
    BY <1>0, <1>13, <2>2 DEF RoleKnown
  <2>4. OneStruct(p)' /\ OneStruct(Other(p))'
    BY <1>0, <1>13, <2>2 DEF OneStruct, HasSent, RoleKnown
  <2>5. TakenOver(p)' /\ TakenOver(Other(p))'
    BY <1>0, <1>13, <2>2 DEF TakenOver, OneStruct, HasSent, RoleKnown
  <2> QED
    BY <1>0, <2>1, <2>3, <2>4, <2>5
<1>14. ASSUME NEW p \in Machines, WaitAddr(p)
      PROVE  FollowInv'
  <2>1. StoresOK'
    BY <1>14 DEF WaitAddr, StoresOK, TypesOK, ServerPC, ClientPC
  <2>2. /\ cl[p] = "wait" /\ cl'[p] = "handler" /\ mapped[p] # 0
        /\ cl'[Other(p)] = cl[Other(p)]
        /\ UNCHANGED <<sv, chan, mch, count, mapped>>
    BY <1>14 DEF WaitAddr, StoresOK, TypesOK, Listening
  <2>3. RoleKnown(p)' /\ RoleKnown(Other(p))'
    BY <1>0, <1>14, <2>2 DEF RoleKnown
  <2>4. OneStruct(p)' /\ OneStruct(Other(p))'
    BY <1>0, <1>14, <2>2 DEF OneStruct, HasSent, RoleKnown
  <2>5. TakenOver(p)' /\ TakenOver(Other(p))'
    BY <1>0, <1>14, <2>2 DEF TakenOver, OneStruct, HasSent, RoleKnown
  <2> QED
    BY <1>0, <2>1, <2>3, <2>4, <2>5
<1>15. ASSUME NEW p \in Machines, StartHandler(p)
      PROVE  FollowInv'
  <2>1. StoresOK'
    BY <1>15 DEF StartHandler, StoresOK, TypesOK, ServerPC, ClientPC
  <2>2. /\ cl[p] = "handler" /\ cl'[p] = "menu"
        /\ cl'[Other(p)] = cl[Other(p)]
        /\ UNCHANGED <<sv, chan, mch, count, mapped>>
    BY <1>15 DEF StartHandler, StoresOK, TypesOK, Listening
  <2>3. RoleKnown(p)' /\ RoleKnown(Other(p))'
    BY <1>0, <1>15, <2>2 DEF RoleKnown
  <2>4. OneStruct(p)' /\ OneStruct(Other(p))'
    BY <1>0, <1>15, <2>2 DEF OneStruct, HasSent, RoleKnown
  <2>5. TakenOver(p)' /\ TakenOver(Other(p))'
    BY <1>0, <1>15, <2>2 DEF TakenOver, OneStruct, HasSent, RoleKnown
  <2> QED
    BY <1>0, <2>1, <2>3, <2>4, <2>5
<1>16. ASSUME NEW p \in Machines, ReadInit(p)
      PROVE  FollowInv'
  <2>1. StoresOK'
    BY <1>16 DEF ReadInit, StoresOK, TypesOK, ServerPC, ClientPC
  <2>2. /\ sv[p] = "init" /\ sv'[p] = "msi" /\ sv'[Other(p)] = sv[Other(p)]
        /\ chan[Other(p)] # <<>> /\ chan'[p] = chan[p]
        /\ chan'[Other(p)] = Tail(chan[Other(p)])
        /\ mapped'[p] = Head(chan[Other(p)]) /\ count'[p] = mapped'[p]
        /\ mapped'[Other(p)] = mapped[Other(p)] /\ count'[Other(p)] = count[Other(p)]
        /\ UNCHANGED <<cl, mch>>
    BY <1>16 DEF ReadInit, StoresOK, TypesOK
  <2>2a. /\ HasSent(Other(p)) /\ mch[p] = 2 /\ chan'[Other(p)] = <<>>
        /\ mapped'[p] = mapped[Other(p)]
    <3>1. HasSent(Other(p)) /\ chan[Other(p)] = <<mapped[Other(p)]>>
      BY <1>0, <2>2 DEF OneStruct
    <3>2. mch[p] = 2
      BY <1>0, <2>2 DEF RoleKnown
    <3>3. /\ Tail(chan[Other(p)]) = <<>>
          /\ Head(chan[Other(p)]) = mapped[Other(p)]
      BY <3>1, OneSeq
    <3> QED
      BY <2>2, <3>1, <3>2, <3>3
  <2>3. RoleKnown(p)' /\ RoleKnown(Other(p))'
    BY <1>0, <1>16, <2>2 DEF RoleKnown
  <2>4. OneStruct(p)' /\ OneStruct(Other(p))'
    BY <1>0, <2>2, <2>2a DEF OneStruct, HasSent
  <2>5. TakenOver(p)' /\ TakenOver(Other(p))'
    BY <1>0, <2>2, <2>2a DEF TakenOver, HasSent
  <2> QED
    BY <1>0, <2>1, <2>3, <2>4, <2>5
<1>17. ASSUME NEW p \in Machines, LoopRead(p)
      PROVE  FollowInv'
  <2>1. StoresOK'
    BY <1>17 DEF LoopRead, StoresOK, TypesOK, ServerPC, ClientPC
  <2>2. /\ sv[p] = "loop" /\ chan[Other(p)] # <<>> /\ chan'[p] = chan[p]
        /\ chan'[Other(p)] = Tail(chan[Other(p)])
        /\ count'[Other(p)] = count[Other(p)]
        /\ UNCHANGED <<sv, cl, mch, mapped>>
    BY <1>17 DEF LoopRead, StoresOK, TypesOK
  <2>2a. chan'[Other(p)] = <<>>
    <3>1. chan[Other(p)] = <<mapped[Other(p)]>>
      BY <1>0, <2>2 DEF OneStruct
    <3> QED
      BY <2>2, <3>1, OneSeq
  <2>3. RoleKnown(p)' /\ RoleKnown(Other(p))'
    BY <1>0, <1>17, <2>2 DEF RoleKnown
  <2>4. OneStruct(p)' /\ OneStruct(Other(p))'
    BY <1>0, <2>2, <2>2a DEF OneStruct, HasSent
  <2>5. TakenOver(p)' /\ TakenOver(Other(p))'
    BY <1>0, <1>17, <2>2 DEF TakenOver, OneStruct, HasSent, RoleKnown
  <2> QED
    BY <1>0, <2>1, <2>3, <2>4, <2>5
<1>18. CASE UNCHANGED vars
  BY <1>18 DEF vars, StoresOK, TypesOK, RoleKnown, OneStruct, HasSent, TakenOver
<1> QED
  BY <1>1, <1>2, <1>3, <1>4, <1>5, <1>6, <1>7, <1>8, <1>9, <1>10, <1>11, <1>12, <1>13, <1>14, <1>15, <1>16, <1>17, <1>18
  DEF Next, Server, Client

\* Whatever the schedule, a machine 2 that shows its menu has a machine 1 as
\* its peer and exactly that one's pages: no assumption on time is needed.
THEOREM SecondFollows == Spec => []SecondFollowsFirst
<1>1. Init => FollowInv
  BY DEF Init, FollowInv, StoresOK, TypesOK, ServerPC, ClientPC, RoleKnown, OneStruct,
         HasSent, TakenOver
<1>2. FollowInv /\ [Next]_vars => FollowInv'
  BY FollowStep
<1>3. FollowInv => SecondFollowsFirst
  BY DEF FollowInv, TakenOver, HasSent, SecondFollowsFirst
<1> QED
  BY <1>1, <1>2, <1>3, PTL DEF Spec

LEMMA SetTrue ==
    ASSUME NEW f, DOMAIN f = Machines, NEW p \in Machines, NEW q \in Machines, p # q,
           NEW g, g = [f EXCEPT ![p] = TRUE]
    PROVE  g[p] /\ g[q] = f[q]
  BY Zenon

LEMMA PreparedStep ==
    ASSUME timing = AllTiming, ReadyInv, [Next]_vars
    PROVE  \A q \in Machines : Prepared(q)'
<1>0. ASSUME NEW p \in Machines
      PROVE  /\ Other(p) \in Machines /\ Other(p) # p
             /\ \A q \in Machines : q = p \/ q = Other(p)
             /\ StoresOK /\ RoleKnown(p) /\ OneStruct(Other(p))
             /\ Prepared(p) /\ Prepared(Other(p))
  BY DEF ReadyInv, FollowInv
<1>a. StoresOK /\ DifferentRoles
  BY DEF ReadyInv, FollowInv, RoleInv, RoleSet, FirstIsOne, DifferentRoles, TypesOK
<1>1. ASSUME NEW p \in Machines, Start(p)
      PROVE  \A q \in Machines : Prepared(q)'
  <2>1. /\ sv'[p] = "start" /\ cl[p] = "off" /\ cl'[p] = "connect"
        /\ sv'[Other(p)] = sv[Other(p)]
        /\ cl'[Other(p)] = cl[Other(p)]
        /\ UNCHANGED <<mch, count, mapped, inited, uffd, handler>>
    BY <1>a, <1>1 DEF Start, StoresOK, TypesOK
  <2> QED
    BY <1>0, <2>1 DEF Prepared, RoleKnown
<1>2. ASSUME NEW p \in Machines, Listen(p)
      PROVE  \A q \in Machines : Prepared(q)'
  <2>1. /\ sv'[p] = "accept" /\ sv[p] = "start"
        /\ sv'[Other(p)] = sv[Other(p)]
        /\ UNCHANGED <<cl, mch, count, mapped, inited, uffd, handler>>
    BY <1>a, <1>2 DEF Listen, StoresOK, TypesOK
  <2> QED
    BY <1>0, <2>1 DEF Prepared, RoleKnown
<1>3. ASSUME NEW p \in Machines, Accept(p)
      PROVE  \A q \in Machines : Prepared(q)'
  <2>1. /\ sv'[p] = "role" /\ sv[p] = "accept"
        /\ sv'[Other(p)] = sv[Other(p)]
        /\ UNCHANGED <<cl, mch, count, mapped, inited, uffd, handler>>
    BY <1>a, <1>3 DEF Accept, StoresOK, TypesOK
  <2> QED
    BY <1>0, <2>1 DEF Prepared, RoleKnown
<1>4. ASSUME NEW p \in Machines, ServerRole(p)
      PROVE  \A q \in Machines : Prepared(q)'
  <2>1. /\ sv[p] = "role" /\ mch[p] # 0 /\ sv'[p] = (IF mch[p] = 2 THEN "init" ELSE "loop")
        /\ sv'[Other(p)] = sv[Other(p)]
        /\ UNCHANGED <<cl, mch, count, mapped, inited, uffd, handler>>
    BY <1>a, <1>4 DEF ServerRole, StoresOK, TypesOK, Assumed, AllTiming
  <2> QED
    BY <1>0, <2>1 DEF Prepared, RoleKnown
<1>5. ASSUME NEW p \in Machines, ReadInit(p)
      PROVE  \A q \in Machines : Prepared(q)'
  <2>1. /\ sv[p] = "init" /\ sv'[p] = "msi"
        /\ sv'[Other(p)] = sv[Other(p)]
        /\ count'[Other(p)] = count[Other(p)]
        /\ mapped'[Other(p)] = mapped[Other(p)]
        /\ UNCHANGED <<cl, mch, inited, uffd, handler>>
    BY <1>a, <1>5 DEF ReadInit, StoresOK, TypesOK
  <2>2. mch[p] = 2
    BY <1>0, <2>1 DEF RoleKnown
  <2> QED
    BY <1>0, <2>1, <2>2 DEF Prepared, RoleKnown
<1>6. ASSUME NEW p \in Machines, ServerInitMSI(p)
      PROVE  \A q \in Machines : Prepared(q)'
  <2>1. /\ sv[p] = "msi" /\ sv'[p] = "uffd"
        /\ sv'[Other(p)] = sv[Other(p)]
        /\ UNCHANGED <<cl, mch, count, mapped, uffd, handler>>
    BY <1>a, <1>6 DEF ServerInitMSI, StoresOK, TypesOK
  <2>2. inited'[p] /\ inited'[Other(p)] = inited[Other(p)]
    BY <1>0, <1>a, <1>6, SetTrue DEF ServerInitMSI, StoresOK
  <2> QED
    BY <1>0, <2>1, <2>2 DEF Prepared, RoleKnown
<1>7. ASSUME NEW p \in Machines, ServerUffd(p)
      PROVE  \A q \in Machines : Prepared(q)'
  <2>1. /\ sv[p] = "uffd" /\ sv'[p] = "loop"
        /\ sv'[Other(p)] = sv[Other(p)]
        /\ UNCHANGED <<cl, mch, count, mapped, inited, handler>>
    BY <1>a, <1>7 DEF ServerUffd, StoresOK, TypesOK
  <2>2. uffd'[p] /\ uffd'[Other(p)] = uffd[Other(p)]
    BY <1>0, <1>a, <1>7, SetTrue DEF ServerUffd, StoresOK
  <2> QED
    BY <1>0, <2>1, <2>2 DEF Prepared, RoleKnown
<1>8. ASSUME NEW p \in Machines, LoopRead(p)
      PROVE  \A q \in Machines : Prepared(q)'
  <2>1. /\ chan[Other(p)] # <<>>
        /\ count'[Other(p)] = count[Other(p)]
        /\ UNCHANGED <<sv, cl, mch, mapped, inited, uffd, handler>>
    BY <1>a, <1>8 DEF LoopRead, StoresOK, TypesOK
  <2>2. mch[p] # 1
    BY <1>0, <1>a, <2>1 DEF OneStruct, HasSent, DifferentRoles
  <2> QED
    BY <1>0, <2>1, <2>2 DEF Prepared, RoleKnown
<1>9. ASSUME NEW p \in Machines, Connect(p)
      PROVE  \A q \in Machines : Prepared(q)'
  <2>1. /\ cl[p] = "connect" /\ cl'[p] \in {"one", "two"}
        /\ cl'[Other(p)] = cl[Other(p)]
        /\ UNCHANGED <<sv, mch, count, mapped, inited, uffd, handler>>
    BY <1>a, <1>9 DEF Connect, StoresOK, TypesOK
  <2> QED
    BY <1>0, <2>1 DEF Prepared, RoleKnown
<1>10. ASSUME NEW p \in Machines, SetRole(p)
      PROVE  \A q \in Machines : Prepared(q)'
  <2>1. /\ \/ cl[p] = "one" /\ cl'[p] = "retry" /\ mch'[p] = 1
           \/ cl[p] = "two" /\ cl'[p] = "wait" /\ mch'[p] = 2
        /\ cl'[Other(p)] = cl[Other(p)]
        /\ mch'[Other(p)] = mch[Other(p)]
        /\ UNCHANGED <<sv, count, mapped, inited, uffd, handler>>
    BY <1>a, <1>10 DEF SetRole, StoresOK, TypesOK
  <2> QED
    BY <1>0, <2>1 DEF Prepared, RoleKnown
<1>11. ASSUME NEW p \in Machines, Retry(p)
      PROVE  \A q \in Machines : Prepared(q)'
  <2>1. /\ cl[p] = "retry" /\ cl'[p] = "count"
        /\ cl'[Other(p)] = cl[Other(p)]
        /\ UNCHANGED <<sv, mch, count, mapped, inited, uffd, handler>>
    BY <1>a, <1>11 DEF Retry, StoresOK, TypesOK
  <2> QED
    BY <1>0, <2>1 DEF Prepared, RoleKnown
<1>12. ASSUME NEW p \in Machines, NEW n \in Counts, TypeCount(p, n)
      PROVE  \A q \in Machines : Prepared(q)'
  <2>1. /\ cl[p] = "count" /\ cl'[p] = "msi" /\ count'[p] = mapped'[p]
        /\ cl'[Other(p)] = cl[Other(p)]
        /\ count'[Other(p)] = count[Other(p)]
        /\ mapped'[Other(p)] = mapped[Other(p)]
        /\ UNCHANGED <<sv, mch, inited, uffd, handler>>
    BY <1>a, <1>12 DEF TypeCount, StoresOK, TypesOK
  <2> QED
    BY <1>0, <2>1 DEF Prepared, RoleKnown
<1>13. ASSUME NEW p \in Machines, ClientInitMSI(p)
      PROVE  \A q \in Machines : Prepared(q)'
  <2>1. /\ cl[p] = "msi" /\ cl'[p] = "send"
        /\ cl'[Other(p)] = cl[Other(p)]
        /\ UNCHANGED <<sv, mch, count, mapped, uffd, handler>>
    BY <1>a, <1>13 DEF ClientInitMSI, StoresOK, TypesOK
  <2>2. inited'[p] /\ inited'[Other(p)] = inited[Other(p)]
    BY <1>0, <1>a, <1>13, SetTrue DEF ClientInitMSI, StoresOK
  <2> QED
    BY <1>0, <2>1, <2>2 DEF Prepared, RoleKnown
<1>14. ASSUME NEW p \in Machines, SendInit(p)
      PROVE  \A q \in Machines : Prepared(q)'
  <2>1. /\ cl[p] = "send" /\ cl'[p] = "uffd"
        /\ cl'[Other(p)] = cl[Other(p)]
        /\ UNCHANGED <<sv, mch, count, mapped, inited, uffd, handler>>
    BY <1>a, <1>14 DEF SendInit, StoresOK, TypesOK
  <2> QED
    BY <1>0, <2>1 DEF Prepared, RoleKnown
<1>15. ASSUME NEW p \in Machines, ClientUffd(p)
      PROVE  \A q \in Machines : Prepared(q)'
  <2>1. /\ cl[p] = "uffd" /\ cl'[p] = "handler"
        /\ cl'[Other(p)] = cl[Other(p)]
        /\ UNCHANGED <<sv, mch, count, mapped, inited, handler>>
    BY <1>a, <1>15 DEF ClientUffd, StoresOK, TypesOK
  <2>2. uffd'[p] /\ uffd'[Other(p)] = uffd[Other(p)]
    BY <1>0, <1>a, <1>15, SetTrue DEF ClientUffd, StoresOK
  <2> QED
    BY <1>0, <2>1, <2>2 DEF Prepared, RoleKnown
<1>16. ASSUME NEW p \in Machines, WaitAddr(p)
      PROVE  \A q \in Machines : Prepared(q)'
  <2>1. /\ cl[p] = "wait" /\ cl'[p] = "handler" /\ sv[p] = "loop"
        /\ cl'[Other(p)] = cl[Other(p)]
        /\ UNCHANGED <<sv, mch, count, mapped, inited, uffd, handler>>
    BY <1>a, <1>16 DEF WaitAddr, StoresOK, TypesOK, Assumed, AllTiming
  <2> QED
    BY <1>0, <2>1 DEF Prepared, RoleKnown
<1>17. ASSUME NEW p \in Machines, StartHandler(p)
      PROVE  \A q \in Machines : Prepared(q)'
  <2>1. /\ cl[p] = "handler" /\ cl'[p] = "menu"
        /\ handler'[p] = (IF uffd[p] THEN "uffd" ELSE "stdin")
        /\ cl'[Other(p)] = cl[Other(p)]
        /\ handler'[Other(p)] = handler[Other(p)]
        /\ UNCHANGED <<sv, mch, count, mapped, inited, uffd>>
    BY <1>a, <1>17 DEF StartHandler, StoresOK, TypesOK
  <2> QED
    BY <1>0, <2>1 DEF Prepared, RoleKnown
<1>18. CASE UNCHANGED vars
  BY <1>18 DEF vars, ReadyInv, Prepared
<1> QED
  BY <1>1, <1>2, <1>3, <1>4, <1>5, <1>6, <1>7, <1>8, <1>9, <1>10, <1>11, <1>12, <1>13, <1>14, <1>15, <1>16, <1>17, <1>18
  DEF Next, Server, Client

\* With the three assumptions on time, a menu that is shown works on ready
\* state: list_MSI is set, faults go to a registered userfaultfd, page_count
\* is the length of the mapping, and both menus have equally many pages.
THEOREM MenusAreReady == Spec => []MenuReady
<1> DEFINE Inv == timing = AllTiming => ReadyInv
<1>1. Init => Inv
  <2>1. Init => FollowInv
    BY DEF Init, FollowInv, StoresOK, TypesOK, ServerPC, ClientPC, RoleKnown, OneStruct,
           HasSent, TakenOver
  <2> QED
    BY <2>1, RoleInit DEF Init, ReadyInv, Prepared
<1>2. Inv /\ [Next]_vars => Inv'
  <2>0. [Next]_vars => timing' = timing
    BY DEF Next, vars
  <2> SUFFICES ASSUME timing = AllTiming, ReadyInv, [Next]_vars PROVE ReadyInv'
    BY <2>0
  <2>1. RoleInv'
    BY RoleStep DEF ReadyInv, AllTiming
  <2>2. FollowInv'
    BY FollowStep DEF ReadyInv
  <2> QED
    BY <2>1, <2>2, PreparedStep DEF ReadyInv
<1>3. Inv => MenuReady
  <2> SUFFICES ASSUME timing = AllTiming, ReadyInv, NEW p \in Machines, cl[p] = "menu"
               PROVE  /\ inited[p] /\ handler[p] = "uffd" /\ count[p] = mapped[p]
                      /\ cl[Other(p)] = "menu" => mapped[p] = mapped[Other(p)]
    BY DEF MenuReady
  <2>1. /\ RoleKnown(p) /\ TakenOver(p) /\ Prepared(p)
        /\ RoleKnown(Other(p)) /\ TakenOver(Other(p)) /\ Other(Other(p)) = p
    BY DEF ReadyInv, FollowInv
  <2>2. DifferentRoles
    BY DEF ReadyInv, RoleInv, RoleSet, FirstIsOne, DifferentRoles, TypesOK
  <2>3. CASE mch[p] = 1
    <3>1. cl[Other(p)] = "menu" => mch[Other(p)] = 2
      BY <2>1, <2>2, <2>3 DEF RoleKnown, DifferentRoles
    <3> QED
      BY <2>1, <2>3, <3>1 DEF Prepared, TakenOver
  <2>4. CASE mch[p] = 2
    BY <2>1, <2>4 DEF Prepared, TakenOver
  <2> QED
    BY <2>1, <2>3, <2>4 DEF RoleKnown
<1> QED
  BY <1>1, <1>2, <1>3, PTL DEF Spec
=============================================================================
