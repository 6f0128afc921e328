----------------------------- MODULE MSI_proofs -----------------------------
(***************************************************************************)
(* Proofs about MSI, for every number of pages, page length, set of texts  *)
(* and number of commands: types and indices for operators who type at     *)
(* will, coherence and freshness for operators who take turns.             *)
(***************************************************************************)
EXTENDS MSI, FiniteSetTheorems, TLAPS

USE DEF Machines, Other

-----------------------------------------------------------------------------
(* Type correctness.                                                       *)

\* What Text returns for a page or a buffer is a sequence of bytes no longer
\* than a page.
LEMMA TextType ==
    ASSUME NEW b \in Buf
    PROVE  /\ Strlen(b) \in 0 .. PageLen
           /\ Text(b) \in Seq(Bytes)
           /\ Len(Text(b)) = Strlen(b)
<1> DEFINE S == {i \in 1 .. PageLen : \A j \in 1 .. i : b[j] # NUL}
<1>1. /\ IsFiniteSet(1 .. PageLen)
      /\ Cardinality(1 .. PageLen) = PageLen
  BY FS_Interval, PageLenAssumption
<1>2. S \subseteq 1 .. PageLen
  OBVIOUS
<1>3. /\ IsFiniteSet(S)
      /\ Cardinality(S) <= PageLen
  BY <1>1, <1>2, FS_Subset
<1>4. Cardinality(S) \in Nat
  BY <1>3, FS_CardinalityType
<1>5. Strlen(b) \in 0 .. PageLen
  BY <1>3, <1>4, PageLenAssumption DEF Strlen
<1>6. \A i \in 1 .. Strlen(b) : b[i] \in Bytes
  BY <1>5, PageLenAssumption DEF Buf
<1> QED
  BY <1>5, <1>6 DEF Text

\* Overlay keeps a buffer a buffer.
LEMMA OverlayType ==
    ASSUME NEW b \in Buf, NEW t \in Seq(Bytes)
    PROVE  Overlay(b, t) \in Buf
  BY PageLenAssumption DEF Overlay, Buf

LEMMA ZeroedType == Zeroed \in Buf
  BY DEF Zeroed, Buf, Bytes

\* A mixture of two structs is a struct.
LEMMA MixedType ==
    ASSUME NEW F, NEW a \in ProcInfo, NEW b \in ProcInfo
    PROVE  Mixed(F, a, b) \in ProcInfo
  BY DEF Mixed, ProcInfo

LEMMA StoreTempType ==
    ASSUME TypeOK, NEW p \in Machines, NEW own \in ProcInfo, NEW late \in ProcInfo,
           StoreTemp(p, own, late)
    PROVE  /\ temp' \in [Machines -> ProcInfo]
           /\ spc' \in [Machines -> ServerPC]
<1>1. CASE temp' = [temp EXCEPT ![p] = own] /\ UNCHANGED spc
  BY <1>1 DEF TypeOK
<1>2. CASE /\ \E F \in SUBSET Fields :
                 temp' = [temp EXCEPT ![p] = Mixed(F, late, recv[p])]
           /\ spc' = [spc EXCEPT ![p] = "react"]
  <2>1. PICK F \in SUBSET Fields : temp' = [temp EXCEPT ![p] = Mixed(F, late, recv[p])]
    BY <1>2
  <2>2. recv[p] \in ProcInfo
    BY DEF TypeOK
  <2>3. Mixed(F, late, recv[p]) \in ProcInfo
    BY <2>2, MixedType
  <2> QED
    BY <1>2, <2>1, <2>3 DEF TypeOK, ServerPC
<1> QED
  BY <1>1, <1>2 DEF StoreTemp

LEMMA LoadableType ==
    ASSUME TypeOK, NEW p \in Machines, NEW m \in Loadable(p)
    PROVE  m \in ProcInfo
<1>1. temp[p] \in ProcInfo /\ recv[p] \in ProcInfo
  BY DEF TypeOK
<1> QED
  BY <1>1, MixedType DEF Loadable

\* What is between two states is a triple of flags.
LEMMA TornType ==
    ASSUME NEW s \in Flags, NEW t \in Flags, NEW u \in Torn(s, t)
    PROVE  u \in Flags
  BY DEF Torn, Flags

LEMMA StoreStateType ==
    ASSUME TypeOK, NEW p \in Machines, NEW k, NEW s \in Flags,
           StoreState(p, k, s)
    PROVE  /\ msi' \in [Machines -> [Pages -> Flags]]
           /\ spc' \in [Machines -> ServerPC]
<1>1. CASE msi' = [msi EXCEPT ![p][k] = s] /\ UNCHANGED spc
  BY <1>1 DEF TypeOK
<1>2. CASE /\ \E t \in Torn(s, ServerState(spc[p])) : msi' = [msi EXCEPT ![p][k] = t]
           /\ spc' = [spc EXCEPT ![p] = AfterStore(@)]
  <2>1. PICK t \in Torn(s, ServerState(spc[p])) : msi' = [msi EXCEPT ![p][k] = t]
    BY <1>2
  <2>2. ServerState(spc[p]) \in Flags
    BY DEF ServerState, Invalid, Shared, Flags
  <2>3. t \in Flags
    BY <2>2, TornType
  <2>4. msi' \in [Machines -> [Pages -> Flags]]
    BY <2>1, <2>3 DEF TypeOK
  <2>5. spc' \in [Machines -> ServerPC]
    BY <1>2 DEF TypeOK, AfterStore, ServerPC
  <2> QED
    BY <2>4, <2>5
<1> QED
  BY <1>1, <1>2 DEF StoreState

LEMMA NextPageType ==
    ASSUME TypeOK, NEW p \in Machines, NEW first \in MenuPC, NextPage(p, first)
    PROVE  /\ idx' \in [Machines -> Pages]
           /\ mpc' \in [Machines -> MenuPC]
           /\ all' \in [Machines -> BOOLEAN]
<1>0. PageCount \in Nat \ {0}
  BY PageCountAssumption
<1>1. /\ idx \in [Machines -> Pages]
      /\ mpc \in [Machines -> MenuPC]
      /\ all \in [Machines -> BOOLEAN]
  BY DEF TypeOK
<1>2. "prompt" \in MenuPC
  BY DEF MenuPC
<1>3. CASE all[p] /\ idx[p] + 1 < PageCount
  <2>1. idx[p] + 1 \in Pages
    BY <1>0, <1>1, <1>3 DEF Pages
  <2> QED
    BY <1>1, <1>3, <2>1 DEF NextPage
<1>4. CASE ~(all[p] /\ idx[p] + 1 < PageCount)
  <2>1. 0 \in Pages
    BY <1>0 DEF Pages
  <2>2. /\ idx' = [idx EXCEPT ![p] = 0]
        /\ mpc' = [mpc EXCEPT ![p] = "prompt"]
        /\ all' = [all EXCEPT ![p] = FALSE]
    BY <1>4 DEF NextPage
  <2> QED
    BY <1>1, <1>2, <2>1, <2>2
<1> QED
  BY <1>3, <1>4

LEMMA InitType == Init => TypeOK
<1> SUFFICES ASSUME Init PROVE TypeOK
  OBVIOUS
<1>1. /\ 0 \in Pages
      /\ MaxOps \in Nat
  BY PageCountAssumption, MaxOpsAssumption DEF Pages
<1>2. FreshBufs \subseteq Buf
  BY FreshAssumption
<1>3. {Text(b) : b \in FreshBufs} \subseteq Seq(Bytes)
  BY <1>2, TextType
<1>4. Blank \in ProcInfo
  BY <1>1 DEF Blank, ProcInfo
<1>5. temp \in [Machines -> ProcInfo]
  <2>1. PICK garbage \in [Signals -> SUBSET UninitPages] :
          temp = [p \in Machines |->
                    IF p = 1 THEN Blank
                    ELSE [Blank EXCEPT !.read_signal = garbage["read_signal"],
                                       !.invalidate_signal = garbage["invalidate_signal"],
                                       !.BusRdx = garbage["BusRdx"],
                                       !.BusUpgr = garbage["BusUpgr"]]]
    BY DEF Init
  <2>2. \A g \in Signals : garbage[g] \in SUBSET Pages
    BY UninitAssumption DEF Pages
  <2>3. /\ garbage["read_signal"] \in SUBSET Pages
        /\ garbage["invalidate_signal"] \in SUBSET Pages
        /\ garbage["BusRdx"] \in SUBSET Pages
        /\ garbage["BusUpgr"] \in SUBSET Pages
    BY <2>2 DEF Signals
  <2> QED
    BY <1>4, <2>1, <2>3 DEF ProcInfo
<1>6. /\ Invalid \in Flags
      /\ Zeroed \in Buf
      /\ <<>> \in Seq(ProcInfo)
      /\ <<>> \in Seq(Bytes)
  BY ZeroedType DEF Invalid, Flags
<1>7. /\ "prompt" \in MenuPC
      /\ "recv" \in ServerPC
  BY DEF MenuPC, ServerPC
<1>8. message \in [Machines -> Seq(Bytes)] /\ recvbuf \in [Machines -> Buf]
  BY <1>2, <1>3 DEF Init
<1> QED
  BY <1>1, <1>4, <1>5, <1>6, <1>7, <1>8 DEF Init, TypeOK

LEMMA StepType == TypeOK /\ [Next]_vars => TypeOK'
<1> SUFFICES ASSUME TypeOK, [Next]_vars
             PROVE  TypeOK'
  OBVIOUS
<1> DEFINE Structs == [Machines -> ProcInfo]
<1>0. /\ \A p \in Machines : /\ Other(p) \in Machines
                             /\ temp[p] \in ProcInfo
                             /\ recv[p] \in ProcInfo
                             /\ idx[p] \in Pages
                             /\ off[p] \in Pages \cup {-1}
      /\ 0 \in Pages
      /\ PageCount \in Nat /\ PageLen \in Nat /\ MaxOps \in Nat
  BY PageCountAssumption, PageLenAssumption, MaxOpsAssumption DEF TypeOK, Pages
<1>pc. /\ {"prompt", "r_off", "r_page", "r_check", "r_memset", "r_flags", "r_state",
           "r_send", "r_wait", "r_local", "w_type", "w_num", "w_check",
           "w_rdx", "w_upgr", "w_state", "w_off", "w_page", "w_copy", "w_send"} \subseteq MenuPC
       /\ {"recv", "copy", "react", "flush", "toS", "toS_none", "no_data",
           "toI"} \subseteq ServerPC
  BY DEF MenuPC, ServerPC
<1>page. \A t \in ProcInfo, k \in Pages \cup {-1} :
            /\ [t EXCEPT !.page_num = k] \in ProcInfo
            /\ [t EXCEPT !.access_page = k] \in ProcInfo
            /\ t.page_num \in Pages \cup {-1}
            /\ t.access_page \in Pages \cup {-1}
  BY DEF ProcInfo
<1>flags. \A t \in ProcInfo, k \in Pages :
            /\ ReadRequest(t, k) \in ProcInfo
            /\ ReadDone(t, k) \in ProcInfo
            /\ RdxRequest(t, k) \in ProcInfo
            /\ UpgrRequest(t, k) \in ProcInfo
  <2> SUFFICES ASSUME NEW t \in ProcInfo, NEW k \in Pages
               PROVE  /\ ReadRequest(t, k) \in ProcInfo
                      /\ ReadDone(t, k) \in ProcInfo
                      /\ RdxRequest(t, k) \in ProcInfo
                      /\ UpgrRequest(t, k) \in ProcInfo
    OBVIOUS
  <2>1. ReadRequest(t, k) \in ProcInfo /\ ReadDone(t, k) \in ProcInfo
    BY DEF ProcInfo, ReadRequest, ReadDone
  <2>2. RdxRequest(t, k) \in ProcInfo /\ UpgrRequest(t, k) \in ProcInfo
    BY DEF ProcInfo, RdxRequest, UpgrRequest
  <2> QED
    BY <2>1, <2>2
<1>states. Modified \in Flags /\ Shared \in Flags /\ Invalid \in Flags
  BY DEF Modified, Shared, Invalid, Flags
<1>1. ASSUME NEW p \in Machines, NEW k \in Pages \cup {-1},
             NEW single \in MenuPC, NEW every \in MenuPC, Command(p, k, single, every)
      PROVE  TypeOK'
  <2>1. temp' \in Structs /\ spc' \in [Machines -> ServerPC]
    BY <1>1, <1>0, <1>page, StoreTempType DEF Command
  <2>i. PICK i \in {k, temp'[p].page_num} :
          /\ idx' = [idx EXCEPT ![p] = IF i = -1 THEN 0 ELSE i]
          /\ all' = [all EXCEPT ![p] = i = -1]
          /\ Goto(p, IF i = -1 THEN every ELSE single)
    BY <1>1 DEF Command
  <2>n. i \in Pages \cup {-1}
    BY <2>1, <1>page
  <2>2. idx' \in [Machines -> Pages] /\ mpc' \in [Machines -> MenuPC]
    BY <1>0, <2>i, <2>n DEF TypeOK, Goto
  <2>3. all' \in [Machines -> BOOLEAN]
    BY <2>i DEF TypeOK
  <2>4. ops' \in 0 .. MaxOps
    <3>1. ops \in 0 .. MaxOps
      BY DEF TypeOK
    <3>2. ops < MaxOps /\ ops' = ops + 1
      BY <1>1 DEF Command
    <3> QED
      BY <3>1, <3>2, MaxOpsAssumption
  <2> QED
    BY <1>1, <2>1, <2>2, <2>3, <2>4 DEF Command, TypeOK
<1>2. ASSUME NEW p \in Machines, NEW k \in Pages \cup {-1}, StartRead(p, k)
      PROVE  TypeOK'
  BY <1>1, <1>2, <1>pc DEF StartRead
<1>3. ASSUME NEW p \in Machines, NEW k \in Pages \cup {-1}, StartWrite(p, k)
      PROVE  TypeOK'
  BY <1>1, <1>3, <1>pc DEF StartWrite
<1>4. ASSUME NEW p \in Machines, NEW k \in Pages \cup {-1}, View(p, k)
      PROVE  TypeOK'
  <2>1. temp' \in Structs /\ spc' \in [Machines -> ServerPC]
    BY <1>4, <1>0, <1>page, StoreTempType DEF View
  <2>2. ops' \in 0 .. MaxOps
    <3>1. ops \in 0 .. MaxOps
      BY DEF TypeOK
    <3>2. ops < MaxOps /\ ops' = ops + 1
      BY <1>4 DEF View
    <3> QED
      BY <3>1, <3>2, MaxOpsAssumption
  <2> QED
    BY <1>4, <2>1, <2>2 DEF View, TypeOK
<1>5. ASSUME NEW p \in Machines, Quit(p) \/ PeerGone(p) \/ SigPipe(p)
      PROVE  TypeOK'
  <2>a. alive' = [alive EXCEPT ![p] = FALSE]
    BY <1>5 DEF Quit, PeerGone, SigPipe
  <2>1. alive' \in [Machines -> BOOLEAN]
    BY <2>a DEF TypeOK
  <2>2. UNCHANGED <<ops, mpc, idx, all, off, message, recvbuf, spc, recv, temp, msi, mem,
                    present, req, rep, latest>>
    BY <1>5 DEF Quit, PeerGone, SigPipe
  <2> QED
    BY <2>1, <2>2 DEF TypeOK
<1>6. ASSUME NEW p \in Machines, ReadPage(p)
      PROVE  TypeOK'
  <2>1. \A t \in ProcInfo : PageOf(p, t) \in ProcInfo
    BY <1>0 DEF PageOf, ProcInfo
  <2>2. temp' \in Structs /\ spc' \in [Machines -> ServerPC]
    BY <1>6, <1>0, <2>1, StoreTempType DEF ReadPage
  <2> QED
    BY <1>0, <1>6, <1>pc, <2>2 DEF ReadPage, Goto, TypeOK
<1>off. ASSUME NEW p \in Machines, ReadOff(p) \/ WriteOff(p)
        PROVE  TypeOK'
  <2>1. off' \in [Machines -> Pages \cup {-1}]
    BY <1>off, <1>0, <1>page DEF ReadOff, WriteOff, LoadPage, TypeOK
  <2>2. mpc' \in [Machines -> MenuPC]
    BY <1>off, <1>pc DEF ReadOff, WriteOff, LoadPage, Goto, TypeOK
  <2>3. UNCHANGED <<alive, ops, idx, all, message, recvbuf, spc, recv, temp, msi, mem,
                    present, req, rep, latest>>
    BY <1>off DEF ReadOff, WriteOff, LoadPage
  <2> QED
    BY <2>1, <2>2, <2>3 DEF TypeOK
<1>7. ASSUME NEW p \in Machines, ReadCheck(p)
      PROVE  TypeOK'
  <2>1. /\ idx' \in [Machines -> Pages]
        /\ mpc' \in [Machines -> MenuPC]
        /\ all' \in [Machines -> BOOLEAN]
    <3>1. CASE NextPage(p, "r_page")
      BY <3>1, <1>pc, NextPageType
    <3>2. CASE (Goto(p, "r_memset") \/ Goto(p, "r_local")) /\ UNCHANGED <<idx, all>>
      BY <3>2, <1>pc DEF Goto, TypeOK
    <3> QED
      BY <1>7, <3>1, <3>2 DEF ReadCheck
  <2> QED
    BY <1>7, <2>1 DEF ReadCheck, TypeOK
<1>8. ASSUME NEW p \in Machines, ReadLocal(p)
      PROVE  TypeOK'
  <2>1. /\ idx' \in [Machines -> Pages]
        /\ mpc' \in [Machines -> MenuPC]
        /\ all' \in [Machines -> BOOLEAN]
    BY <1>8, <1>pc, NextPageType DEF ReadLocal
  <2> QED
    BY <1>8, <2>1 DEF ReadLocal, TypeOK
<1>9. ASSUME NEW p \in Machines, ReadMemset(p)
      PROVE  TypeOK'
  <2>1. mem' \in [Machines -> [Pages -> Buf]]
    BY <1>9, ZeroedType DEF ReadMemset, TypeOK
  <2> QED
    BY <1>9, <1>pc, <2>1 DEF ReadMemset, Goto, TypeOK
<1>10. ASSUME NEW p \in Machines, ReadFlags(p)
       PROVE  TypeOK'
  <2>1. temp' \in Structs /\ spc' \in [Machines -> ServerPC]
    BY <1>10, <1>0, <1>flags, StoreTempType DEF ReadFlags
  <2> QED
    BY <1>10, <1>pc, <2>1 DEF ReadFlags, Goto, TypeOK
<1>11. ASSUME NEW p \in Machines, ReadState(p)
       PROVE  TypeOK'
  <2>1. msi' \in [Machines -> [Pages -> Flags]] /\ spc' \in [Machines -> ServerPC]
    <3>1. CASE \E t \in Loadable(p) : StoreState(p, t.page_num, Shared)
      BY <3>1, <1>states, StoreStateType
    <3>2. CASE UNCHANGED <<msi, spc>>
      BY <3>2 DEF TypeOK
    <3> QED
      BY <1>11, <3>1, <3>2 DEF ReadState
  <2> QED
    BY <1>11, <1>pc, <2>1 DEF ReadState, Goto, TypeOK
<1>12. ASSUME NEW p \in Machines, NEW m \in Loadable(p),
              req' = [req EXCEPT ![p] = Append(@, m)]
       PROVE  req' \in [Machines -> Seq(ProcInfo)]
  <2>1. m \in ProcInfo
    BY <1>12, LoadableType
  <2> QED
    BY <1>12, <2>1 DEF TypeOK
<1>13. ASSUME NEW p \in Machines, ReadSend(p)
       PROVE  TypeOK'
  <2>1. req' \in [Machines -> Seq(ProcInfo)]
    BY <1>12, <1>13 DEF ReadSend
  <2> QED
    BY <1>13, <1>pc, <2>1 DEF ReadSend, Goto, TypeOK
<1>14. ASSUME NEW p \in Machines, ReadReply(p) \/ ReadEOF(p)
       PROVE  TypeOK'
  <2>1. temp' \in Structs /\ spc' \in [Machines -> ServerPC]
    BY <1>14, <1>0, <1>flags, StoreTempType DEF ReadReply, ReadEOF
  <2>2. /\ idx' \in [Machines -> Pages]
        /\ mpc' \in [Machines -> MenuPC]
        /\ all' \in [Machines -> BOOLEAN]
    BY <1>14, <1>pc, NextPageType DEF ReadReply, ReadEOF
  <2>3. recvbuf' \in [Machines -> Buf] /\ rep' \in [Machines -> Seq(Bytes)]
    <3>1. CASE ReadEOF(p)
      BY <3>1 DEF ReadEOF, TypeOK
    <3>2. CASE ReadReply(p)
      <4>1. rep[p] \in Seq(Bytes) /\ recvbuf[p] \in Buf
        BY DEF TypeOK
      <4>2. Overlay(recvbuf[p], rep[p]) \in Buf
        BY <4>1, OverlayType
      <4>3. SubSeq(rep[p], PageLen + 1, Len(rep[p])) \in Seq(Bytes)
        BY <4>1, <1>0
      <4> QED
        BY <3>2, <4>2, <4>3 DEF ReadReply, TypeOK
    <3> QED
      BY <1>14, <3>1, <3>2
  <2> QED
    BY <1>14, <2>1, <2>2, <2>3 DEF ReadReply, ReadEOF, TypeOK
<1>15. ASSUME NEW p \in Machines, NEW t \in Texts, WriteType(p, t)
       PROVE  TypeOK'
  <2>1. t \in Seq(Bytes)
    BY TextsAssumption DEF Bytes
  <2>2. message' \in [Machines -> Seq(Bytes)]
    BY <1>15, <2>1 DEF WriteType, Typed, TypeOK
  <2> QED
    BY <1>15, <1>pc, <2>2 DEF WriteType, Goto, TypeOK
<1>16. ASSUME NEW p \in Machines, WriteNum(p)
       PROVE  TypeOK'
  <2>1. temp' \in Structs /\ spc' \in [Machines -> ServerPC]
    BY <1>16, <1>0, <1>page, StoreTempType DEF WriteNum
  <2> QED
    BY <1>16, <1>pc, <2>1 DEF WriteNum, Goto, TypeOK
<1>17. ASSUME NEW p \in Machines, WriteCheck(p)
       PROVE  TypeOK'
  BY <1>17, <1>pc DEF WriteCheck, Goto, TypeOK
<1>18. ASSUME NEW p \in Machines, WriteFlags(p)
       PROVE  TypeOK'
  <2>1. temp' \in Structs /\ spc' \in [Machines -> ServerPC]
    BY <1>18, <1>0, <1>flags, StoreTempType DEF WriteFlags
  <2> QED
    BY <1>18, <1>pc, <2>1 DEF WriteFlags, Goto, TypeOK
<1>19. ASSUME NEW p \in Machines, WriteState(p)
       PROVE  TypeOK'
  <2>1. msi' \in [Machines -> [Pages -> Flags]] /\ spc' \in [Machines -> ServerPC]
    BY <1>19, <1>states, StoreStateType DEF WriteState
  <2> QED
    BY <1>19, <1>pc, <2>1 DEF WriteState, Goto, TypeOK
<1>20. ASSUME NEW p \in Machines, WritePage(p)
       PROVE  TypeOK'
  <2>1. temp' \in Structs /\ spc' \in [Machines -> ServerPC]
    BY <1>20, <1>0, <1>page, StoreTempType DEF WritePage
  <2> QED
    BY <1>0, <1>20, <1>pc, <2>1 DEF WritePage, Goto, TypeOK
<1>21. ASSUME NEW p \in Machines, WriteCopy(p)
       PROVE  TypeOK'
  <2> DEFINE k == temp[p].access_page
             b == Overlay(mem[p][k], message[p])
  <2>1. mem' \in [Machines -> [Pages -> Buf]] /\ latest' \in [Pages -> Seq(Bytes)]
    <3>1. CASE k \in Pages
      <4>1. b \in Buf
        BY SMTT(40), <3>1, OverlayType DEF TypeOK
      <4>2. Text(b) \in Seq(Bytes)
        BY <4>1, TextType
      <4> QED
        BY <1>21, <4>1, <4>2 DEF WriteCopy, TypeOK
    <3>2. CASE k \notin Pages
      <4>1. mem' = mem /\ latest' = latest
        BY <1>21, <3>2 DEF WriteCopy, TypeOK
      <4> QED
        BY <4>1 DEF TypeOK
    <3> QED
      BY <3>1, <3>2
  <2>2. mpc' \in [Machines -> MenuPC]
    BY <1>21, <1>pc DEF WriteCopy, Goto, TypeOK
  <2>3. UNCHANGED <<alive, ops, idx, all, off, message, recvbuf, spc, recv, temp, msi,
                    present, req, rep>>
    BY <1>21 DEF WriteCopy
  <2> QED
    BY <2>1, <2>2, <2>3 DEF TypeOK
<1>22. ASSUME NEW p \in Machines, WriteSend(p)
       PROVE  TypeOK'
  <2>1. req' \in [Machines -> Seq(ProcInfo)]
    BY <1>12, <1>22 DEF WriteSend
  <2>2. /\ idx' \in [Machines -> Pages]
        /\ mpc' \in [Machines -> MenuPC]
        /\ all' \in [Machines -> BOOLEAN]
    BY <1>22, <1>pc, NextPageType DEF WriteSend
  <2> QED
    BY <1>22, <2>1, <2>2 DEF WriteSend, TypeOK
<1>23. ASSUME NEW p \in Machines, Receive(p)
       PROVE  TypeOK'
  <2>1. /\ Head(req[Other(p)]) \in ProcInfo
        /\ Tail(req[Other(p)]) \in Seq(ProcInfo)
    BY <1>23, <1>0 DEF Receive, TypeOK
  <2> QED
    BY <1>23, <1>0, <1>pc, <2>1 DEF Receive, TypeOK
<1>24. ASSUME NEW p \in Machines, CopyIn(p)
       PROVE  TypeOK'
  BY <1>24, <1>0, <1>pc DEF CopyIn, TypeOK
<1>25. ASSUME NEW p \in Machines, React(p)
       PROVE  TypeOK'
  <2>1. \A s, u : Reaction(s, u, recv[p]) \in ServerPC
    BY <1>pc DEF Reaction
  <2> QED
    BY <1>25, <2>1 DEF React, TypeOK
<1>26. ASSUME NEW p \in Machines, Flush(p)
       PROVE  TypeOK'
  <2>1. temp[p].access_page \in Pages
    BY <1>26 DEF Flush, Mapped, TypeOK
  <2>2. Text(mem[p][temp[p].access_page]) \in Seq(Bytes)
    <3>1. mem[p][temp[p].access_page] \in Buf
      BY <2>1 DEF TypeOK
    <3> QED
      BY <3>1, TextType
  <2>3. rep' \in [Machines -> Seq(Bytes)]
    BY <1>26, <1>0, <2>2 DEF Flush, TypeOK
  <2> QED
    BY <1>26, <1>pc, <2>3 DEF Flush, TypeOK
<1>27. ASSUME NEW p \in Machines, ServerStore(p)
       PROVE  TypeOK'
  <2>1. ServerState(spc[p]) \in Flags /\ AfterStore(spc[p]) \in ServerPC
    BY <1>states, <1>pc DEF ServerState, AfterStore
  <2> QED
    BY <1>27, <2>1 DEF ServerStore, TypeOK
<1>28. ASSUME NEW p \in Machines, NoData(p)
       PROVE  TypeOK'
  <2>0. SPACE \in Bytes
    BY DEF Bytes
  <2>1. rep' \in [Machines -> Seq(Bytes)]
    BY <1>28, <1>0, <2>0 DEF NoData, TypeOK
  <2> QED
    BY <1>28, <1>pc, <2>1 DEF NoData, TypeOK
<1>29. ASSUME NEW p \in Machines, FaultHandler(p)
       PROVE  TypeOK'
  <2>1. mem' \in [Machines -> [Pages -> Buf]] /\ present' \in [Machines -> SUBSET Pages]
    BY <1>29, ZeroedType DEF FaultHandler, TypeOK
  <2> QED
    BY <1>29, <2>1 DEF FaultHandler, TypeOK
<1>30. CASE UNCHANGED vars
  BY <1>30 DEF vars, TypeOK
<1> QED
  BY <1>2, <1>3, <1>4, <1>5, <1>6, <1>off, <1>7, <1>8, <1>9, <1>10, <1>11, <1>13,
     <1>14, <1>15, <1>16, <1>17, <1>18, <1>19, <1>20, <1>21, <1>22, <1>23, <1>24, <1>25,
     <1>26, <1>27, <1>28, <1>29, <1>30
     DEF Next, Commands, Step, Menu, Server

\* Whatever the two operators type and however the threads interleave, the
\* program counters, buffers, structs and flags stay in their types: in
\* particular the menu's page index never leaves 0 .. page_count - 1.
THEOREM TypeCorrect == Spec => []TypeOK
<1>1. Init => TypeOK
  BY InitType
<1>2. TypeOK /\ [Next]_vars => TypeOK'
  BY StepType
<1> QED
  BY <1>1, <1>2, PTL DEF Spec
-----------------------------------------------------------------------------
(* No index is out of range.                                               *)

\* Both page numbers of a struct name a page.
InPage(t) == t.page_num \in Pages /\ t.access_page \in Pages

\* Two structs name the same page.
SamePage(u, t) == u.page_num = t.page_num /\ u.access_page = t.access_page

\* p's menu is where temp_data.page_num may be the -1 the operator typed.
MayBeAll(p) ==
    \/ mpc[p] = "prompt"
    \/ all[p] /\ mpc[p] \in {"r_page", "w_type", "w_num"}

\* p's menu is about to store the page it loaded from temp_data.page_num.
AtOff(p) == mpc[p] = "w_page" \/ (mpc[p] = "r_page" /\ ~all[p])

\* The inductive invariant: the -1 is confined to temp_data, and there to the
\* prompt and to the steps before the loop over all pages replaces it, so what
\* is loaded for one page is a page.
RangeInv ==
    \A p \in Machines :
        /\ InPage(recv[p])
        /\ \A i \in 1 .. Len(req[p]) : InPage(req[p][i])
        /\ temp[p].access_page \in Pages
        /\ MayBeAll(p) \/ temp[p].page_num \in Pages
        /\ AtOff(p) => off[p] \in Pages

\* A store to temp_data, racing or not, leaves a page number in range when
\* the stored structs have it there; the other machine's is untouched.
LEMMA StoreTempRange ==
    ASSUME TypeOK, NEW p \in Machines, NEW own \in ProcInfo, NEW late \in ProcInfo,
           InPage(recv[p]), StoreTemp(p, own, late),
           own.access_page \in Pages, late.access_page \in Pages
    PROVE  /\ temp'[p].access_page \in Pages
           /\ temp'[p].page_num \in Pages \cup {own.page_num, late.page_num}
           /\ \A q \in Machines \ {p} : temp'[q] = temp[q]
<1>1. CASE temp' = [temp EXCEPT ![p] = own]
  BY <1>1 DEF TypeOK
<1>2. CASE \E F \in SUBSET Fields :
              temp' = [temp EXCEPT ![p] = Mixed(F, late, recv[p])]
  <2>1. PICK F \in SUBSET Fields : temp' = [temp EXCEPT ![p] = Mixed(F, late, recv[p])]
    BY <1>2
  <2>2. temp'[p] = Mixed(F, late, recv[p])
    BY <2>1 DEF TypeOK
  <2>3. /\ temp'[p].access_page \in {late.access_page, recv[p].access_page}
        /\ temp'[p].page_num \in {late.page_num, recv[p].page_num}
    BY <2>2 DEF Mixed
  <2>4. \A q \in Machines \ {p} : temp'[q] = temp[q]
    BY <2>1 DEF TypeOK
  <2> QED
    BY <2>3, <2>4 DEF InPage
<1> QED
  BY <1>1, <1>2 DEF StoreTemp

\* The same for what is sent.
LEMMA LoadableRange ==
    ASSUME TypeOK, NEW p \in Machines, NEW m \in Loadable(p),
           InPage(temp[p]), InPage(recv[p])
    PROVE  InPage(m)
  BY DEF Loadable, Mixed, InPage

\* Appending a struct that is in range keeps the channel in range.
LEMMA AppendRange ==
    ASSUME TypeOK, RangeInv, NEW p \in Machines, NEW m \in ProcInfo, InPage(m),
           req' = [req EXCEPT ![p] = Append(@, m)]
    PROVE  \A q \in Machines : \A i \in 1 .. Len(req'[q]) : InPage(req'[q][i])
<1> SUFFICES ASSUME NEW q \in Machines, NEW i \in 1 .. Len(req'[q])
             PROVE  InPage(req'[q][i])
  OBVIOUS
<1>1. req[p] \in Seq(ProcInfo) /\ req[q] \in Seq(ProcInfo)
  BY DEF TypeOK
<1>2. CASE q # p
  <2>1. req'[q] = req[q]
    BY <1>2 DEF TypeOK
  <2> QED
    BY <2>1 DEF RangeInv
<1>3. CASE q = p
  <2>1. req'[q] = Append(req[p], m)
    BY <1>3 DEF TypeOK
  <2>2. CASE i \in 1 .. Len(req[p])
    <3>1. req'[q][i] = req[p][i]
      BY <1>1, <2>1, <2>2
    <3> QED
      BY <2>2, <3>1 DEF RangeInv
  <2>3. CASE i = Len(req[p]) + 1
    <3>1. req'[q][i] = m
      BY <1>1, <2>1, <2>3
    <3> QED
      BY <3>1
  <2> QED
    BY <1>1, <2>1, <2>2, <2>3
<1> QED
  BY <1>2, <1>3

\* A step of p's menu that leaves the structs received and sent alone.
LEMMA MenuRange ==
    ASSUME TypeOK, RangeInv, NEW p \in Machines,
           UNCHANGED recv,
           \A q \in Machines : \A i \in 1 .. Len(req'[q]) : InPage(req'[q][i]),
           temp'[p].access_page \in Pages,
           MayBeAll(p)' \/ temp'[p].page_num \in Pages,
           AtOff(p)' => off'[p] \in Pages,
           \A q \in Machines \ {p} : /\ temp'[q] = temp[q]
                                     /\ mpc'[q] = mpc[q]
                                     /\ all'[q] = all[q]
                                     /\ off'[q] = off[q]
    PROVE  RangeInv'
<1> SUFFICES ASSUME NEW q \in Machines
             PROVE  /\ InPage(recv'[q])
                    /\ temp'[q].access_page \in Pages
                    /\ MayBeAll(q)' \/ temp'[q].page_num \in Pages
                    /\ AtOff(q)' => off'[q] \in Pages
  BY DEF RangeInv, InPage
<1>1. InPage(recv'[q])
  BY DEF RangeInv, InPage
<1>2. CASE q = p
  BY <1>1, <1>2
<1>3. CASE q # p
  <2>1. (MayBeAll(q)' <=> MayBeAll(q)) /\ (AtOff(q)' <=> AtOff(q))
    BY <1>3 DEF MayBeAll, AtOff
  <2> QED
    BY <1>1, <1>3, <2>1 DEF RangeInv
<1> QED
  BY <1>2, <1>3

\* Where p's menu goes changes nothing for the other machine.
LEMMA GotoOther ==
    ASSUME TypeOK, NEW p \in Machines, NEW pc \in MenuPC
    PROVE  /\ Goto(p, pc) => /\ mpc'[p] = pc
                             /\ \A q \in Machines \ {p} : mpc'[q] = mpc[q]
           /\ NextPage(p, pc) => \A q \in Machines \ {p} : mpc'[q] = mpc[q] /\ all'[q] = all[q]
  BY DEF TypeOK, Goto, NextPage

\* The menu does not leave a page for the store of one it has loaded.
LEMMA NextNotOff ==
    ASSUME TypeOK, NEW p \in Machines, NEW first \in MenuPC \ {"w_page"}, NextPage(p, first)
    PROVE  ~AtOff(p)'
  BY DEF NextPage, TypeOK, AtOff

LEMMA RangeInit == Init => RangeInv
<1> SUFFICES ASSUME Init PROVE RangeInv
  OBVIOUS
<1>1. 0 \in Pages
  BY PageCountAssumption DEF Pages
<1>2. \A p \in Machines : temp[p].access_page = 0
  <2>1. PICK garbage \in [Signals -> SUBSET UninitPages] :
          temp = [p \in Machines |->
                    IF p = 1 THEN Blank
                    ELSE [Blank EXCEPT !.read_signal = garbage["read_signal"],
                                       !.invalidate_signal = garbage["invalidate_signal"],
                                       !.BusRdx = garbage["BusRdx"],
                                       !.BusUpgr = garbage["BusUpgr"]]]
    BY DEF Init
  <2> QED
    BY <2>1 DEF Blank
<1>3. \A p \in Machines : InPage(recv[p]) /\ req[p] = <<>> /\ MayBeAll(p) /\ ~AtOff(p)
  BY <1>1 DEF Init, Blank, InPage, MayBeAll, AtOff
<1> QED
  BY <1>1, <1>2, <1>3 DEF RangeInv

LEMMA RangeStep == TypeOK /\ RangeInv /\ [Next]_vars => RangeInv'
<1> SUFFICES ASSUME TypeOK, RangeInv, [Next]_vars
             PROVE  RangeInv'
  OBVIOUS
<1>0. \A p \in Machines : /\ Other(p) \in Machines
                          /\ temp[p] \in ProcInfo
                          /\ recv[p] \in ProcInfo
                          /\ idx[p] \in Pages
                          /\ InPage(recv[p])
                          /\ temp[p].access_page \in Pages
  BY DEF TypeOK, RangeInv
<1>req. \A q \in Machines : \A i \in 1 .. Len(req[q]) : InPage(req[q][i])
  BY DEF RangeInv
<1>pc. {"prompt", "r_off", "r_page", "r_check", "r_memset", "r_flags", "r_state",
        "r_send", "r_wait", "r_local", "w_type", "w_num", "w_check",
        "w_rdx", "w_upgr", "w_state", "w_off", "w_page", "w_copy", "w_send"} \subseteq MenuPC
  BY DEF MenuPC
<1>page. \A t \in ProcInfo, k \in Pages \cup {-1} :
            /\ [t EXCEPT !.page_num = k] \in ProcInfo
            /\ [t EXCEPT !.page_num = k].page_num = k
            /\ [t EXCEPT !.page_num = k].access_page = t.access_page
            /\ [t EXCEPT !.access_page = k] \in ProcInfo
            /\ [t EXCEPT !.access_page = k].access_page = k
            /\ [t EXCEPT !.access_page = k].page_num = t.page_num
  BY DEF ProcInfo
<1>flags. \A t \in ProcInfo, k \in Pages :
            /\ ReadRequest(t, k) \in ProcInfo /\ SamePage(ReadRequest(t, k), t)
            /\ ReadDone(t, k) \in ProcInfo /\ SamePage(ReadDone(t, k), t)
            /\ RdxRequest(t, k) \in ProcInfo /\ SamePage(RdxRequest(t, k), t)
            /\ UpgrRequest(t, k) \in ProcInfo /\ SamePage(UpgrRequest(t, k), t)
  <2> SUFFICES ASSUME NEW t \in ProcInfo, NEW k \in Pages
               PROVE  /\ ReadRequest(t, k) \in ProcInfo /\ SamePage(ReadRequest(t, k), t)
                      /\ ReadDone(t, k) \in ProcInfo /\ SamePage(ReadDone(t, k), t)
                      /\ RdxRequest(t, k) \in ProcInfo /\ SamePage(RdxRequest(t, k), t)
                      /\ UpgrRequest(t, k) \in ProcInfo /\ SamePage(UpgrRequest(t, k), t)
    OBVIOUS
  <2>1. ReadRequest(t, k) \in ProcInfo /\ SamePage(ReadRequest(t, k), t)
    BY DEF SamePage, ProcInfo, ReadRequest
  <2>2. ReadDone(t, k) \in ProcInfo /\ SamePage(ReadDone(t, k), t)
    BY DEF SamePage, ProcInfo, ReadDone
  <2>3. RdxRequest(t, k) \in ProcInfo /\ SamePage(RdxRequest(t, k), t)
    BY DEF SamePage, ProcInfo, RdxRequest
  <2>4. UpgrRequest(t, k) \in ProcInfo /\ SamePage(UpgrRequest(t, k), t)
    BY DEF SamePage, ProcInfo, UpgrRequest
  <2> QED
    BY <2>1, <2>2, <2>3, <2>4
<1>1. ASSUME NEW p \in Machines, NEW k \in Pages \cup {-1},
             NEW single \in {"r_off", "w_check"}, NEW every \in {"r_page", "w_type"},
             Command(p, k, single, every)
      PROVE  RangeInv'
  <2> DEFINE own == [temp[p] EXCEPT !.page_num = k]
             late == [recv[p] EXCEPT !.page_num = k]
  <2>t. /\ temp[p] \in ProcInfo /\ recv[p] \in ProcInfo /\ idx[p] \in Pages
        /\ InPage(recv[p]) /\ temp[p].access_page \in Pages
    BY <1>0
  <2>o. /\ own \in ProcInfo /\ late \in ProcInfo
        /\ own.page_num = k /\ late.page_num = k
        /\ own.access_page \in Pages /\ late.access_page \in Pages
    BY <2>t DEF InPage, ProcInfo
  <2>s. StoreTemp(p, own, late)
    BY <1>1 DEF Command
  <2> HIDE DEF own, late
  <2>1. /\ temp'[p].access_page \in Pages
        /\ temp'[p].page_num \in Pages \cup {k}
        /\ \A q \in Machines \ {p} : temp'[q] = temp[q]
    BY <1>0, <2>o, <2>s, StoreTempRange
  <2>i. PICK i \in {k, temp'[p].page_num} :
          /\ all' = [all EXCEPT ![p] = i = -1]
          /\ Goto(p, IF i = -1 THEN every ELSE single)
    BY <1>1 DEF Command
  <2>2. /\ mpc'[p] = IF i = -1 THEN every ELSE single
        /\ all'[p] = (i = -1)
        /\ \A q \in Machines \ {p} : mpc'[q] = mpc[q] /\ all'[q] = all[q]
    <3>1. /\ all'[p] = (i = -1)
          /\ \A q \in Machines \ {p} : all'[q] = all[q]
      <4>1. all \in [Machines -> BOOLEAN]
        BY DEF TypeOK
      <4> QED
        BY <2>i, <4>1
    <3>2. /\ mpc'[p] = IF i = -1 THEN every ELSE single
          /\ \A q \in Machines \ {p} : mpc'[q] = mpc[q]
      <4>1. CASE i = -1
        BY <4>1, <1>pc, <2>i, GotoOther
      <4>2. CASE i # -1
        BY <4>2, <1>pc, <2>i, GotoOther
      <4> QED
        BY <4>1, <4>2
    <3> QED
      BY <3>1, <3>2
  <2>3. MayBeAll(p)' \/ temp'[p].page_num \in Pages
    <3>1. CASE i = -1
      BY <2>2, <3>1 DEF MayBeAll
    <3>2. CASE i # -1
      BY <2>1, <2>i, <3>2
    <3> QED
      BY <3>1, <3>2
  <2>4. UNCHANGED <<recv, req, off>> /\ ~AtOff(p)'
    BY <1>1, <2>2 DEF Command, AtOff
  <2> QED
    BY <1>req, <2>1, <2>2, <2>3, <2>4, MenuRange
<1>2. ASSUME NEW p \in Machines, NEW k \in Pages \cup {-1}, StartRead(p, k)
      PROVE  RangeInv'
  BY <1>1, <1>2, <1>pc DEF StartRead
<1>3. ASSUME NEW p \in Machines, NEW k \in Pages \cup {-1}, StartWrite(p, k)
      PROVE  RangeInv'
  BY <1>1, <1>3, <1>pc DEF StartWrite
<1>4. ASSUME NEW p \in Machines, NEW k \in Pages \cup {-1}, View(p, k)
      PROVE  RangeInv'
  <2> DEFINE own == [temp[p] EXCEPT !.page_num = k]
             late == [recv[p] EXCEPT !.page_num = k]
  <2>t. /\ temp[p] \in ProcInfo /\ recv[p] \in ProcInfo /\ idx[p] \in Pages
        /\ InPage(recv[p]) /\ temp[p].access_page \in Pages
    BY <1>0
  <2>o. /\ own \in ProcInfo /\ late \in ProcInfo
        /\ own.page_num = k /\ late.page_num = k
        /\ own.access_page \in Pages /\ late.access_page \in Pages
    BY <2>t DEF InPage, ProcInfo
  <2>s. StoreTemp(p, own, late)
    BY <1>4 DEF View
  <2> HIDE DEF own, late
  <2>1. /\ temp'[p].access_page \in Pages
        /\ \A q \in Machines \ {p} : temp'[q] = temp[q]
    BY <1>0, <2>o, <2>s, StoreTempRange
  <2>2. UNCHANGED <<recv, req, mpc, all, off>> /\ mpc[p] = "prompt"
    BY <1>4 DEF View, At
  <2>3. MayBeAll(p)' /\ ~AtOff(p)'
    BY <2>2 DEF MayBeAll, AtOff
  <2> QED
    BY <1>req, <2>1, <2>2, <2>3, MenuRange
<1>5. ASSUME NEW p \in Machines, UNCHANGED <<recv, req, temp, mpc, all, off>>
      PROVE  RangeInv'
  <2>1. \A q \in Machines : (MayBeAll(q)' <=> MayBeAll(q)) /\ (AtOff(q)' <=> AtOff(q))
    BY <1>5 DEF MayBeAll, AtOff
  <2> QED
    BY <1>5, <2>1 DEF RangeInv, InPage
<1>6. ASSUME NEW p \in Machines, ReadPage(p)
      PROVE  RangeInv'
  <2>1. \A t \in {temp[p], recv[p]} : /\ PageOf(p, t) \in ProcInfo
                                      /\ InPage(PageOf(p, t))
    <3>1. all[p] \/ (off[p] \in Pages /\ temp[p].page_num \in Pages)
      BY <1>6 DEF RangeInv, AtOff, MayBeAll, ReadPage, At
    <3> QED
      BY <1>0, <3>1 DEF PageOf, ProcInfo, InPage
  <2>2. /\ temp'[p].access_page \in Pages
        /\ temp'[p].page_num \in Pages
        /\ \A q \in Machines \ {p} : temp'[q] = temp[q]
    <3>1. temp'[p].page_num \in Pages \cup {PageOf(p, temp[p]).page_num,
                                             PageOf(p, recv[p]).page_num}
      BY <1>6, <1>0, <2>1, StoreTempRange DEF ReadPage, InPage
    <3> QED
      BY <1>6, <1>0, <2>1, <3>1, StoreTempRange DEF ReadPage, InPage
  <2>3. UNCHANGED <<recv, req, all>> /\ Goto(p, "r_check")
    BY <1>6 DEF ReadPage
  <2>4. ~AtOff(p)' /\ \A q \in Machines \ {p} : off'[q] = off[q]
    BY <1>6, <1>pc, <2>3, GotoOther DEF ReadPage, AtOff, TypeOK
  <2> QED
    BY <1>req, <1>pc, <2>2, <2>3, <2>4, MenuRange, GotoOther
<1>off. ASSUME NEW p \in Machines, ReadOff(p) \/ WriteOff(p)
        PROVE  RangeInv'
  <2>1. /\ mpc[p] \in {"r_off", "w_off"} /\ UNCHANGED <<recv, req, all, temp>>
        /\ off' = [off EXCEPT ![p] = temp[p].page_num]
        /\ Goto(p, "r_page") \/ Goto(p, "w_page")
    BY <1>off DEF ReadOff, WriteOff, LoadPage, At
  <2>2. temp[p].page_num \in Pages
    BY <2>1 DEF RangeInv, MayBeAll
  <2>3. off'[p] \in Pages /\ \A q \in Machines \ {p} : off'[q] = off[q]
    BY <2>1, <2>2 DEF TypeOK
  <2> QED
    BY <1>0, <1>req, <1>pc, <2>1, <2>2, <2>3, MenuRange, GotoOther
<1>7. ASSUME NEW p \in Machines, mpc[p] # "prompt",
             all[p] => mpc[p] \notin {"r_page", "w_type", "w_num"},
             UNCHANGED <<recv, temp, off>>, ~AtOff(p)',
             \A q \in Machines : \A i \in 1 .. Len(req'[q]) : InPage(req'[q][i]),
             \A q \in Machines \ {p} : mpc'[q] = mpc[q] /\ all'[q] = all[q]
      PROVE  RangeInv'
  <2>1. temp[p].page_num \in Pages
    BY <1>7 DEF RangeInv, MayBeAll
  <2> QED
    BY <1>0, <1>7, <2>1, MenuRange
<1>8. ASSUME NEW p \in Machines, ReadCheck(p) \/ ReadLocal(p)
      PROVE  RangeInv'
  <2>1. \A q \in Machines \ {p} : mpc'[q] = mpc[q] /\ all'[q] = all[q]
    BY <1>8, <1>pc, GotoOther DEF ReadCheck, ReadLocal
  <2>2. ~AtOff(p)'
    BY <1>8, <1>pc, GotoOther, NextNotOff DEF ReadCheck, ReadLocal, AtOff
  <2> QED
    BY <1>7, <1>8, <1>req, <2>1, <2>2 DEF ReadCheck, ReadLocal, At
<1>9. ASSUME NEW p \in Machines, ReadMemset(p) \/ ReadState(p) \/ WriteCheck(p)
                                 \/ WriteState(p) \/ WriteCopy(p)
      PROVE  RangeInv'
  <2>1. /\ mpc[p] \in {"r_memset", "r_state", "w_check", "w_state", "w_copy"}
        /\ UNCHANGED <<recv, temp, req, all, off>>
        /\ \E pc \in MenuPC \ {"r_page", "w_page"} : Goto(p, pc)
    BY <1>9, <1>pc DEF ReadMemset, ReadState, WriteCheck, WriteState, WriteCopy, At
  <2>2. \A q \in Machines \ {p} : mpc'[q] = mpc[q] /\ all'[q] = all[q]
    BY <2>1, GotoOther
  <2>3. ~AtOff(p)'
    BY <2>1, GotoOther DEF AtOff
  <2> QED
    BY <1>7, <1>req, <2>1, <2>2, <2>3
<1>10. ASSUME NEW p \in Machines, NEW own \in ProcInfo, NEW late \in ProcInfo,
              mpc[p] \in {"r_flags", "r_wait", "w_rdx", "w_upgr"},
              SamePage(own, temp[p]), SamePage(late, recv[p]),
              StoreTemp(p, own, late),
              UNCHANGED <<recv, req, off>>, ~AtOff(p)',
              \A q \in Machines \ {p} : mpc'[q] = mpc[q] /\ all'[q] = all[q]
       PROVE  RangeInv'
  <2>1. temp[p].page_num \in Pages
    BY <1>10 DEF RangeInv, MayBeAll
  <2>2. /\ temp'[p].access_page \in Pages
        /\ temp'[p].page_num \in Pages
        /\ \A q \in Machines \ {p} : temp'[q] = temp[q]
    BY <1>10, <1>0, <2>1, StoreTempRange DEF InPage, SamePage
  <2> QED
    BY <1>10, <1>req, <2>2, MenuRange
<1>11. ASSUME NEW p \in Machines, ReadFlags(p)
       PROVE  RangeInv'
  <2>1. \A q \in Machines \ {p} : mpc'[q] = mpc[q] /\ all'[q] = all[q]
    BY <1>11, <1>pc, GotoOther DEF ReadFlags
  <2>3. ~AtOff(p)'
    BY <1>11, <1>pc, GotoOther DEF ReadFlags, AtOff
  <2>2. /\ StoreTemp(p, ReadRequest(temp[p], idx[p]), ReadRequest(recv[p], idx[p]))
        /\ UNCHANGED <<recv, req, off>>
        /\ mpc[p] \in {"r_flags", "r_wait"}
    BY <1>11 DEF ReadFlags, At
  <2> QED
    BY <1>0, <1>flags, <1>10, <2>1, <2>2, <2>3
<1>12. ASSUME NEW p \in Machines, ReadReply(p) \/ ReadEOF(p)
       PROVE  RangeInv'
  <2>1. \A q \in Machines \ {p} : mpc'[q] = mpc[q] /\ all'[q] = all[q]
    BY <1>12, <1>pc, GotoOther DEF ReadReply, ReadEOF
  <2>3. ~AtOff(p)'
    BY <1>12, <1>pc, NextNotOff DEF ReadReply, ReadEOF
  <2>2. /\ StoreTemp(p, ReadDone(temp[p], idx[p]), ReadDone(recv[p], idx[p]))
        /\ UNCHANGED <<recv, req, off>>
        /\ mpc[p] \in {"r_flags", "r_wait"}
    BY <1>12 DEF ReadReply, ReadEOF, At
  <2> QED
    BY <1>0, <1>flags, <1>10, <2>1, <2>2, <2>3
<1>13. ASSUME NEW p \in Machines, WriteFlags(p)
       PROVE  RangeInv'
  <2>1. \A q \in Machines \ {p} : mpc'[q] = mpc[q] /\ all'[q] = all[q]
    BY <1>13, <1>pc, GotoOther DEF WriteFlags
  <2>3. ~AtOff(p)'
    BY <1>13, <1>pc, GotoOther DEF WriteFlags, AtOff
  <2>2. /\ \/ StoreTemp(p, RdxRequest(temp[p], idx[p]), RdxRequest(recv[p], idx[p]))
           \/ StoreTemp(p, UpgrRequest(temp[p], idx[p]), UpgrRequest(recv[p], idx[p]))
        /\ UNCHANGED <<recv, req, off>>
        /\ mpc[p] \in {"w_rdx", "w_upgr"}
    BY <1>13 DEF WriteFlags, At
  <2> QED
    BY <1>0, <1>flags, <1>10, <2>1, <2>2, <2>3
<1>14. ASSUME NEW p \in Machines, NEW m \in Loadable(p),
              mpc[p] \in {"r_send", "w_send"},
              req' = [req EXCEPT ![p] = Append(@, m)]
       PROVE  \A q \in Machines : \A i \in 1 .. Len(req'[q]) : InPage(req'[q][i])
  <2>1. InPage(temp[p])
    BY <1>0, <1>14 DEF RangeInv, MayBeAll, InPage
  <2>2. InPage(m) /\ m \in ProcInfo
    BY <1>0, <1>14, <2>1, LoadableRange, LoadableType
  <2> QED
    BY <1>14, <2>2, AppendRange
<1>15. ASSUME NEW p \in Machines, ReadSend(p) \/ WriteSend(p)
       PROVE  RangeInv'
  <2>1. \A q \in Machines \ {p} : mpc'[q] = mpc[q] /\ all'[q] = all[q]
    BY <1>15, <1>pc, GotoOther DEF ReadSend, WriteSend
  <2>2. \A q \in Machines : \A i \in 1 .. Len(req'[q]) : InPage(req'[q][i])
    BY <1>14, <1>15 DEF ReadSend, WriteSend, At
  <2>3. ~AtOff(p)'
    BY <1>15, <1>pc, GotoOther, NextNotOff DEF ReadSend, WriteSend, AtOff
  <2> QED
    BY <1>7, <1>15, <2>1, <2>2, <2>3 DEF ReadSend, WriteSend, At
<1>16. ASSUME NEW p \in Machines, NEW t \in Texts, WriteType(p, t)
       PROVE  RangeInv'
  <2>1. \A q \in Machines \ {p} : mpc'[q] = mpc[q] /\ all'[q] = all[q]
    BY <1>16, <1>pc, GotoOther DEF WriteType
  <2>2. MayBeAll(p)' \/ temp'[p].page_num \in Pages
    <3>1. CASE all[p]
      <4>1. all'[p] /\ mpc'[p] = "w_num"
        BY <1>16, <3>1, <1>pc, GotoOther DEF WriteType
      <4> QED
        BY <4>1 DEF MayBeAll
    <3>2. CASE ~all[p]
      BY <1>16, <3>2 DEF WriteType, At, RangeInv, MayBeAll
    <3> QED
      BY <3>1, <3>2
  <2>3. UNCHANGED <<recv, req, temp, off>> /\ ~AtOff(p)'
    BY <1>16, <1>pc, GotoOther DEF WriteType, AtOff
  <2> QED
    BY <1>0, <1>req, <2>1, <2>2, <2>3, MenuRange
<1>17. ASSUME NEW p \in Machines, WriteNum(p)
       PROVE  RangeInv'
  <2> DEFINE own == [temp[p] EXCEPT !.page_num = idx[p]]
             late == [recv[p] EXCEPT !.page_num = idx[p]]
  <2>t. /\ temp[p] \in ProcInfo /\ recv[p] \in ProcInfo /\ idx[p] \in Pages
        /\ InPage(recv[p]) /\ temp[p].access_page \in Pages
    BY <1>0
  <2>o. /\ own \in ProcInfo /\ late \in ProcInfo
        /\ own.page_num \in Pages /\ late.page_num \in Pages
        /\ own.access_page \in Pages /\ late.access_page \in Pages
    BY <2>t DEF InPage, ProcInfo
  <2>s. StoreTemp(p, own, late)
    BY <1>17 DEF WriteNum
  <2> HIDE DEF own, late
  <2>1. /\ temp'[p].access_page \in Pages
        /\ temp'[p].page_num \in Pages
        /\ \A q \in Machines \ {p} : temp'[q] = temp[q]
    BY <1>0, <2>o, <2>s, StoreTempRange
  <2>2. UNCHANGED <<recv, req, all, off>> /\ Goto(p, "w_check")
    BY <1>17 DEF WriteNum
  <2>3. ~AtOff(p)'
    BY <1>pc, <2>2, GotoOther DEF AtOff
  <2> QED
    BY <1>req, <1>pc, <2>1, <2>2, <2>3, MenuRange, GotoOther
<1>18. ASSUME NEW p \in Machines, WritePage(p)
       PROVE  RangeInv'
  <2>0. temp[p].page_num \in Pages /\ recv[p].page_num \in Pages /\ off[p] \in Pages
    BY <1>18, <1>0 DEF RangeInv, MayBeAll, AtOff, WritePage, At, InPage
  <2> DEFINE own == [temp[p] EXCEPT !.access_page = off[p]]
             late == [recv[p] EXCEPT !.access_page = off[p]]
  <2>t. /\ temp[p] \in ProcInfo /\ recv[p] \in ProcInfo /\ idx[p] \in Pages
        /\ InPage(recv[p]) /\ temp[p].access_page \in Pages
    BY <1>0
  <2>o. /\ own \in ProcInfo /\ late \in ProcInfo
        /\ own.page_num \in Pages /\ late.page_num \in Pages
        /\ own.access_page \in Pages /\ late.access_page \in Pages
    BY <2>t, <2>0 DEF InPage, ProcInfo
  <2>s. StoreTemp(p, own, late)
    BY <1>18 DEF WritePage
  <2> HIDE DEF own, late
  <2>1. /\ temp'[p].access_page \in Pages
        /\ temp'[p].page_num \in Pages
        /\ \A q \in Machines \ {p} : temp'[q] = temp[q]
    BY <1>0, <2>o, <2>s, StoreTempRange
  <2>2. /\ UNCHANGED <<recv, req, all>>
        /\ Goto(p, IF all[p] THEN "w_copy" ELSE "w_type")
    BY <1>18 DEF WritePage
  <2>3. ~AtOff(p)' /\ \A q \in Machines \ {p} : off'[q] = off[q]
    BY <1>18, <1>pc, <2>2, GotoOther DEF WritePage, AtOff, TypeOK
  <2> QED
    BY <1>req, <1>pc, <2>1, <2>2, <2>3, MenuRange, GotoOther
<1>19. ASSUME NEW p \in Machines, Receive(p)
       PROVE  RangeInv'
  <2> DEFINE o == Other(p)
  <2>0. o \in Machines /\ req[o] \in Seq(ProcInfo) /\ req[o] # <<>>
    BY <1>0, <1>19 DEF TypeOK, Receive
  <2>1. InPage(Head(req[o]))
    <3>1. 1 \in 1 .. Len(req[o]) /\ Head(req[o]) = req[o][1]
      BY <2>0
    <3> QED
      BY <1>req, <2>0, <3>1
  <2>2. \A i \in 1 .. Len(Tail(req[o])) : InPage(Tail(req[o])[i])
    <3> SUFFICES ASSUME NEW i \in 1 .. Len(Tail(req[o]))
                 PROVE  InPage(Tail(req[o])[i])
      OBVIOUS
    <3>1. i + 1 \in 1 .. Len(req[o]) /\ Tail(req[o])[i] = req[o][i + 1]
      BY <2>0
    <3> QED
      BY <1>req, <2>0, <3>1
  <2>3. \A q \in Machines : /\ InPage(recv'[q])
                            /\ \A i \in 1 .. Len(req'[q]) : InPage(req'[q][i])
    <3> SUFFICES ASSUME NEW q \in Machines
                 PROVE  /\ InPage(recv'[q])
                        /\ \A i \in 1 .. Len(req'[q]) : InPage(req'[q][i])
      OBVIOUS
    <3>1. recv'[q] = IF q = p THEN Head(req[o]) ELSE recv[q]
      BY <1>19 DEF Receive, TypeOK
    <3>2. req'[q] = IF q = o THEN Tail(req[o]) ELSE req[q]
      BY <1>19, <2>0 DEF Receive, TypeOK
    <3> QED
      BY <1>0, <1>req, <2>1, <2>2, <3>1, <3>2
  <2>4. UNCHANGED <<temp, mpc, all, off>>
    BY <1>19 DEF Receive
  <2>5. \A q \in Machines : (MayBeAll(q)' <=> MayBeAll(q)) /\ (AtOff(q)' <=> AtOff(q))
    BY <2>4 DEF MayBeAll, AtOff
  <2> QED
    BY <2>3, <2>4, <2>5 DEF RangeInv, InPage
<1>20. ASSUME NEW p \in Machines, CopyIn(p)
       PROVE  RangeInv'
  <2>1. /\ temp'[p] = recv[p]
        /\ \A q \in Machines \ {p} : temp'[q] = temp[q]
        /\ UNCHANGED <<recv, req, mpc, all, off>>
    BY <1>20 DEF CopyIn, TypeOK
  <2>2. InPage(temp'[p]) /\ (AtOff(p)' => off'[p] \in Pages)
    BY <1>0, <2>1 DEF RangeInv, AtOff
  <2> QED
    BY <1>req, <2>1, <2>2, MenuRange DEF InPage
<1>21. ASSUME NEW p \in Machines,
              \/ Quit(p) \/ PeerGone(p) \/ SigPipe(p) \/ React(p) \/ Flush(p)
              \/ ServerStore(p) \/ NoData(p) \/ FaultHandler(p)
       PROVE  RangeInv'
  BY <1>5, <1>21 DEF Quit, PeerGone, SigPipe, React, Flush, ServerStore, NoData,
                     FaultHandler
<1>22. CASE UNCHANGED vars
  BY <1>5, <1>22 DEF vars
<1> QED
  BY <1>2, <1>3, <1>4, <1>6, <1>off, <1>8, <1>9, <1>11, <1>12, <1>13, <1>15, <1>16, <1>17,
     <1>18, <1>19, <1>20, <1>21, <1>22
     DEF Next, Commands, Step, Menu, Server

\* The -1 an operator types for "all pages" indexes neither list_MSI nor the
\* mapping and does not reach the peer, although the server overwrites temp_data
\* between a store of the menu and its next load: for every number of pages and
\* of commands, whether or not the operators take turns.  The fault handler's
\* index into pagefault_signal (line 123) is outside this theorem.
THEOREM IndexSafe == Spec => []PageNumInRange
<1>1. ASSUME TypeOK, RangeInv, NEW p \in Machines, mpc[p] = "r_state",
             NEW t \in Loadable(p)
      PROVE  t.page_num \in Pages
  <2>1. InPage(temp[p]) /\ InPage(recv[p])
    BY <1>1 DEF RangeInv, MayBeAll, InPage
  <2> QED
    BY <1>1, <2>1, LoadableRange DEF InPage
<1>2. TypeOK /\ RangeInv => PageNumInRange
  BY <1>1 DEF RangeInv, InPage, MayBeAll, PageNumInRange
<1> QED
  BY <1>2, InitType, StepType, RangeInit, RangeStep, PTL DEF Spec
-----------------------------------------------------------------------------
(* Operators who take turns.                                               *)

\* One machine, c, has a command under way or had the last one; the threads of
\* its peer q only serve it.  The invariant says, for this pair, where a page
\* number, a state, a read signal and the last text of a page can be while
\* requests and answers are on their way.

HIDE DEF Machines, Other

\* The struct asks for the page it names; otherwise it tells of a write.
Reading(r) == r.page_num \in r.read_signal

\* The menu has made page idx its own and has not told its peer.
Owning(c) == \/ mpc[c] \in {"w_off", "w_page", "w_copy", "w_send"}
             \/ mpc[c] = "w_type" /\ ~all[c]

\* One machine at most, c, has a command under way; its peer q only serves.
Busy(c, q) ==
    /\ mpc[q] = "prompt" /\ spc[c] = "recv" /\ req[q] = <<>> /\ rep[q] = <<>>
    /\ \/ alive[c] /\ alive[q]
       \/ mpc[c] = "prompt" /\ spc[q] = "recv" /\ req[c] = <<>> /\ rep[c] = <<>>

\* The places of the menu where temp_data names the page it is at.
OnPage(c) ==
    \/ mpc[c] \in {"r_check", "r_memset", "r_flags", "r_state", "r_send", "r_wait",
                   "r_local", "w_check", "w_rdx", "w_upgr", "w_state"}
    \/ Owning(c)
OnAddress(c) ==
    \/ mpc[c] \in {"r_check", "r_memset", "r_flags", "r_state", "r_send", "r_wait",
                   "r_local", "w_copy", "w_send"}
    \/ mpc[c] = "w_type" /\ ~all[c]

\* What temp_data of c says of the page the menu is at.
MenuTemp(c) ==
    /\ mpc[c] = "r_off" => temp[c].page_num = idx[c]
    /\ mpc[c] = "r_page" => all[c] \/ (temp[c].page_num = idx[c] /\ off[c] = idx[c])
    /\ mpc[c] = "w_page" => off[c] = idx[c]
    /\ OnPage(c) => temp[c].page_num = idx[c]
    /\ OnAddress(c) => temp[c].access_page = idx[c]
    /\ mpc[c] \in {"r_state", "r_send", "r_wait"} => idx[c] \in temp[c].read_signal
    /\ mpc[c] = "w_state" \/ Owning(c) => idx[c] \notin temp[c].read_signal

\* What list_MSI and the mapping of c say of it.
MenuState(c) ==
    /\ mpc[c] \in {"r_memset", "r_flags", "r_state"} => msi[c][idx[c]] = Invalid
    /\ mpc[c] \in {"r_send", "r_wait"} => msi[c][idx[c]] = Shared
    /\ Owning(c) => msi[c][idx[c]] = Modified
    /\ mpc[c] \in {"r_flags", "r_state", "r_send", "r_wait"} => mem[c][idx[c]] = Zeroed

\* A struct that c sent, until its peer has dealt with it.
Sent(c, r) ==
    /\ r.page_num \in Pages /\ r.access_page = r.page_num
    /\ msi[c][r.page_num] = IF Reading(r) THEN Shared ELSE Modified
Wire(c, q) ==
    /\ \A i \in 1 .. Len(req[c]) : Sent(c, req[c][i])
    /\ spc[q] # "recv" => Sent(c, recv[q])

\* The pages go up: no two structs under way are about one page.
Order(c, q) ==
    /\ \A i, j \in 1 .. Len(req[c]) : i < j => req[c][i].page_num < req[c][j].page_num
    /\ spc[q] # "recv" =>
          \A i \in 1 .. Len(req[c]) : recv[q].page_num < req[c][i].page_num
    /\ mpc[c] \notin {"prompt", "r_wait"} =>
          \A i \in 1 .. Len(req[c]) : req[c][i].page_num < idx[c]
    /\ mpc[c] \notin {"prompt", "r_wait"} /\ spc[q] # "recv" => recv[q].page_num < idx[c]
    /\ mpc[c] = "r_wait" /\ spc[q] # "recv" => recv[q].page_num <= idx[c]

Answer(k) == IF latest[k] = <<>> THEN <<SPACE>> ELSE latest[k]

\* A read waits for its answer: the request is under way, is being served, or
\* has been answered.
Asked(c, q) == /\ Len(req[c]) = 1 /\ req[c][1].page_num = idx[c] /\ Reading(req[c][1])
               /\ spc[q] \in {"recv", "toS"} /\ rep[c] = <<>>
               /\ spc[q] = "toS" => recv[q].page_num < idx[c]
AtPeer(c, q) == /\ req[c] = <<>> /\ recv[q].page_num = idx[c] /\ Reading(recv[q])
                /\ spc[q] \in {"copy", "react", "flush", "toS_none", "no_data"}
                /\ rep[c] = <<>>
Answered(c, q) == /\ req[c] = <<>> /\ spc[q] \in {"recv", "toS"}
                  /\ rep[c] \in {<<>>, Answer(idx[c])} /\ Len(rep[c]) <= PageLen
Phase(c, q) ==
    /\ mpc[c] \in {"r_off", "r_page", "r_check", "r_memset", "r_flags", "r_state", "r_send",
                   "r_local"} =>
          req[c] = <<>> /\ spc[q] \in {"recv", "toS"}
    /\ mpc[c] # "r_wait" =>
          /\ rep[c] = <<>> /\ spc[q] \in {"recv", "toS", "copy", "react", "toI"}
          /\ \A i \in 1 .. Len(req[c]) : ~Reading(req[c][i])
          /\ spc[q] \in {"copy", "react"} => ~Reading(recv[q])
    /\ mpc[c] = "r_wait" => Asked(c, q) \/ AtPeer(c, q) \/ Answered(c, q)

\* What the server of q is about to do.
Serve(q) ==
    /\ spc[q] \notin {"recv", "copy"} => temp[q] = recv[q]
    /\ spc[q] \in {"flush", "toS"} =>
          Reading(recv[q]) /\ msi[q][recv[q].page_num] = Modified
    /\ spc[q] = "toS_none" =>
          /\ Reading(recv[q]) /\ msi[q][recv[q].page_num] = Invalid
          /\ latest[recv[q].page_num] = <<>>
    /\ spc[q] = "no_data" =>
          /\ Reading(recv[q]) /\ msi[q][recv[q].page_num] = Shared
          /\ latest[recv[q].page_num] = <<>>
    /\ spc[q] = "toI" => ~Reading(recv[q]) /\ msi[q][recv[q].page_num] # Invalid

Whole == \A p \in Machines : \A k \in Pages : msi[p][k] \in {Modified, Shared, Invalid}

Settled(a, b) == \/ a = Invalid /\ b \in {Invalid, Modified}
                 \/ a = Shared /\ b = Shared
                 \/ a = Modified /\ b = Invalid
Paired(c, q) ==
    \A k \in Pages :
        /\ WritePending(c, k) \/ ReadPending(c, k) \/ Settled(msi[c][k], msi[q][k])
        /\ ReadPending(c, k) => msi[q][k] # Shared

\* A struct about page k is still to come, behind position i.
ToCome(c, k, i) == \/ Owning(c) /\ idx[c] = k
                   \/ \E j \in 1 .. Len(req[c]) : i < j /\ req[c][j].page_num = k

\* The owner of a page has no read_signal for it left over, neither has its
\* peer once it has heard of it.
OwnClean(c, q) ==
    \A k \in Pages : msi[c][k] = Modified =>
        /\ k \notin temp[c].read_signal
        /\ \A i \in 1 .. Len(req[c]) : k \in req[c][i].read_signal => ToCome(c, k, i)
        /\ spc[q] = "copy" /\ k \in recv[q].read_signal => ToCome(c, k, 0)
        /\ k \in temp[q].read_signal =>
              ToCome(c, k, 0) \/ (spc[q] = "copy" /\ recv[q].page_num = k)
PeerClean(c, q) ==
    \A k \in Pages : msi[q][k] = Modified =>
        /\ k \in temp[c].read_signal => mpc[c] \in {"r_state", "r_send", "r_wait"} /\ idx[c] = k
        /\ \A i \in 1 .. Len(req[c]) :
              k \in req[c][i].read_signal => req[c][i].page_num = k
        /\ spc[q] = "copy" /\ k \in recv[q].read_signal => recv[q].page_num = k
        /\ k \in temp[q].read_signal =>
              spc[q] \in {"react", "flush", "toS"} /\ recv[q].page_num = k

\* Where the last text of a page is.
KillSent(c, q, k) ==
    \/ \E i \in 1 .. Len(req[c]) : req[c][i].page_num = k /\ ~Reading(req[c][i])
    \/ spc[q] # "recv" /\ Killed(q, k)
Holder(c, q) ==
    \A k \in Pages : latest[k] # <<>> =>
        \/ msi[c][k] # Invalid /\ Text(mem[c][k]) = latest[k]
        \/ msi[q][k] # Invalid /\ Text(mem[q][k]) = latest[k] /\ ~KillSent(c, q, k)
Owner(c, q) ==
    \A k \in Pages :
        /\ msi[c][k] = Modified /\ (idx[c] = k => ~Owning(c) \/ mpc[c] = "w_send") =>
              Text(mem[c][k]) = latest[k]
        /\ msi[q][k] = Modified /\ ~WritePending(c, k) => Text(mem[q][k]) = latest[k]
Absent == \A p \in Machines : \A k \in Pages : k \notin present[p] => mem[p][k] = Zeroed

Turn(c, q) ==
    /\ Busy(c, q) /\ MenuTemp(c) /\ MenuState(c) /\ Wire(c, q) /\ Order(c, q) /\ Phase(c, q)
    /\ Serve(q) /\ Paired(c, q) /\ OwnClean(c, q) /\ PeerClean(c, q) /\ Holder(c, q) /\ Owner(c, q)
TurnInv == Whole /\ Absent /\ \E c \in Machines : Turn(c, Other(c))
-----------------------------------------------------------------------------
(* What is pending, and what the peer may count on.                        *)

Sides(c, q) == /\ c \in Machines /\ q \in Machines /\ c # q
               /\ Other(c) = q /\ Other(q) = c /\ Machines = {c, q}

\* A machine and its peer are the two machines.
LEMMA TwoSides == \A c \in Machines : Sides(c, Other(c))
  BY DEF Sides, Machines, Other

\* The three states are three different triples of flags, each with its name.
LEMMA States ==
    /\ Modified # Shared /\ Modified # Invalid /\ Shared # Invalid
    /\ Modified.M /\ ~Modified.S /\ ~Modified.I
    /\ ~Shared.M /\ Shared.S /\ ~Shared.I
    /\ ~Invalid.M /\ ~Invalid.S /\ Invalid.I
    /\ StateName(Modified) = "M" /\ StateName(Shared) = "S" /\ StateName(Invalid) = "I"
<1>1. /\ Modified.M /\ ~Modified.S /\ ~Modified.I
      /\ ~Shared.M /\ Shared.S /\ ~Shared.I
      /\ ~Invalid.M /\ ~Invalid.S /\ Invalid.I
  BY DEF Modified, Shared, Invalid
<1>2. Modified # Shared /\ Modified # Invalid /\ Shared # Invalid
  BY <1>1
<1> QED
  BY <1>1, <1>2 DEF StateName

\* What is pending of c, in the terms of the invariant.
AskSent(c, q, k) ==
    \/ \E i \in 1 .. Len(req[c]) : req[c][i].page_num = k /\ Reading(req[c][i])
    \/ spc[q] \notin {"recv", "no_data"} /\ Served(q, k)

\* What is pending of c, in the terms of the invariant: a write is what c
\* has taken or told of, a read what c is about to ask or has asked.
LEMMA PendingForm ==
    ASSUME NEW c, NEW q, Sides(c, q), NEW k
    PROVE  /\ WritePending(c, k) <=> (Owning(c) /\ idx[c] = k) \/ KillSent(c, q, k)
           /\ ReadPending(c, k) <=> (mpc[c] = "r_send" /\ idx[c] = k) \/ AskSent(c, q, k)
<1>1. Other(c) = q
  BY DEF Sides
<1>2. WritePending(c, k) <=> (Owning(c) /\ idx[c] = k) \/ KillSent(c, q, k)
  BY <1>1 DEF WritePending, Owning, KillSent, Reading
<1>3. ReadPending(c, k) <=> (mpc[c] = "r_send" /\ idx[c] = k) \/ AskSent(c, q, k)
  BY <1>1 DEF ReadPending, AskSent, Reading
<1> QED
  BY <1>2, <1>3

\* What is pending of c fits what c has in list_MSI.
LEMMA PendingState ==
    ASSUME NEW c, NEW q, Sides(c, q), Turn(c, q), NEW k
    PROVE  /\ WritePending(c, k) => msi[c][k] = Modified
           /\ ReadPending(c, k) => msi[c][k] = Shared
<1>1. Wire(c, q) /\ MenuState(c)
  BY DEF Turn
<1>2. KillSent(c, q, k) => msi[c][k] = Modified
  BY <1>1 DEF Wire, Sent, KillSent, Killed, Reading
<1>3. AskSent(c, q, k) => msi[c][k] = Shared
  BY <1>1 DEF Wire, Sent, AskSent, Served, Reading
<1> QED
  BY <1>1, <1>2, <1>3, PendingForm DEF MenuState

\* Nothing is pending of the machine that only serves.
LEMMA NothingOfPeer ==
    ASSUME NEW c, NEW q, Sides(c, q), Busy(c, q), NEW k
    PROVE  ~WritePending(q, k) /\ ~ReadPending(q, k)
<1>1. Other(q) = c /\ mpc[q] = "prompt" /\ spc[c] = "recv" /\ Len(req[q]) = 0
  BY DEF Sides, Busy
<1> QED
  BY <1>1 DEF WritePending, ReadPending

\* What the two machines may count on.
LEMMA PromisedForm ==
    ASSUME NEW c, NEW q, Sides(c, q), Busy(c, q), NEW k
    PROVE  /\ Effective(c, k) = StateName(msi[c][k])
           /\ Effective(q, k) = IF WritePending(c, k) THEN "I"
                                ELSE IF ReadPending(c, k) THEN "S"
                                ELSE StateName(msi[q][k])
  BY NothingOfPeer DEF Effective, Sides
-----------------------------------------------------------------------------
(* Steps of the menu that store nothing in list_MSI.                       *)

Keeps(c, q) == Whole' /\ Absent' /\ Turn(c, q)'
Quiet == UNCHANGED Promised

\* A step that changes neither list_MSI of c nor what c may count on of q
\* is a stutter of the abstract specification.
LEMMA QuietFrom ==
    ASSUME NEW c, NEW q, Sides(c, q), Busy(c, q), Busy(c, q)',
           \A k \in Pages : msi'[c][k] = msi[c][k] /\ Effective(q, k)' = Effective(q, k)
    PROVE  Quiet
<1>1. \A k \in Pages : Effective(c, k)' = Effective(c, k)
  <2> SUFFICES ASSUME NEW k \in Pages PROVE Effective(c, k)' = Effective(c, k)
    OBVIOUS
  <2>1. ~WritePending(q, k) /\ ~ReadPending(q, k)
    BY NothingOfPeer
  <2>2. ~WritePending(q, k)' /\ ~ReadPending(q, k)'
    <3>1. Other(q) = c /\ mpc'[q] = "prompt" /\ spc'[c] = "recv" /\ Len(req'[q]) = 0
      BY DEF Sides, Busy
    <3> QED
      BY <3>1 DEF WritePending, ReadPending
  <2>3. Other(c) = q /\ msi'[c][k] = msi[c][k]
    BY DEF Sides
  <2> QED
    BY <2>1, <2>2, <2>3 DEF Effective
<1>2. \A p \in Machines : \A k \in Pages : Effective(p, k)' = Effective(p, k)
  BY <1>1 DEF Sides
<1> QED
  BY <1>2 DEF Quiet, Promised

\* What is pending, after a step.
LEMMA PendingNext ==
    ASSUME NEW c, NEW q, Sides(c, q), NEW k
    PROVE  /\ WritePending(c, k)' <=> (Owning(c)' /\ idx'[c] = k) \/ KillSent(c, q, k)'
           /\ ReadPending(c, k)' <=> (mpc'[c] = "r_send" /\ idx'[c] = k) \/ AskSent(c, q, k)'
           /\ Effective(q, k)' = IF WritePending(c, k)' THEN "I"
                                 ELSE IF ReadPending(c, k)' THEN "S"
                                 ELSE StateName(msi'[q][k])
<1>1. Other(c) = q /\ Other(q) = c
  BY DEF Sides
<1>2. WritePending(c, k)' <=> (Owning(c)' /\ idx'[c] = k) \/ KillSent(c, q, k)'
  BY <1>1 DEF WritePending, Owning, KillSent, Reading
<1>3. ReadPending(c, k)' <=> (mpc'[c] = "r_send" /\ idx'[c] = k) \/ AskSent(c, q, k)'
  BY <1>1 DEF ReadPending, AskSent, Reading
<1>4. Effective(q, k)' = IF WritePending(c, k)' THEN "I"
                         ELSE IF ReadPending(c, k)' THEN "S"
                         ELSE StateName(msi'[q][k])
  BY <1>1 DEF Effective
<1> QED
  BY <1>2, <1>3, <1>4

\* A step of the menu of c that changes nothing but where it is, its
\* temp_data and, when an answer is read, rep[c].
LEMMA MenuMove ==
    ASSUME NEW c, NEW q, Sides(c, q), Whole, Absent, Turn(c, q),
           UNCHANGED <<alive, spc, recv, req, msi, mem, present, latest>>,
           temp'[q] = temp[q], mpc'[q] = mpc[q], rep'[q] = rep[q],
           alive[c] /\ alive[q],
           mpc[c] # "r_send", mpc'[c] \notin {"r_send", "w_send"},
           Owning(c)' <=> Owning(c),
           Owning(c) => idx'[c] = idx[c] /\ mpc[c] # "w_send",
           MenuTemp(c)', MenuState(c)', Order(c, q)', Phase(c, q)',
           \A k \in temp'[c].read_signal :
              \/ k \in temp[c].read_signal
                 /\ (mpc[c] \in {"r_state", "r_wait"} /\ idx[c] = k =>
                        mpc'[c] \in {"r_state", "r_send", "r_wait"} /\ idx'[c] = k)
              \/ msi[c][k] = Invalid /\ mpc'[c] = "r_state" /\ idx'[c] = k
    PROVE  Keeps(c, q) /\ Quiet
<1>1. Whole' /\ Absent'
  BY DEF Whole, Absent
<1>2. /\ Busy(c, q) /\ Wire(c, q) /\ Serve(q) /\ Paired(c, q) /\ OwnClean(c, q)
      /\ PeerClean(c, q) /\ Holder(c, q) /\ Owner(c, q)
  BY DEF Turn
<1>3. Busy(c, q)' /\ Wire(c, q)' /\ Serve(q)'
  BY <1>2 DEF Busy, Wire, Sent, Reading, Serve
<1>4. \A k \in Pages : /\ KillSent(c, q, k)' <=> KillSent(c, q, k)
                       /\ AskSent(c, q, k)' <=> AskSent(c, q, k)
  BY DEF KillSent, AskSent, Reading, Killed, Served
<1>5. \A k \in Pages : /\ WritePending(c, k)' <=> WritePending(c, k)
                       /\ ReadPending(c, k)' <=> ReadPending(c, k)
                       /\ Effective(q, k)' = Effective(q, k)
  BY <1>2, <1>4, PendingForm, PendingNext, PromisedForm
<1>6. Paired(c, q)' /\ Quiet
  BY <1>2, <1>3, <1>5, QuietFrom DEF Paired
<1>7. Holder(c, q)' 
  BY <1>2, <1>4 DEF Holder
<1>8. Owner(c, q)'
  BY <1>2, <1>5 DEF Owner
<1>9. OwnClean(c, q)'
  <2>1. \A k : \A i : ToCome(c, k, i)' <=> ToCome(c, k, i)
    BY DEF ToCome
  <2> QED
    BY <1>2, <2>1, States DEF OwnClean
<1>10. PeerClean(c, q)'
  BY <1>2 DEF PeerClean
<1> QED
  BY <1>1, <1>3, <1>6, <1>7, <1>8, <1>9, <1>10 DEF Keeps, Turn

\* Nobody races the menu of c: its stores take effect as they stand.
LEMMA StoreAlone ==
    ASSUME NEW c, NEW q, Sides(c, q), TypeOK, Busy(c, q), NEW own, NEW late,
           StoreTemp(c, own, late)
    PROVE  temp'[c] = own /\ temp'[q] = temp[q] /\ spc' = spc
<1>1. spc[c] # "copy"
  BY DEF Busy
<1>2. temp' = [temp EXCEPT ![c] = own] /\ spc' = spc
  BY <1>1 DEF StoreTemp
<1> QED
  BY <1>2 DEF TypeOK, Sides

\* Nobody stores to the entry it looks at, or to the struct it sends.
LEMMA CheckAlone ==
    ASSUME NEW c, NEW q, Busy(c, q), NEW k
    PROVE  MenuSees(c, k) = {msi[c][k]} /\ Loadable(c) = {temp[c]}
  BY DEF Busy, MenuSees, Loadable, ServerStores

\* The menu of one machine moves, the other stays.
LEMMA GotoSides ==
    ASSUME NEW c, NEW q, Sides(c, q), TypeOK, NEW pc, Goto(c, pc)
    PROVE  mpc'[c] = pc /\ mpc'[q] = mpc[q]
  BY DEF Goto, TypeOK, Sides

\* The end of a page: the next one, or the prompt.
LEMMA NextPageSides ==
    ASSUME NEW c, NEW q, Sides(c, q), TypeOK, NEW first, NextPage(c, first)
    PROVE  /\ mpc'[q] = mpc[q]
           /\ \/ mpc'[c] = first /\ idx'[c] = idx[c] + 1 /\ all'[c]
              \/ mpc'[c] = "prompt"
  BY DEF NextPage, TypeOK, Sides

\* The types of what the invariant speaks of.
LEMMA SideTypes ==
    ASSUME NEW c, NEW q, Sides(c, q), TypeOK
    PROVE  /\ idx[c] \in Pages /\ idx[c] \in Int /\ all[c] \in BOOLEAN
           /\ temp[c] \in ProcInfo /\ temp[q] \in ProcInfo
           /\ recv[q] \in ProcInfo /\ req[c] \in Seq(ProcInfo) /\ Len(req[c]) \in Nat
           /\ \A i \in 1 .. Len(req[c]) : req[c][i] \in ProcInfo
<1>1. /\ idx[c] \in Pages /\ all[c] \in BOOLEAN
      /\ temp[c] \in ProcInfo /\ temp[q] \in ProcInfo
      /\ recv[q] \in ProcInfo /\ req[c] \in Seq(ProcInfo)
  BY DEF TypeOK, Sides
<1> QED
  BY <1>1, PageCountAssumption DEF Pages

\* What the menu does to the struct.
LEMMA Stores ==
    ASSUME NEW t \in ProcInfo, NEW k
    PROVE  /\ [t EXCEPT !.page_num = k].page_num = k
           /\ [t EXCEPT !.page_num = k].read_signal = t.read_signal
           /\ [t EXCEPT !.page_num = k].access_page = t.access_page
           /\ [t EXCEPT !.access_page = k].page_num = t.page_num
           /\ [t EXCEPT !.access_page = k].access_page = k
           /\ [t EXCEPT !.access_page = k].read_signal = t.read_signal
           /\ ReadRequest(t, k).page_num = t.page_num
           /\ ReadRequest(t, k).access_page = t.access_page
           /\ ReadRequest(t, k).read_signal = t.read_signal \cup {k}
           /\ ReadDone(t, k).read_signal = t.read_signal \ {k}
           /\ RdxRequest(t, k).page_num = t.page_num
           /\ RdxRequest(t, k).read_signal = t.read_signal \ {k}
           /\ UpgrRequest(t, k).page_num = t.page_num
           /\ UpgrRequest(t, k).read_signal = t.read_signal \ {k}
<1>1. DOMAIN t = {"page_num", "access_page", "read_signal", "invalidate_signal", "BusRdx",
                  "BusUpgr"}
  BY DEF ProcInfo
<1>2. /\ [t EXCEPT !.page_num = k].page_num = k
      /\ [t EXCEPT !.page_num = k].read_signal = t.read_signal
      /\ [t EXCEPT !.page_num = k].access_page = t.access_page
  BY <1>1
<1>3. /\ [t EXCEPT !.access_page = k].page_num = t.page_num
      /\ [t EXCEPT !.access_page = k].access_page = k
      /\ [t EXCEPT !.access_page = k].read_signal = t.read_signal
  BY <1>1
<1>4. /\ ReadRequest(t, k).page_num = t.page_num
      /\ ReadRequest(t, k).access_page = t.access_page
      /\ ReadRequest(t, k).read_signal = t.read_signal \cup {k}
  BY <1>1 DEF ReadRequest
<1>5. /\ ReadDone(t, k).read_signal = t.read_signal \ {k}
  BY <1>1 DEF ReadDone
<1>6. /\ RdxRequest(t, k).page_num = t.page_num
      /\ RdxRequest(t, k).read_signal = t.read_signal \ {k}
  BY <1>1 DEF RdxRequest
<1>7. /\ UpgrRequest(t, k).page_num = t.page_num
      /\ UpgrRequest(t, k).read_signal = t.read_signal \ {k}
  BY <1>1 DEF UpgrRequest
<1> QED
  BY <1>2, <1>3, <1>4, <1>5, <1>6, <1>7

\* The read signal goes up for a page that is invalid here.
LEMMA ReadFlagsKeeps ==
    ASSUME NEW c, NEW q, Sides(c, q), TypeOK, Whole, Absent, Turn(c, q), ReadFlags(c)
    PROVE  Keeps(c, q) /\ Quiet
<1>1. /\ Busy(c, q) /\ MenuTemp(c) /\ MenuState(c) /\ Order(c, q) /\ Phase(c, q)
      /\ mpc[c] = "r_flags" /\ alive[c] /\ alive[q] /\ temp[c] \in ProcInfo
  BY SideTypes DEF Turn, ReadFlags, At, Busy
<1>2. /\ temp'[c] = ReadRequest(temp[c], idx[c]) /\ temp'[q] = temp[q]
      /\ mpc'[c] = "r_state" /\ mpc'[q] = mpc[q]
      /\ UNCHANGED <<alive, idx, all, off, spc, recv, req, rep, msi, mem, present, latest>>
  BY <1>1, StoreAlone, GotoSides DEF ReadFlags
<1>3. /\ temp'[c].page_num = temp[c].page_num /\ temp'[c].access_page = temp[c].access_page
      /\ temp'[c].read_signal = temp[c].read_signal \cup {idx[c]}
  BY <1>1, <1>2, Stores
<1>4. MenuTemp(c)' /\ MenuState(c)'
  BY <1>1, <1>2, <1>3 DEF MenuTemp, MenuState, Owning, OnPage, OnAddress
<1>5. Order(c, q)' /\ Phase(c, q)'
  BY <1>1, <1>2 DEF Order, Phase, Reading
<1>6. (Owning(c)' <=> Owning(c)) /\ ~Owning(c) /\ msi[c][idx[c]] = Invalid
  BY <1>1, <1>2 DEF Owning, MenuState
<1> QED
  BY <1>1, <1>2, <1>3, <1>4, <1>5, <1>6, MenuMove

\* The menu goes on to the next page, or to the prompt.
LEMMA NextReadKeeps ==
    ASSUME NEW c, NEW q, Sides(c, q), TypeOK, Whole, Absent, Turn(c, q),
           NextPage(c, "r_page"),
           UNCHANGED <<alive, spc, recv, req, msi, mem, present, latest>>,
           alive[c] /\ alive[q], temp'[q] = temp[q], rep'[q] = rep[q], rep'[c] = <<>>,
           \/ mpc[c] \in {"r_check", "r_local"} /\ temp'[c] = temp[c]
           \/ /\ mpc[c] = "r_wait" /\ Answered(c, q)
              /\ temp'[c].read_signal = temp[c].read_signal \ {idx[c]}
    PROVE  Keeps(c, q) /\ Quiet
<1>1. /\ Busy(c, q) /\ MenuTemp(c) /\ MenuState(c) /\ Order(c, q) /\ Phase(c, q)
      /\ PeerClean(c, q) /\ Wire(c, q)
  BY DEF Turn
<1>2. /\ mpc'[q] = mpc[q] /\ idx[c] \in Int /\ recv[q] \in ProcInfo
      /\ \/ mpc'[c] = "r_page" /\ idx'[c] = idx[c] + 1 /\ all'[c]
         \/ mpc'[c] = "prompt"
  BY NextPageSides, SideTypes
<1>3. MenuTemp(c)' /\ MenuState(c)'
  BY <1>2 DEF MenuTemp, MenuState, Owning, OnPage, OnAddress
<1>4. req[c] = <<>> /\ spc[q] \in {"recv", "toS"} /\ Len(req[c]) = 0
  BY <1>1 DEF Phase, Answered
<1>5. spc[q] # "recv" => recv[q].page_num <= idx[c] /\ recv[q].page_num \in Int
  BY <1>1, <1>2, PageCountAssumption DEF Order, Wire, Sent, Pages
<1>6. Order(c, q)' /\ Phase(c, q)'
  BY <1>2, <1>4, <1>5 DEF Order, Phase
<1>7. (Owning(c)' <=> Owning(c)) /\ ~Owning(c)
  BY <1>2 DEF Owning
<1> QED
  BY <1>1, <1>2, <1>3, <1>6, <1>7, MenuMove

\* The state that is looked at decides where the menu goes.
LEMMA ReadCheckKeeps ==
    ASSUME NEW c, NEW q, Sides(c, q), TypeOK, Whole, Absent, Turn(c, q), ReadCheck(c)
    PROVE  Keeps(c, q) /\ Quiet
<1>1. /\ Busy(c, q) /\ MenuTemp(c) /\ MenuState(c) /\ Order(c, q) /\ Phase(c, q)
      /\ mpc[c] = "r_check" /\ alive[c] /\ alive[q] /\ idx[c] \in Pages
      /\ UNCHANGED <<alive, spc, recv, req, rep, msi, mem, present, latest, temp>>
  BY SideTypes DEF Turn, ReadCheck, At, Busy
<1>2. msi[c][idx[c]] \in {Modified, Shared, Invalid}
  BY <1>1 DEF Whole, Sides
<1>3. UNCHANGED <<idx, all, off>> /\ \/ Goto(c, "r_memset") /\ msi[c][idx[c]] = Invalid
                                     \/ Goto(c, "r_local")
  BY <1>1, <1>2, States, CheckAlone DEF ReadCheck
<1>4. /\ \/ mpc'[c] = "r_memset" /\ msi[c][idx[c]] = Invalid
         \/ mpc'[c] = "r_local"
      /\ mpc'[q] = mpc[q]
  BY <1>3, GotoSides
<1>5. MenuTemp(c)' /\ MenuState(c)'
  BY <1>1, <1>3, <1>4 DEF MenuTemp, MenuState, Owning, OnPage, OnAddress
<1>6. Order(c, q)' /\ Phase(c, q)'
  BY <1>1, <1>3, <1>4 DEF Order, Phase, Reading
<1>7. (Owning(c)' <=> Owning(c)) /\ ~Owning(c)
  BY <1>1, <1>4 DEF Owning
<1> QED
  BY <1>1, <1>3, <1>4, <1>5, <1>6, <1>7, MenuMove

\* A valid page is printed; nothing else happens.
LEMMA ReadLocalKeeps ==
    ASSUME NEW c, NEW q, Sides(c, q), TypeOK, Whole, Absent, Turn(c, q), ReadLocal(c)
    PROVE  Keeps(c, q) /\ Quiet
<1>1. /\ Busy(c, q) /\ Phase(c, q) /\ mpc[c] = "r_local" /\ alive[c] /\ alive[q]
      /\ UNCHANGED <<alive, spc, recv, req, rep, msi, mem, present, latest, temp>>
      /\ NextPage(c, "r_page")
  BY DEF Turn, ReadLocal, At, Busy
<1>2. rep'[c] = <<>>
  BY <1>1 DEF Phase
<1> QED
  BY <1>1, <1>2, NextReadKeeps

\* The answer is in one piece, so nothing of it stays behind.
LEMMA ReadReplyKeeps ==
    ASSUME NEW c, NEW q, Sides(c, q), TypeOK, Whole, Absent, Turn(c, q), ReadReply(c)
    PROVE  Keeps(c, q) /\ Quiet /\ rep[c] = Answer(idx[c])
<1>1. /\ Busy(c, q) /\ Phase(c, q) /\ mpc[c] = "r_wait" /\ alive[c] /\ alive[q]
      /\ UNCHANGED <<alive, recv, req, msi, mem, present, latest>>
      /\ NextPage(c, "r_page") /\ rep[c] # <<>> /\ temp[c] \in ProcInfo
      /\ rep' = [rep EXCEPT ![c] = SubSeq(@, PageLen + 1, Len(@))]
  BY SideTypes DEF Turn, ReadReply, At, Busy
<1>2. Answered(c, q) /\ rep[c] = Answer(idx[c]) /\ Len(rep[c]) <= PageLen
  BY <1>1 DEF Phase, Asked, AtPeer, Answered
<1>3. rep[c] \in Seq(Bytes) /\ rep \in [Machines -> Seq(Bytes)]
  BY DEF TypeOK, Sides
<1>4. rep'[c] = <<>> /\ rep'[q] = rep[q]
  <2>1. SubSeq(rep[c], PageLen + 1, Len(rep[c])) = <<>>
    BY <1>2, <1>3, PageLenAssumption
  <2> QED
    BY <1>1, <1>3, <2>1 DEF Sides
<1>5. temp'[c] = ReadDone(temp[c], idx[c]) /\ temp'[q] = temp[q] /\ spc' = spc
  BY <1>1, StoreAlone DEF ReadReply
<1>6. temp'[c].read_signal = temp[c].read_signal \ {idx[c]}
  BY <1>1, <1>5, Stores
<1>7. Keeps(c, q) /\ Quiet
  BY <1>1, <1>2, <1>4, <1>5, <1>6, NextReadKeeps
<1> QED
  BY <1>2, <1>7

\* page_num and access_page come to name the page the menu is at.
LEMMA ReadPageKeeps ==
    ASSUME NEW c, NEW q, Sides(c, q), TypeOK, Whole, Absent, Turn(c, q), ReadPage(c)
    PROVE  Keeps(c, q) /\ Quiet
<1>1. /\ Busy(c, q) /\ MenuTemp(c) /\ MenuState(c) /\ Order(c, q) /\ Phase(c, q)
      /\ mpc[c] = "r_page" /\ alive[c] /\ alive[q] /\ temp[c] \in ProcInfo
  BY SideTypes DEF Turn, ReadPage, At, Busy
<1>2. /\ temp'[c] = PageOf(c, temp[c]) /\ temp'[q] = temp[q]
      /\ mpc'[c] = "r_check" /\ mpc'[q] = mpc[q]
      /\ UNCHANGED <<alive, idx, all, spc, recv, req, rep, msi, mem, present, latest>>
  BY <1>1, StoreAlone, GotoSides DEF ReadPage
<1>3. /\ temp'[c].page_num = idx[c] /\ temp'[c].access_page = idx[c]
      /\ temp'[c].read_signal = temp[c].read_signal
  <2>1. DOMAIN temp[c] = {"page_num", "access_page", "read_signal", "invalidate_signal",
                          "BusRdx", "BusUpgr"}
    BY <1>1 DEF ProcInfo
  <2>2. CASE all[c]
    BY <1>2, <2>1, <2>2 DEF PageOf
  <2>3. CASE ~all[c]
    <3>1. temp[c].page_num = idx[c] /\ off[c] = idx[c]
      BY <1>1, <2>3 DEF MenuTemp
    <3> QED
      BY <1>2, <2>1, <2>3, <3>1 DEF PageOf
  <2> QED
    BY <2>2, <2>3
<1>4. MenuTemp(c)' /\ MenuState(c)'
  BY <1>2, <1>3 DEF MenuTemp, MenuState, Owning, OnPage, OnAddress
<1>5. Order(c, q)' /\ Phase(c, q)'
  BY <1>1, <1>2 DEF Order, Phase, Reading
<1>6. (Owning(c)' <=> Owning(c)) /\ ~Owning(c)
  BY <1>1, <1>2 DEF Owning
<1> QED
  BY <1>1, <1>2, <1>3, <1>4, <1>5, <1>6, MenuMove

\* The page number is loaded; it is that of the page the menu is at.
LEMMA LoadPageKeeps ==
    ASSUME NEW c, NEW q, Sides(c, q), TypeOK, Whole, Absent, Turn(c, q),
           ReadOff(c) \/ WriteOff(c)
    PROVE  Keeps(c, q) /\ Quiet
<1>1. /\ Busy(c, q) /\ MenuTemp(c) /\ MenuState(c) /\ Order(c, q) /\ Phase(c, q)
      /\ alive[c] /\ alive[q]
      /\ \/ mpc[c] = "r_off" /\ Goto(c, "r_page")
         \/ mpc[c] = "w_off" /\ Goto(c, "w_page")
      /\ off' = [off EXCEPT ![c] = temp[c].page_num]
      /\ UNCHANGED <<alive, idx, all, spc, recv, req, rep, msi, mem, present, latest, temp>>
  BY DEF Turn, ReadOff, WriteOff, LoadPage, At, Busy
<1>2. /\ off'[c] = temp[c].page_num /\ mpc'[q] = mpc[q]
      /\ \/ mpc[c] = "r_off" /\ mpc'[c] = "r_page"
         \/ mpc[c] = "w_off" /\ mpc'[c] = "w_page"
  <2>1. off'[c] = temp[c].page_num
    BY <1>1 DEF TypeOK, Sides
  <2> QED
    BY <1>1, <2>1, GotoSides
<1>3. Owning(c)' <=> Owning(c)
  BY <1>2 DEF Owning
<1>4. MenuTemp(c)' /\ MenuState(c)'
  <2>1. temp[c].page_num = idx[c]
    BY <1>1, <1>2 DEF MenuTemp, OnPage, Owning
  <2> QED
    BY <1>1, <1>2, <1>3, <2>1 DEF MenuTemp, MenuState, OnPage, OnAddress
<1>5. Order(c, q)' /\ Phase(c, q)'
  BY <1>1, <1>2 DEF Order, Phase, Reading
<1> QED
  BY <1>1, <1>2, <1>3, <1>4, <1>5, MenuMove

\* A command and a page number, when nothing is under way.
LEMMA CommandKeeps ==
    ASSUME NEW c, NEW q, Sides(c, q), TypeOK, Whole, Absent, Turn(c, q), Quiescent,
           NEW k \in Pages \cup {-1}, NEW single \in {"r_off", "w_check"},
           NEW every \in {"r_page", "w_type"}, Command(c, k, single, every)
    PROVE  Keeps(c, q) /\ Quiet
<1>1. /\ Busy(c, q) /\ mpc[c] = "prompt" /\ alive[c] /\ alive[q] /\ temp[c] \in ProcInfo
      /\ req[c] = <<>> /\ rep[c] = <<>> /\ spc[q] = "recv" /\ Len(req[c]) = 0
  BY SideTypes DEF Turn, Quiescent, Sides
<1>2. /\ temp'[c] = [temp[c] EXCEPT !.page_num = k] /\ temp'[q] = temp[q]
      /\ mpc'[c] = (IF k = -1 THEN every ELSE single) /\ mpc'[q] = mpc[q]
      /\ idx'[c] = (IF k = -1 THEN 0 ELSE k) /\ all'[c] = (k = -1)
      /\ UNCHANGED <<alive, spc, recv, req, rep, msi, mem, present, latest>>
  <2>1. temp'[c] = [temp[c] EXCEPT !.page_num = k] /\ temp'[q] = temp[q] /\ spc' = spc
    BY <1>1, StoreAlone DEF Command
  <2>2. temp'[c].page_num = k
    BY <1>1, <2>1, Stores
  <2>3. /\ idx' = [idx EXCEPT ![c] = IF k = -1 THEN 0 ELSE k]
        /\ all' = [all EXCEPT ![c] = k = -1]
        /\ Goto(c, IF k = -1 THEN every ELSE single)
    BY <2>2 DEF Command
  <2>4. idx'[c] = (IF k = -1 THEN 0 ELSE k) /\ all'[c] = (k = -1)
    BY <2>3 DEF TypeOK, Sides
  <2>5. mpc'[c] = (IF k = -1 THEN every ELSE single) /\ mpc'[q] = mpc[q]
    BY <2>3, GotoSides
  <2> QED
    BY <2>1, <2>4, <2>5 DEF Command
<1>3. temp'[c].page_num = k /\ temp'[c].read_signal = temp[c].read_signal
  BY <1>1, <1>2, Stores
<1>4. MenuTemp(c)' /\ MenuState(c)' /\ ~Owning(c)'
  BY <1>2, <1>3 DEF MenuTemp, MenuState, Owning, OnPage, OnAddress
<1>5. Order(c, q)' /\ Phase(c, q)'
  BY <1>1, <1>2 DEF Order, Phase, Reading
<1>6. ~Owning(c)
  BY <1>1 DEF Owning
<1> QED
  BY <1>1, <1>2, <1>3, <1>4, <1>5, <1>6, MenuMove

\* What a view leaves behind is a page number.
LEMMA ViewKeeps ==
    ASSUME NEW c, NEW q, Sides(c, q), TypeOK, Whole, Absent, Turn(c, q), Quiescent,
           NEW k, View(c, k)
    PROVE  Keeps(c, q) /\ Quiet
<1>1. /\ Busy(c, q) /\ mpc[c] = "prompt" /\ alive[c] /\ alive[q] /\ temp[c] \in ProcInfo
      /\ Order(c, q) /\ Phase(c, q)
  BY SideTypes DEF Turn, Quiescent, Sides
<1>2. /\ temp'[c] = [temp[c] EXCEPT !.page_num = k] /\ temp'[q] = temp[q]
      /\ UNCHANGED <<alive, mpc, idx, all, off, spc, recv, req, rep, msi, mem, present, latest>>
  BY <1>1, StoreAlone DEF View
<1>3. temp'[c].read_signal = temp[c].read_signal
  BY <1>1, <1>2, Stores
<1>4. MenuTemp(c)' /\ MenuState(c)' /\ ~Owning(c)' /\ ~Owning(c)
  BY <1>1, <1>2 DEF MenuTemp, MenuState, Owning, OnPage, OnAddress
<1>5. Order(c, q)' /\ Phase(c, q)'
  BY <1>1, <1>2 DEF Order, Phase, Reading
<1> QED
  BY <1>1, <1>2, <1>3, <1>4, <1>5, MenuMove

\* The line is typed into message, which the invariant does not speak of.
LEMMA WriteTypeKeeps ==
    ASSUME NEW c, NEW q, Sides(c, q), TypeOK, Whole, Absent, Turn(c, q), NEW t, WriteType(c, t)
    PROVE  Keeps(c, q) /\ Quiet
<1>1. /\ Busy(c, q) /\ MenuTemp(c) /\ MenuState(c) /\ Order(c, q) /\ Phase(c, q)
      /\ mpc[c] = "w_type" /\ alive[c] /\ alive[q]
  BY DEF Turn, WriteType, At, Busy
<1>2. /\ mpc'[c] = (IF all[c] THEN "w_num" ELSE "w_copy") /\ mpc'[q] = mpc[q]
      /\ UNCHANGED <<alive, idx, all, off, spc, recv, req, rep, msi, mem, present, latest, temp>>
  BY <1>1, GotoSides DEF WriteType
<1>3. Owning(c)' <=> Owning(c)
  BY <1>1, <1>2 DEF Owning
<1>4. MenuTemp(c)' /\ MenuState(c)'
  BY <1>1, <1>2, <1>3 DEF MenuTemp, MenuState, Owning, OnPage, OnAddress
<1>5. Order(c, q)' /\ Phase(c, q)'
  BY <1>1, <1>2 DEF Order, Phase, Reading
<1> QED
  BY <1>1, <1>2, <1>3, <1>4, <1>5, MenuMove

\* The loop over all pages sets the page number of the next one.
LEMMA WriteNumKeeps ==
    ASSUME NEW c, NEW q, Sides(c, q), TypeOK, Whole, Absent, Turn(c, q), WriteNum(c)
    PROVE  Keeps(c, q) /\ Quiet
<1>1. /\ Busy(c, q) /\ Order(c, q) /\ Phase(c, q) /\ mpc[c] = "w_num"
      /\ alive[c] /\ alive[q] /\ temp[c] \in ProcInfo
  BY SideTypes DEF Turn, WriteNum, At, Busy
<1>2. /\ temp'[c] = [temp[c] EXCEPT !.page_num = idx[c]] /\ temp'[q] = temp[q]
      /\ mpc'[c] = "w_check" /\ mpc'[q] = mpc[q]
      /\ UNCHANGED <<alive, idx, all, off, spc, recv, req, rep, msi, mem, present, latest>>
  BY <1>1, StoreAlone, GotoSides DEF WriteNum
<1>3. temp'[c].page_num = idx[c] /\ temp'[c].read_signal = temp[c].read_signal
  BY <1>1, <1>2, Stores
<1>4. MenuTemp(c)' /\ MenuState(c)' /\ ~Owning(c)' /\ ~Owning(c)
  BY <1>1, <1>2, <1>3 DEF MenuTemp, MenuState, Owning, OnPage, OnAddress
<1>5. Order(c, q)' /\ Phase(c, q)'
  BY <1>1, <1>2 DEF Order, Phase, Reading
<1> QED
  BY <1>1, <1>2, <1>3, <1>4, <1>5, MenuMove

\* A page that is modified already has no signal to take back.
LEMMA WriteCheckKeeps ==
    ASSUME NEW c, NEW q, Sides(c, q), TypeOK, Whole, Absent, Turn(c, q), WriteCheck(c)
    PROVE  Keeps(c, q) /\ Quiet
<1>1. /\ Busy(c, q) /\ MenuTemp(c) /\ MenuState(c) /\ Order(c, q) /\ Phase(c, q)
      /\ mpc[c] = "w_check" /\ alive[c] /\ alive[q] /\ OwnClean(c, q) /\ idx[c] \in Pages
  BY SideTypes DEF Turn, WriteCheck, At, Busy
<1>2. msi[c][idx[c]] \in {Modified, Shared, Invalid}
  BY <1>1 DEF Whole, Sides
<1>3. /\ mpc'[c] \in {"w_rdx", "w_upgr"} \/ (mpc'[c] = "w_state" /\ msi[c][idx[c]] = Modified)
      /\ mpc'[q] = mpc[q]
      /\ UNCHANGED <<alive, idx, all, off, spc, recv, req, rep, msi, mem, present, latest, temp>>
  BY <1>1, <1>2, GotoSides, States, CheckAlone DEF WriteCheck
<1>4. mpc'[c] = "w_state" => idx[c] \notin temp[c].read_signal
  BY <1>1, <1>3 DEF OwnClean
<1>5. MenuTemp(c)' /\ MenuState(c)' /\ ~Owning(c)' /\ ~Owning(c)
  BY <1>1, <1>3, <1>4 DEF MenuTemp, MenuState, Owning, OnPage, OnAddress
<1>6. Order(c, q)' /\ Phase(c, q)'
  BY <1>1, <1>3 DEF Order, Phase, Reading
<1> QED
  BY <1>1, <1>3, <1>5, <1>6, MenuMove

\* The bus signal goes up and the read signal of the page down.
LEMMA WriteFlagsKeeps ==
    ASSUME NEW c, NEW q, Sides(c, q), TypeOK, Whole, Absent, Turn(c, q), WriteFlags(c)
    PROVE  Keeps(c, q) /\ Quiet
<1>1. /\ Busy(c, q) /\ MenuTemp(c) /\ MenuState(c) /\ Order(c, q) /\ Phase(c, q)
      /\ mpc[c] \in {"w_rdx", "w_upgr"} /\ alive[c] /\ alive[q] /\ temp[c] \in ProcInfo
  BY SideTypes DEF Turn, WriteFlags, At, Busy
<1>2. /\ temp'[c] \in {RdxRequest(temp[c], idx[c]), UpgrRequest(temp[c], idx[c])}
      /\ temp'[q] = temp[q] /\ spc' = spc
  BY <1>1, StoreAlone DEF WriteFlags
<1>3. /\ mpc'[c] = "w_state" /\ mpc'[q] = mpc[q]
      /\ UNCHANGED <<alive, idx, all, off, recv, req, rep, msi, mem, present, latest>>
  BY <1>1, GotoSides DEF WriteFlags
<1>4. /\ temp'[c].page_num = temp[c].page_num
      /\ temp'[c].read_signal = temp[c].read_signal \ {idx[c]}
  BY <1>1, <1>2, Stores
<1>5. MenuTemp(c)' /\ MenuState(c)' /\ ~Owning(c)' /\ ~Owning(c)
  BY <1>1, <1>3, <1>4 DEF MenuTemp, MenuState, Owning, OnPage, OnAddress
<1>6. Order(c, q)' /\ Phase(c, q)'
  BY <1>1, <1>2, <1>3 DEF Order, Phase, Reading
<1> QED
  BY <1>1, <1>2, <1>3, <1>4, <1>5, <1>6, MenuMove

\* The address follows the page number.
LEMMA WritePageKeeps ==
    ASSUME NEW c, NEW q, Sides(c, q), TypeOK, Whole, Absent, Turn(c, q), WritePage(c)
    PROVE  Keeps(c, q) /\ Quiet
<1>1. /\ Busy(c, q) /\ MenuTemp(c) /\ MenuState(c) /\ Order(c, q) /\ Phase(c, q)
      /\ mpc[c] = "w_page" /\ alive[c] /\ alive[q] /\ temp[c] \in ProcInfo
      /\ all[c] \in BOOLEAN
  BY SideTypes DEF Turn, WritePage, At, Busy
<1>2. /\ temp'[c] = [temp[c] EXCEPT !.access_page = off[c]] /\ temp'[q] = temp[q]
      /\ mpc'[c] = (IF all[c] THEN "w_copy" ELSE "w_type") /\ mpc'[q] = mpc[q]
      /\ UNCHANGED <<alive, idx, all, spc, recv, req, rep, msi, mem, present, latest>>
  BY <1>1, StoreAlone, GotoSides DEF WritePage
<1>3. /\ temp'[c].page_num = temp[c].page_num /\ temp'[c].access_page = off[c]
      /\ temp'[c].read_signal = temp[c].read_signal
  BY <1>1, <1>2, Stores
<1>4. Owning(c)' /\ Owning(c)
  BY <1>1, <1>2 DEF Owning
<1>5. MenuTemp(c)' /\ MenuState(c)'
  BY <1>1, <1>2, <1>3, <1>4 DEF MenuTemp, MenuState, OnPage, OnAddress
<1>6. Order(c, q)' /\ Phase(c, q)'
  BY <1>1, <1>2 DEF Order, Phase, Reading
<1> QED
  BY <1>1, <1>2, <1>3, <1>4, <1>5, <1>6, MenuMove
-----------------------------------------------------------------------------
(* The fault handler and the stores to a page.                             *)

\* Nothing that the invariant speaks of changes but which processes run and
\* which pages are mapped in.
LEMMA StillKeeps ==
    ASSUME NEW c, NEW q, Sides(c, q), Whole, Absent, Turn(c, q), Busy(c, q)',
           UNCHANGED <<mpc, idx, all, off, spc, recv, temp, msi, mem, req, rep, latest>>,
           \A p \in Machines : present[p] \subseteq present'[p]
    PROVE  Keeps(c, q) /\ Quiet
<1>1. Whole' /\ Absent'
  BY DEF Whole, Absent
<1>2. /\ Owning(c)' <=> Owning(c)
      /\ \A r : (Reading(r)' <=> Reading(r)) /\ (Sent(c, r)' <=> Sent(c, r))
  BY DEF Owning, Reading, Sent
<1>3. MenuTemp(c)' /\ MenuState(c)' /\ Wire(c, q)' /\ Order(c, q)' /\ Serve(q)'
  BY <1>2 DEF Turn, MenuTemp, OnPage, OnAddress, MenuState, Wire, Order, Serve, Reading
<1>4. Phase(c, q)'
  BY DEF Turn, Phase, Asked, AtPeer, Answered, Answer, Reading
<1>5. \A k : /\ KillSent(c, q, k)' <=> KillSent(c, q, k)
             /\ WritePending(c, k)' <=> WritePending(c, k)
             /\ ReadPending(c, k)' <=> ReadPending(c, k)
  BY DEF KillSent, Killed, Reading, WritePending, ReadPending, Served
<1>6. Paired(c, q)' /\ Holder(c, q)' /\ Owner(c, q)'
  BY <1>2, <1>5 DEF Turn, Paired, Holder, Owner
<1>7. OwnClean(c, q)' /\ PeerClean(c, q)'
  BY <1>2 DEF Turn, OwnClean, PeerClean, ToCome
<1>8. \A k \in Pages : msi'[c][k] = msi[c][k] /\ Effective(q, k)' = Effective(q, k)
  <2>1. Other(q) = c
    BY DEF Sides
  <2> QED
    BY <1>5, <2>1 DEF Effective
<1>9. Quiet
  BY <1>8, QuietFrom DEF Turn
<1> QED
  BY <1>1, <1>3, <1>4, <1>6, <1>7, <1>9 DEF Keeps, Turn

\* A page that is mapped in was as clear as the one the handler copies.
LEMMA FaultKeeps ==
    ASSUME NEW c, NEW q, Sides(c, q), TypeOK, Whole, Absent, Turn(c, q),
           NEW p \in Machines, FaultHandler(p)
    PROVE  Keeps(c, q) /\ Quiet
<1>1. PICK k : k = temp[p].access_page
  OBVIOUS
<1>2. /\ k \in Pages /\ k \notin present[p]
      /\ present' = [present EXCEPT ![p] = @ \cup {k}]
      /\ mem' = [mem EXCEPT ![p][k] = Zeroed]
      /\ UNCHANGED <<alive, mpc, idx, all, off, spc, recv, temp, msi, req, rep, latest>>
  BY <1>1 DEF FaultHandler
<1>3. mem[p][k] = Zeroed /\ mem \in [Machines -> [Pages -> Buf]]
  BY <1>2 DEF Absent, TypeOK
<1>4. mem' = mem
  BY <1>2, <1>3
<1>5. \A r \in Machines : present[r] \subseteq present'[r]
  BY <1>2 DEF TypeOK
<1>6. Busy(c, q)'
  BY <1>2 DEF Turn, Busy
<1> QED
  BY <1>2, <1>4, <1>5, <1>6, StillKeeps

\* A cleared page holds the empty text.
LEMMA ZeroText == Text(Zeroed) = <<>>
<1>1. {i \in 1 .. PageLen : \A j \in 1 .. i : Zeroed[j] # NUL} = {}
  BY PageLenAssumption DEF Zeroed
<1>2. Strlen(Zeroed) = 0
  BY <1>1, FS_EmptySet DEF Strlen
<1> QED
  BY <1>2 DEF Text

\* Copying nothing changes nothing.
LEMMA OverlayNone ==
    ASSUME NEW b \in Buf, NEW t, Len(t) = 0
    PROVE  Overlay(b, t) = b
<1>1. \A i \in 1 .. PageLen : ~(i <= Len(t))
  BY PageLenAssumption
<1>2. b = [i \in 1 .. PageLen |-> b[i]]
  BY DEF Buf
<1> QED
  BY <1>1, <1>2 DEF Overlay

\* The page that is cleared is invalid here, so the last text is elsewhere.
LEMMA ReadMemsetKeeps ==
    ASSUME NEW c, NEW q, Sides(c, q), TypeOK, Whole, Absent, Turn(c, q), ReadMemset(c)
    PROVE  Keeps(c, q) /\ Quiet
<1>1. /\ Busy(c, q) /\ MenuTemp(c) /\ MenuState(c) /\ Order(c, q) /\ Phase(c, q) /\ Wire(c, q)
      /\ Serve(q) /\ Paired(c, q) /\ OwnClean(c, q) /\ PeerClean(c, q) /\ Holder(c, q)
      /\ Owner(c, q) /\ mpc[c] = "r_memset" /\ alive[c] /\ alive[q] /\ idx[c] \in Pages
  BY SideTypes DEF Turn, ReadMemset, At, Busy
<1>2. temp[c].access_page = idx[c] /\ msi[c][idx[c]] = Invalid
  BY <1>1 DEF MenuTemp, OnAddress, MenuState
<1>3. /\ mem'[c][idx[c]] = Zeroed /\ mem'[q] = mem[q]
      /\ \A k \in Pages : k # idx[c] => mem'[c][k] = mem[c][k]
      /\ UNCHANGED <<alive, spc, recv, temp, idx, all, off, msi, present, req, rep, latest>>
  BY <1>1, <1>2 DEF ReadMemset, TypeOK, Sides
<1>4. mpc'[c] = "r_flags" /\ mpc'[q] = mpc[q]
  BY GotoSides DEF ReadMemset
<1>5. Whole' /\ Absent'
  BY <1>3 DEF Whole, Absent, Sides
<1>6. Busy(c, q)' /\ Wire(c, q)' /\ Serve(q)'
  BY <1>1, <1>3, <1>4 DEF Busy, Wire, Sent, Reading, Serve
<1>7. MenuTemp(c)' /\ MenuState(c)' /\ ~Owning(c) /\ ~Owning(c)'
  BY <1>1, <1>2, <1>3, <1>4 DEF MenuTemp, MenuState, Owning, OnPage, OnAddress
<1>8. Order(c, q)' /\ Phase(c, q)'
  BY <1>1, <1>3, <1>4 DEF Order, Phase, Reading
<1>9. \A k \in Pages : /\ KillSent(c, q, k)' <=> KillSent(c, q, k)
                       /\ AskSent(c, q, k)' <=> AskSent(c, q, k)
  BY <1>3 DEF KillSent, AskSent, Reading, Killed, Served
<1>10. \A k \in Pages : /\ WritePending(c, k)' <=> WritePending(c, k)
                        /\ ReadPending(c, k)' <=> ReadPending(c, k)
                        /\ Effective(q, k)' = Effective(q, k)
  BY <1>1, <1>3, <1>4, <1>7, <1>9, PendingForm, PendingNext, PromisedForm
<1>11. Paired(c, q)' /\ Quiet
  BY <1>1, <1>3, <1>6, <1>10, QuietFrom DEF Paired
<1>12. Holder(c, q)' /\ Owner(c, q)'
  BY <1>1, <1>2, <1>3, <1>7, <1>9, <1>10, States DEF Holder, Owner
<1>13. OwnClean(c, q)' /\ PeerClean(c, q)'
  BY <1>1, <1>3, <1>4, <1>7 DEF OwnClean, PeerClean, ToCome
<1> QED
  BY <1>5, <1>6, <1>7, <1>8, <1>11, <1>12, <1>13 DEF Keeps, Turn

\* memcpy makes the page of c the last text; its peer has not been told.
LEMMA WriteCopyKeeps ==
    ASSUME NEW c, NEW q, Sides(c, q), TypeOK, Whole, Absent, Turn(c, q), WriteCopy(c)
    PROVE  Keeps(c, q) /\ Quiet
<1>1. /\ Busy(c, q) /\ MenuTemp(c) /\ MenuState(c) /\ Order(c, q) /\ Phase(c, q) /\ Wire(c, q)
      /\ Serve(q) /\ Paired(c, q) /\ OwnClean(c, q) /\ PeerClean(c, q) /\ Holder(c, q)
      /\ Owner(c, q) /\ mpc[c] = "w_copy" /\ alive[c] /\ alive[q] /\ idx[c] \in Pages
  BY SideTypes DEF Turn, WriteCopy, At, Busy
<1>2. temp[c].access_page = idx[c] /\ msi[c][idx[c]] = Modified /\ Owning(c)
  BY <1>1 DEF MenuTemp, OnAddress, MenuState, Owning
<1>3. PICK b : b = Overlay(mem[c][idx[c]], message[c])
  OBVIOUS
<1>4. /\ mem'[c][idx[c]] = b /\ mem'[q] = mem[q]
      /\ \A k \in Pages : k # idx[c] => mem'[c][k] = mem[c][k]
      /\ latest'[idx[c]] = Text(b)
      /\ \A k \in Pages : k # idx[c] => latest'[k] = latest[k]
      /\ UNCHANGED <<alive, spc, recv, temp, idx, all, off, msi, present, req, rep>>
  <2>1. mem' = [mem EXCEPT ![c][idx[c]] = b] /\ latest' = [latest EXCEPT ![idx[c]] = Text(b)]
    BY <1>2, <1>3 DEF WriteCopy
  <2> QED
    BY <1>1, <2>1 DEF WriteCopy, TypeOK, Sides
<1>5. mpc'[c] = "w_send" /\ mpc'[q] = mpc[q]
  BY GotoSides DEF WriteCopy
<1>6. idx[c] \notin present[c] => b = mem[c][idx[c]]
  <2>1. mem[c][idx[c]] \in Buf
    BY <1>1 DEF TypeOK, Sides
  <2>2. idx[c] \notin present[c] => Len(message[c]) = 0
    BY <1>2 DEF WriteCopy, Mapped
  <2> QED
    BY <1>3, <2>1, <2>2, OverlayNone
<1>7. Whole' /\ Absent'
  BY <1>4, <1>6 DEF Whole, Absent, Sides
<1>8. Busy(c, q)' /\ Wire(c, q)'
  BY <1>1, <1>4, <1>5 DEF Busy, Wire, Sent, Reading
<1>9. Serve(q)'
  BY <1>1, <1>4 DEF Phase, Serve, Reading
<1>10. Owning(c)'
  BY <1>5 DEF Owning
<1>11. MenuTemp(c)' /\ MenuState(c)'
  BY <1>1, <1>2, <1>4, <1>5, <1>10 DEF MenuTemp, MenuState, OnPage, OnAddress
<1>12. Order(c, q)' /\ Phase(c, q)'
  BY <1>1, <1>4, <1>5 DEF Order, Phase, Reading
<1>13. \A k \in Pages : /\ KillSent(c, q, k)' <=> KillSent(c, q, k)
                        /\ AskSent(c, q, k)' <=> AskSent(c, q, k)
  BY <1>4 DEF KillSent, AskSent, Reading, Killed, Served
<1>14. \A k \in Pages : /\ WritePending(c, k)' <=> WritePending(c, k)
                        /\ ReadPending(c, k)' <=> ReadPending(c, k)
                        /\ Effective(q, k)' = Effective(q, k)
  BY <1>1, <1>2, <1>4, <1>5, <1>10, <1>13, PendingForm, PendingNext, PromisedForm
<1>15. Paired(c, q)' /\ Quiet
  BY <1>1, <1>4, <1>8, <1>14, QuietFrom DEF Paired
<1>16. Holder(c, q)'
  BY <1>1, <1>2, <1>4, <1>13, States DEF Holder
<1>17. Owner(c, q)'
  <2>1. WritePending(c, idx[c])
    BY <1>2, PendingForm
  <2> QED
    BY <1>1, <1>2, <1>4, <1>5, <1>14, <2>1 DEF Owner
<1>18. OwnClean(c, q)' /\ PeerClean(c, q)'
  BY <1>1, <1>2, <1>4, <1>5, <1>10 DEF OwnClean, PeerClean, ToCome
<1> QED
  BY <1>7, <1>8, <1>9, <1>11, <1>12, <1>15, <1>16, <1>17, <1>18 DEF Keeps, Turn
-----------------------------------------------------------------------------
(* The two stores of the menu to list_MSI: the steps of Coherence.         *)

\* Nobody races the menu of c for list_MSI either.
LEMMA StateAlone ==
    ASSUME NEW c, NEW q, Sides(c, q), TypeOK, Busy(c, q), NEW k \in Pages, NEW s,
           StoreState(c, k, s)
    PROVE  /\ msi'[c][k] = s /\ msi'[q] = msi[q] /\ spc' = spc
           /\ \A j \in Pages : j # k => msi'[c][j] = msi[c][j]
<1>1. spc[c] \notin ServerStores
  BY DEF Busy, ServerStores
<1>2. msi' = [msi EXCEPT ![c][k] = s] /\ spc' = spc
  BY <1>1 DEF StoreState
<1> QED
  BY <1>2 DEF TypeOK, Sides

\* What the abstract step needs to know of the page it changes.
LEMMA AbsStep ==
    ASSUME NEW c, NEW q, Sides(c, q), Busy(c, q), Busy(c, q)', NEW k \in Pages,
           \A j \in Pages : j # k => /\ msi'[c][j] = msi[c][j]
                                     /\ Effective(q, j)' = Effective(q, j),
           \/ /\ StateName(msi[c][k]) = "I" /\ StateName(msi'[c][k]) = "S"
              /\ Effective(q, k)' = "S"
           \/ StateName(msi'[c][k]) = "M" /\ Effective(q, k)' = "I"
    PROVE  Abs!Next
<1>1. \A j \in Pages : /\ Effective(c, j) = StateName(msi[c][j])
                       /\ Effective(c, j)' = StateName(msi'[c][j])
  <2> SUFFICES ASSUME NEW j \in Pages
               PROVE  /\ Effective(c, j) = StateName(msi[c][j])
                      /\ Effective(c, j)' = StateName(msi'[c][j])
    OBVIOUS
  <2>1. Effective(c, j) = StateName(msi[c][j])
    BY PromisedForm
  <2>2. ~WritePending(q, j)' /\ ~ReadPending(q, j)'
    <3>1. Other(q) = c /\ mpc'[q] = "prompt" /\ spc'[c] = "recv" /\ Len(req'[q]) = 0
      BY DEF Sides, Busy
    <3> QED
      BY <3>1 DEF WritePending, ReadPending
  <2>3. Other(c) = q
    BY DEF Sides
  <2> QED
    BY <2>1, <2>2, <2>3 DEF Effective
<1>2. Abs!Machines = {c, q} /\ Machines = {c, q} /\ c # q
  BY DEF Sides, Abs!Machines, Machines
<1>3. /\ Promised = [p \in {c, q} |-> [j \in Pages |-> Effective(p, j)]]
      /\ Promised' = [p \in {c, q} |-> [j \in Pages |-> Effective(p, j)']]
  BY <1>2 DEF Promised
<1>4. /\ \A j \in Pages : /\ Promised[c][j] = StateName(msi[c][j])
                          /\ Promised[q][j] = Effective(q, j)
      /\ \A p \in {c, q} : Promised[p] = [j \in Pages |-> Promised[p][j]]
  BY <1>1, <1>3
<1>5. /\ Promised' = [p \in {c, q} |-> Promised'[p]]
      /\ \A p \in {c, q} : Promised'[p] = [j \in Pages |-> Promised'[p][j]]
      /\ \A j \in Pages : /\ Promised'[c][j] = StateName(msi'[c][j])
                          /\ Promised'[q][j] = Effective(q, j)'
  BY <1>1, <1>3
<1>6. CASE /\ StateName(msi[c][k]) = "I" /\ StateName(msi'[c][k]) = "S"
           /\ Effective(q, k)' = "S"
  <2>1. \A p \in {c, q} : Promised'[p] = [Promised[p] EXCEPT ![k] = "S"]
    BY <1>4, <1>5, <1>6
  <2>2. Promised' = [p \in {c, q} |-> [Promised[p] EXCEPT ![k] = "S"]]
    BY <1>5, <2>1
  <2>3. Abs!ReadMiss(c, k)
    BY <1>2, <1>4, <1>6, <2>2 DEF Abs!ReadMiss
  <2> QED
    BY <1>2, <2>3 DEF Abs!Next
<1>7. CASE StateName(msi'[c][k]) = "M" /\ Effective(q, k)' = "I"
  <2>1. \A p \in {c, q} :
           Promised'[p] = [Promised[p] EXCEPT ![k] = IF p = c THEN "M" ELSE "I"]
    BY <1>2, <1>4, <1>5, <1>7
  <2>2. Promised' = [p \in {c, q} |->
                       [Promised[p] EXCEPT ![k] = IF p = c THEN "M" ELSE "I"]]
    BY <1>5, <2>1
  <2>3. Abs!Write(c, k)
    BY <1>2, <2>2 DEF Abs!Write
  <2> QED
    BY <1>2, <2>3 DEF Abs!Next
<1> QED
  BY <1>6, <1>7

\* The read miss of the abstract specification.
LEMMA ReadStateKeeps ==
    ASSUME NEW c, NEW q, Sides(c, q), TypeOK, Whole, Absent, Turn(c, q), ReadState(c)
    PROVE  Keeps(c, q) /\ Abs!Next
<1>1. /\ Busy(c, q) /\ MenuTemp(c) /\ MenuState(c) /\ Order(c, q) /\ Phase(c, q) /\ Wire(c, q)
      /\ Serve(q) /\ Paired(c, q) /\ OwnClean(c, q) /\ PeerClean(c, q) /\ Holder(c, q)
      /\ Owner(c, q) /\ mpc[c] = "r_state" /\ alive[c] /\ alive[q] /\ idx[c] \in Pages
      /\ idx[c] \in Int
  BY SideTypes DEF Turn, ReadState, At, Busy
<1>2. /\ temp[c].page_num = idx[c] /\ idx[c] \in temp[c].read_signal
      /\ msi[c][idx[c]] = Invalid /\ mem[c][idx[c]] = Zeroed
  BY <1>1 DEF MenuTemp, OnPage, MenuState
<1>3. /\ msi'[c][idx[c]] = Shared /\ msi'[q] = msi[q] /\ spc' = spc
      /\ \A k \in Pages : k # idx[c] => msi'[c][k] = msi[c][k]
  <2>1. StoreState(c, idx[c], Shared)
    BY <1>1, <1>2, CheckAlone DEF ReadState
  <2> QED
    BY <1>1, <2>1, StateAlone
<1>4. /\ mpc'[c] = "r_send" /\ mpc'[q] = mpc[q]
      /\ UNCHANGED <<alive, recv, temp, idx, all, off, mem, present, req, rep, latest>>
  BY GotoSides DEF ReadState
<1>5. Whole' /\ Absent'
  BY <1>3, <1>4 DEF Whole, Absent, Sides
<1>6. /\ req[c] = <<>> /\ Len(req[c]) = 0
      /\ spc[q] # "recv" => recv[q].page_num < idx[c] /\ recv[q].page_num \in Pages
  BY <1>1 DEF Phase, Order, Wire, Sent
<1>7. Busy(c, q)' /\ Serve(q)'
  BY <1>1, <1>3, <1>4 DEF Busy, Reading, Serve
<1>8. Wire(c, q)'
  <2>1. spc[q] # "recv" => recv[q].page_num # idx[c]
    BY <1>1, <1>6
  <2> QED
    BY <1>1, <1>3, <1>4, <1>6, <2>1 DEF Wire, Sent, Reading
<1>9. MenuTemp(c)' /\ MenuState(c)' /\ ~Owning(c) /\ ~Owning(c)'
  BY <1>1, <1>2, <1>3, <1>4 DEF MenuTemp, MenuState, Owning, OnPage, OnAddress
<1>10. Order(c, q)' /\ Phase(c, q)'
  BY <1>1, <1>3, <1>4 DEF Order, Phase, Reading
<1>11. \A k \in Pages : /\ KillSent(c, q, k)' <=> KillSent(c, q, k)
                        /\ AskSent(c, q, k)' <=> AskSent(c, q, k)
  BY <1>3, <1>4 DEF KillSent, AskSent, Reading, Killed, Served
<1>k. PICK k \in Pages : k = idx[c]
  BY <1>1
<1>12. /\ \A j \in Pages : WritePending(c, j)' <=> WritePending(c, j)
       /\ \A j \in Pages : j # k => (ReadPending(c, j)' <=> ReadPending(c, j))
       /\ ReadPending(c, k)'
  BY <1>1, <1>4, <1>9, <1>11, <1>k, PendingForm, PendingNext
<1>13. ~WritePending(c, k) /\ ~ReadPending(c, k)
  BY <1>2, <1>k, PendingState, States
<1>14. msi[q][k] # Shared
  BY <1>1, <1>2, <1>13, <1>k, States DEF Paired, Settled
<1>15. Paired(c, q)'
  BY <1>1, <1>3, <1>12, <1>14, <1>k DEF Paired
<1>16. Abs!Next
  <2>1. \A j \in Pages : j # k => Effective(q, j)' = Effective(q, j)
    BY <1>1, <1>3, <1>12, <1>k, PendingNext, PromisedForm
  <2>2. Effective(q, k)' = "S"
    BY <1>12, <1>13, PendingNext
  <2> QED
    BY <1>1, <1>2, <1>3, <1>7, <1>k, <2>1, <2>2, AbsStep, States
<1>17. Holder(c, q)' /\ Owner(c, q)'
  BY <1>1, <1>2, <1>3, <1>4, <1>9, <1>11, <1>12, <1>k, States DEF Holder, Owner
<1>18. OwnClean(c, q)' /\ PeerClean(c, q)'
  BY <1>1, <1>3, <1>4, <1>9, States DEF OwnClean, PeerClean, ToCome
<1> QED
  BY <1>5, <1>7, <1>8, <1>9, <1>10, <1>15, <1>16, <1>17, <1>18 DEF Keeps, Turn

\* The write of the abstract specification.
LEMMA WriteStateKeeps ==
    ASSUME NEW c, NEW q, Sides(c, q), TypeOK, Whole, Absent, Turn(c, q), WriteState(c)
    PROVE  Keeps(c, q) /\ Abs!Next
<1>1. /\ Busy(c, q) /\ MenuTemp(c) /\ MenuState(c) /\ Order(c, q) /\ Phase(c, q) /\ Wire(c, q)
      /\ Serve(q) /\ Paired(c, q) /\ OwnClean(c, q) /\ PeerClean(c, q) /\ Holder(c, q)
      /\ Owner(c, q) /\ mpc[c] = "w_state" /\ alive[c] /\ alive[q] /\ idx[c] \in Pages
      /\ idx[c] \in Int
  BY SideTypes DEF Turn, WriteState, At, Busy
<1>2. temp[c].page_num = idx[c] /\ idx[c] \notin temp[c].read_signal
  BY <1>1 DEF MenuTemp, OnPage
<1>3. /\ msi'[c][idx[c]] = Modified /\ msi'[q] = msi[q] /\ spc' = spc
      /\ \A k \in Pages : k # idx[c] => msi'[c][k] = msi[c][k]
  BY <1>1, <1>2, StateAlone DEF WriteState
<1>4. /\ mpc'[c] = "w_off" /\ mpc'[q] = mpc[q]
      /\ UNCHANGED <<alive, recv, temp, idx, all, off, mem, present, req, rep, latest>>
  BY GotoSides DEF WriteState
<1>5. Whole' /\ Absent'
  BY <1>3, <1>4 DEF Whole, Absent, Sides
<1>6. /\ \A i \in 1 .. Len(req[c]) : req[c][i].page_num # idx[c] /\ req[c][i].page_num \in Pages
      /\ spc[q] # "recv" => recv[q].page_num # idx[c] /\ recv[q].page_num \in Pages
  BY <1>1 DEF Order, Wire, Sent
<1>7. Busy(c, q)' /\ Serve(q)'
  BY <1>1, <1>3, <1>4 DEF Busy, Reading, Serve
<1>8. Wire(c, q)'
  BY <1>1, <1>3, <1>4, <1>6 DEF Wire, Sent, Reading
<1>9. MenuTemp(c)' /\ MenuState(c)' /\ ~Owning(c) /\ Owning(c)'
  BY <1>1, <1>2, <1>3, <1>4 DEF MenuTemp, MenuState, Owning, OnPage, OnAddress
<1>10. Order(c, q)' /\ Phase(c, q)'
  BY <1>1, <1>3, <1>4 DEF Order, Phase, Reading
<1>11. \A k \in Pages : /\ KillSent(c, q, k)' <=> KillSent(c, q, k)
                        /\ AskSent(c, q, k)' <=> AskSent(c, q, k)
  BY <1>3, <1>4 DEF KillSent, AskSent, Reading, Killed, Served
<1>k. PICK k \in Pages : k = idx[c]
  BY <1>1
<1>12. /\ \A j \in Pages : ReadPending(c, j)' <=> ReadPending(c, j)
       /\ \A j \in Pages : j # k => (WritePending(c, j)' <=> WritePending(c, j))
       /\ WritePending(c, k)'
  BY <1>1, <1>4, <1>9, <1>11, <1>k, PendingForm, PendingNext
<1>13. ~ReadPending(c, k)
  BY <1>1, <1>6, <1>k, PendingForm DEF AskSent, Served
<1>15. Paired(c, q)'
  BY <1>1, <1>3, <1>12, <1>13, <1>k DEF Paired
<1>16. Abs!Next
  <2>1. \A j \in Pages : j # k => Effective(q, j)' = Effective(q, j)
    BY <1>1, <1>3, <1>12, <1>k, PendingNext, PromisedForm
  <2>2. Effective(q, k)' = "I"
    BY <1>12, PendingNext
  <2> QED
    BY <1>1, <1>3, <1>7, <1>k, <2>1, <2>2, AbsStep, States
<1>17. Holder(c, q)' /\ Owner(c, q)'
  BY <1>1, <1>3, <1>4, <1>9, <1>11, <1>12, <1>k, States DEF Holder, Owner
<1>18. OwnClean(c, q)' /\ PeerClean(c, q)'
  BY <1>1, <1>2, <1>3, <1>4, <1>9, States DEF OwnClean, PeerClean, ToCome
<1> QED
  BY <1>5, <1>7, <1>8, <1>9, <1>10, <1>15, <1>16, <1>17, <1>18 DEF Keeps, Turn
-----------------------------------------------------------------------------
(* What the menu sends.                                                    *)

\* The struct that is sent is temp_data, and it goes behind the others.
LEMMA SendAlone ==
    ASSUME NEW c, NEW q, Sides(c, q), TypeOK, Busy(c, q),
           \E m \in Loadable(c) : req' = [req EXCEPT ![c] = Append(@, m)]
    PROVE  /\ req'[q] = req[q] /\ req'[c] = Append(req[c], temp[c])
           /\ Len(req'[c]) = Len(req[c]) + 1 /\ Len(req[c]) \in Nat
           /\ \A i \in 1 .. Len(req[c]) : req'[c][i] = req[c][i]
           /\ req'[c][Len(req[c]) + 1] = temp[c]
<1>1. req' = [req EXCEPT ![c] = Append(@, temp[c])]
  BY DEF Loadable, Busy
<1>2. req'[q] = req[q] /\ req'[c] = Append(req[c], temp[c])
  BY <1>1 DEF TypeOK, Sides
<1>3. req[c] \in Seq(ProcInfo) /\ temp[c] \in ProcInfo
  BY SideTypes
<1> QED
  BY <1>2, <1>3

\* The request of a read is the only struct under way.
LEMMA ReadSendKeeps ==
    ASSUME NEW c, NEW q, Sides(c, q), TypeOK, Whole, Absent, Turn(c, q), ReadSend(c)
    PROVE  Keeps(c, q) /\ Quiet
<1>1. /\ Busy(c, q) /\ MenuTemp(c) /\ MenuState(c) /\ Order(c, q) /\ Phase(c, q) /\ Wire(c, q)
      /\ Serve(q) /\ Paired(c, q) /\ OwnClean(c, q) /\ PeerClean(c, q) /\ Holder(c, q)
      /\ Owner(c, q) /\ mpc[c] = "r_send" /\ alive[c] /\ alive[q] /\ idx[c] \in Pages
      /\ idx[c] \in Int
  BY SideTypes DEF Turn, ReadSend, At, Busy
<1>2. /\ temp[c].page_num = idx[c] /\ temp[c].access_page = idx[c]
      /\ idx[c] \in temp[c].read_signal /\ Reading(temp[c]) /\ msi[c][idx[c]] = Shared
  BY <1>1 DEF MenuTemp, OnPage, OnAddress, MenuState, Reading
<1>3. /\ mpc'[c] = "r_wait" /\ mpc'[q] = mpc[q]
      /\ UNCHANGED <<alive, spc, recv, temp, idx, all, off, msi, mem, present, rep, latest>>
  BY GotoSides DEF ReadSend
<1>4. /\ req[c] = <<>> /\ Len(req[c]) = 0 /\ spc[q] \in {"recv", "toS"} /\ rep[c] = <<>>
      /\ spc[q] # "recv" => recv[q].page_num < idx[c] /\ recv[q].page_num \in Int
  BY <1>1, PageCountAssumption DEF Phase, Order, Wire, Sent, Pages
<1>5. Len(req'[c]) = 1 /\ req'[c][1] = temp[c] /\ req'[q] = req[q]
  <2>1. /\ req'[q] = req[q] /\ Len(req'[c]) = Len(req[c]) + 1
        /\ req'[c][Len(req[c]) + 1] = temp[c]
    BY <1>1, SendAlone DEF ReadSend
  <2> QED
    BY <1>4, <2>1
<1>6. Whole' /\ Absent'
  BY <1>3 DEF Whole, Absent
<1>7. Busy(c, q)' /\ Serve(q)'
  BY <1>1, <1>3, <1>5 DEF Busy, Reading, Serve
<1>8. Wire(c, q)'
  BY <1>1, <1>2, <1>3, <1>5 DEF Wire, Sent, Reading
<1>9. MenuTemp(c)' /\ MenuState(c)' /\ ~Owning(c) /\ ~Owning(c)'
  BY <1>1, <1>2, <1>3 DEF MenuTemp, MenuState, Owning, OnPage, OnAddress
<1>10. Order(c, q)'
  <2>1. \A i \in 1 .. 1 : i = 1
    OBVIOUS
  <2> QED
    BY <1>1, <1>2, <1>3, <1>4, <1>5, <2>1 DEF Order
<1>11. Phase(c, q)'
  <2>1. Asked(c, q)'
    BY <1>2, <1>3, <1>4, <1>5 DEF Asked, Reading
  <2> QED
    BY <1>3, <2>1 DEF Phase
<1>12. \A k \in Pages : /\ KillSent(c, q, k)' <=> KillSent(c, q, k)
                        /\ AskSent(c, q, k)' <=> AskSent(c, q, k) \/ k = idx[c]
  BY <1>2, <1>3, <1>4, <1>5 DEF KillSent, AskSent, Reading, Killed, Served
<1>13. \A k \in Pages : /\ WritePending(c, k)' <=> WritePending(c, k)
                        /\ ReadPending(c, k)' <=> ReadPending(c, k)
                        /\ Effective(q, k)' = Effective(q, k)
  BY <1>1, <1>3, <1>9, <1>12, PendingForm, PendingNext, PromisedForm
<1>14. Paired(c, q)' /\ Quiet
  BY <1>1, <1>3, <1>7, <1>13, QuietFrom DEF Paired
<1>15. Holder(c, q)' /\ Owner(c, q)'
  BY <1>1, <1>3, <1>9, <1>12, <1>13 DEF Holder, Owner
<1>16. OwnClean(c, q)'
  BY <1>1, <1>3, <1>4, <1>5, <1>9 DEF OwnClean, ToCome
<1>17. PeerClean(c, q)'
  BY <1>1, <1>2, <1>3, <1>5 DEF PeerClean
<1> QED
  BY <1>6, <1>7, <1>8, <1>9, <1>10, <1>11, <1>14, <1>15, <1>16, <1>17 DEF Keeps, Turn

\* The struct of a write goes behind those of the pages before it.
LEMMA WriteSendKeeps ==
    ASSUME NEW c, NEW q, Sides(c, q), TypeOK, Whole, Absent, Turn(c, q), WriteSend(c)
    PROVE  Keeps(c, q) /\ Quiet
<1>1. /\ Busy(c, q) /\ MenuTemp(c) /\ MenuState(c) /\ Order(c, q) /\ Phase(c, q) /\ Wire(c, q)
      /\ Serve(q) /\ Paired(c, q) /\ OwnClean(c, q) /\ PeerClean(c, q) /\ Holder(c, q)
      /\ Owner(c, q) /\ mpc[c] = "w_send" /\ alive[c] /\ alive[q] /\ idx[c] \in Pages
      /\ idx[c] \in Int
  BY SideTypes DEF Turn, WriteSend, At, Busy
<1>2. /\ temp[c].page_num = idx[c] /\ temp[c].access_page = idx[c] /\ Owning(c)
      /\ idx[c] \notin temp[c].read_signal /\ ~Reading(temp[c]) /\ msi[c][idx[c]] = Modified
  BY <1>1 DEF MenuTemp, OnPage, OnAddress, MenuState, Reading, Owning
<1>3. /\ mpc'[q] = mpc[q]
      /\ (mpc'[c] = "w_num" /\ idx'[c] = idx[c] + 1) \/ mpc'[c] = "prompt"
      /\ UNCHANGED <<alive, spc, recv, temp, msi, mem, present, rep, latest>>
  BY NextPageSides DEF WriteSend
<1>4. PICK n \in Nat, k \in Pages : n = Len(req[c]) /\ k = idx[c]
  BY <1>1, SideTypes
<1>5. /\ Len(req'[c]) = n + 1 /\ req'[c][n + 1] = temp[c] /\ req'[q] = req[q]
      /\ \A i \in 1 .. n : req'[c][i] = req[c][i]
  BY <1>1, <1>4, SendAlone DEF WriteSend
<1>6. /\ \A i \in 1 .. n + 1 : i \in 1 .. n \/ i = n + 1
      /\ \A i \in 1 .. n : i \in 1 .. n + 1 /\ i < n + 1
      /\ n + 1 \in 1 .. n + 1
  OBVIOUS
<1>7. Whole' /\ Absent'
  BY <1>3 DEF Whole, Absent
<1>8. Busy(c, q)' /\ Serve(q)'
  BY <1>1, <1>3, <1>5 DEF Busy, Reading, Serve
<1>9. Wire(c, q)'
  <2>1. \A i \in 1 .. n : Sent(c, req[c][i])
    BY <1>1, <1>4 DEF Wire
  <2>2. Sent(c, temp[c])
    BY <1>1, <1>2 DEF Sent
  <2>3. \A i \in 1 .. n + 1 : Sent(c, req'[c][i])
    BY <1>5, <1>6, <2>1, <2>2
  <2>4. \A i \in 1 .. n + 1 : Sent(c, req[c][i])'
    BY <1>3, <2>3 DEF Sent, Reading
  <2>5. spc[q] # "recv" => Sent(c, recv[q])'
    BY <1>1, <1>3 DEF Wire, Sent, Reading
  <2> QED
    BY <1>3, <1>5, <2>4, <2>5 DEF Wire
<1>10. MenuTemp(c)' /\ MenuState(c)' /\ ~Owning(c)'
  BY <1>3 DEF MenuTemp, MenuState, Owning, OnPage, OnAddress
<1>11. Order(c, q)'
  <2>1. /\ \A i \in 1 .. n : req[c][i].page_num < k /\ req[c][i].page_num \in Int
        /\ spc[q] # "recv" => recv[q].page_num < k /\ recv[q].page_num \in Int
    BY <1>1, <1>4, PageCountAssumption DEF Order, Wire, Sent, Pages
  <2>2. \A i \in 1 .. n + 1 : /\ req'[c][i].page_num <= k
                              /\ spc[q] # "recv" => recv[q].page_num < req'[c][i].page_num
    <3> SUFFICES ASSUME NEW i \in 1 .. n + 1
                 PROVE  /\ req'[c][i].page_num <= k
                        /\ spc[q] # "recv" => recv[q].page_num < req'[c][i].page_num
      OBVIOUS
    <3>1. CASE i \in 1 .. n
      BY <1>1, <1>4, <1>5, <2>1, <3>1 DEF Order
    <3>2. CASE i = n + 1
      BY <1>1, <1>2, <1>4, <1>5, <2>1, <3>2
    <3> QED
      BY <1>6, <3>1, <3>2
  <2>3. \A i, j \in 1 .. n + 1 : i < j => req'[c][i].page_num < req'[c][j].page_num
    <3> SUFFICES ASSUME NEW i \in 1 .. n + 1, NEW j \in 1 .. n + 1, i < j
                 PROVE  req'[c][i].page_num < req'[c][j].page_num
      OBVIOUS
    <3>1. i \in 1 .. n
      OBVIOUS
    <3>2. CASE j \in 1 .. n
      BY <1>1, <1>4, <1>5, <3>1, <3>2 DEF Order
    <3>3. CASE j = n + 1
      BY <1>2, <1>4, <1>5, <2>1, <3>1, <3>3
    <3> QED
      BY <1>6, <3>2, <3>3
  <2>4. k \in Int /\ \A i \in 1 .. n + 1 : req'[c][i].page_num \in Int
    BY <1>1, <1>2, <1>4, <1>5, <1>6, <2>1
  <2> QED
    BY <1>3, <1>4, <1>5, <2>1, <2>2, <2>3, <2>4 DEF Order
<1>12. Phase(c, q)'
  BY <1>1, <1>2, <1>3, <1>4, <1>5, <1>6 DEF Phase, Reading
<1>13. \A j \in Pages : KillSent(c, q, j)' <=> KillSent(c, q, j) \/ j = k
  <2> SUFFICES ASSUME NEW j \in Pages PROVE KillSent(c, q, j)' <=> KillSent(c, q, j) \/ j = k
    OBVIOUS
  <2>1. KillSent(c, q, j) => KillSent(c, q, j)'
    BY <1>3, <1>4, <1>5, <1>6 DEF KillSent, Reading, Killed
  <2>2. j = k => KillSent(c, q, j)'
    BY <1>2, <1>4, <1>5, <1>6 DEF KillSent, Reading
  <2>3. KillSent(c, q, j)' => KillSent(c, q, j) \/ j = k
    BY <1>2, <1>3, <1>4, <1>5, <1>6 DEF KillSent, Reading, Killed
  <2> QED
    BY <2>1, <2>2, <2>3
<1>14. \A j \in Pages : AskSent(c, q, j)' <=> AskSent(c, q, j)
  BY <1>2, <1>3, <1>4, <1>5, <1>6 DEF AskSent, Reading, Served
<1>15. \A j \in Pages : /\ WritePending(c, j)' <=> WritePending(c, j)
                        /\ ReadPending(c, j)' <=> ReadPending(c, j)
                        /\ Effective(q, j)' = Effective(q, j)
  BY <1>1, <1>2, <1>3, <1>4, <1>10, <1>13, <1>14, PendingForm, PendingNext, PromisedForm
<1>16. Paired(c, q)' /\ Quiet
  BY <1>1, <1>3, <1>8, <1>15, QuietFrom DEF Paired
<1>17. Text(mem[c][k]) = latest[k]
  BY <1>1, <1>2, <1>4 DEF Owner
<1>18. Holder(c, q)'
  BY <1>1, <1>2, <1>3, <1>4, <1>13, <1>17, States DEF Holder
<1>19. Owner(c, q)'
  BY <1>1, <1>2, <1>3, <1>4, <1>15, <1>17 DEF Owner
<1>20. \A j \in Pages, i \in 0 .. n : ToCome(c, j, i) => ToCome(c, j, i)'
  BY <1>2, <1>4, <1>5, <1>6 DEF ToCome
<1>21. OwnClean(c, q)'
  <2>1. 0 \in 0 .. n /\ \A i \in 1 .. n : i \in 0 .. n
    OBVIOUS
  <2> QED
    BY <1>1, <1>3, <1>4, <1>5, <1>6, <1>20, <2>1 DEF OwnClean
<1>22. PeerClean(c, q)'
  BY <1>1, <1>3, <1>4, <1>5, <1>6 DEF PeerClean
<1> QED
  BY <1>7, <1>8, <1>9, <1>10, <1>11, <1>12, <1>16, <1>18, <1>19, <1>21, <1>22 DEF Keeps, Turn
-----------------------------------------------------------------------------
(* The server of the peer.                                                 *)

\* A step of the server of q that stores nothing in list_MSI.  If it is done
\* with a write, the page is invalid on q already.
LEMMA ServerMove ==
    ASSUME NEW c, NEW q, Sides(c, q), Whole, Absent, Turn(c, q),
           UNCHANGED <<alive, mpc, idx, all, off, msi, mem, present, latest>>,
           alive[c] /\ alive[q], temp'[c] = temp[c], req'[q] = req[q], rep'[q] = rep[q],
           spc'[c] = spc[c],
           Wire(c, q)', Order(c, q)', Phase(c, q)', Serve(q)',
           OwnClean(c, q)', PeerClean(c, q)',
           \A k \in Pages : KillSent(c, q, k)' => KillSent(c, q, k),
           \A k \in Pages : KillSent(c, q, k) => KillSent(c, q, k)' \/ msi[q][k] = Invalid,
           \A k \in Pages : AskSent(c, q, k)' <=> AskSent(c, q, k)
    PROVE  Keeps(c, q) /\ Quiet
<1>1. /\ Busy(c, q) /\ MenuTemp(c) /\ MenuState(c) /\ Paired(c, q) /\ Holder(c, q)
      /\ Owner(c, q)
  BY DEF Turn
<1>2. Whole' /\ Absent'
  BY DEF Whole, Absent
<1>3. Busy(c, q)'
  BY <1>1 DEF Busy
<1>4. Owning(c)' <=> Owning(c)
  BY DEF Owning
<1>5. MenuTemp(c)' /\ MenuState(c)'
  BY <1>1, <1>4 DEF MenuTemp, MenuState, OnPage, OnAddress
<1>6. \A k \in Pages : /\ WritePending(c, k)' => WritePending(c, k)
                       /\ WritePending(c, k) => WritePending(c, k)' \/ msi[q][k] = Invalid
                       /\ ReadPending(c, k)' <=> ReadPending(c, k)
  BY <1>4, PendingForm, PendingNext
<1>7. \A k \in Pages : /\ WritePending(c, k) => msi[c][k] = Modified
                       /\ ReadPending(c, k) => msi[c][k] = Shared
  BY PendingState
<1>8. Paired(c, q)'
  BY <1>1, <1>6, <1>7 DEF Paired, Settled
<1>9. \A k \in Pages : Effective(q, k)' = Effective(q, k)
  BY <1>1, <1>6, <1>7, PendingNext, PromisedForm, States
<1>10. Quiet
  BY <1>1, <1>3, <1>9, QuietFrom
<1>11. Holder(c, q)' /\ Owner(c, q)'
  BY <1>1, <1>4, <1>6, States DEF Holder, Owner
<1> QED
  BY <1>2, <1>3, <1>5, <1>8, <1>10, <1>11 DEF Keeps, Turn

\* The peer takes over the struct, and the read signals in it.
LEMMA CopyInKeeps ==
    ASSUME NEW c, NEW q, Sides(c, q), TypeOK, Whole, Absent, Turn(c, q), CopyIn(q)
    PROVE  Keeps(c, q) /\ Quiet
<1>1. /\ Busy(c, q) /\ Order(c, q) /\ Phase(c, q) /\ Wire(c, q) /\ Serve(q)
      /\ OwnClean(c, q) /\ PeerClean(c, q) /\ spc[q] = "copy" /\ alive[c] /\ alive[q]
  BY DEF Turn, CopyIn, ServerAt, Busy, Sides
<1>2. /\ temp'[q] = recv[q] /\ temp'[c] = temp[c] /\ spc'[q] = "react" /\ spc'[c] = spc[c]
      /\ UNCHANGED <<alive, mpc, idx, all, off, recv, msi, mem, present, latest, req, rep>>
  BY DEF CopyIn, TypeOK, Sides
<1>3. Wire(c, q)' /\ Serve(q)'
  BY <1>1, <1>2 DEF Wire, Sent, Reading, Serve
<1>4. Order(c, q)'
  BY <1>1, <1>2 DEF Order
<1>5. Phase(c, q)'
  BY <1>1, <1>2 DEF Phase, Asked, AtPeer, Answered, Reading
<1>6. OwnClean(c, q)'
  <2>1. \A k, i : ToCome(c, k, i)' <=> ToCome(c, k, i)
    BY <1>2 DEF ToCome, Owning
  <2> QED
    BY <1>1, <1>2, <2>1 DEF OwnClean
<1>7. PeerClean(c, q)'
  BY <1>1, <1>2 DEF PeerClean
<1>8. \A k \in Pages : /\ KillSent(c, q, k)' <=> KillSent(c, q, k)
                       /\ AskSent(c, q, k)' <=> AskSent(c, q, k)
  BY <1>1, <1>2 DEF KillSent, AskSent, Reading, Killed, Served
<1> QED
  BY <1>1, <1>2, <1>3, <1>4, <1>5, <1>6, <1>7, <1>8, ServerMove

\* The struct that was first on the connection is the one being served.
LEMMA ReceiveKeeps ==
    ASSUME NEW c, NEW q, Sides(c, q), TypeOK, Whole, Absent, Turn(c, q), Receive(q)
    PROVE  Keeps(c, q) /\ Quiet
<1>1. /\ Busy(c, q) /\ Order(c, q) /\ Phase(c, q) /\ Wire(c, q) /\ Serve(q)
      /\ OwnClean(c, q) /\ PeerClean(c, q) /\ spc[q] = "recv" /\ req[c] # <<>>
      /\ alive[c] /\ alive[q] /\ req[c] \in Seq(ProcInfo)
  BY SideTypes DEF Turn, Receive, ServerAt, Busy, Sides
<1>2. PICK n \in Nat : n + 1 = Len(req[c])
  <2>1. Len(req[c]) \in Nat /\ Len(req[c]) # 0
    BY <1>1
  <2>2. Len(req[c]) - 1 \in Nat /\ (Len(req[c]) - 1) + 1 = Len(req[c])
    BY <2>1
  <2> QED
    BY <2>2
<1>3. /\ recv'[q] = req[c][1] /\ spc'[q] = "copy" /\ spc'[c] = spc[c] /\ req'[q] = req[q]
      /\ Len(req'[c]) = n
      /\ \A i \in 1 .. n : req'[c][i] = req[c][i + 1]
      /\ UNCHANGED <<alive, mpc, idx, all, off, msi, mem, present, latest, temp, rep>>
  <2>1. /\ recv'[q] = Head(req[c]) /\ spc'[q] = "copy" /\ spc'[c] = spc[c]
        /\ req'[q] = req[q] /\ req'[c] = Tail(req[c])
        /\ UNCHANGED <<alive, mpc, idx, all, off, msi, mem, present, latest, temp, rep>>
    BY DEF Receive, TypeOK, Sides
  <2>2. /\ Head(req[c]) = req[c][1] /\ Len(Tail(req[c])) = n
        /\ \A i \in 1 .. n : Tail(req[c])[i] = req[c][i + 1]
    BY <1>1, <1>2
  <2> QED
    BY <2>1, <2>2
<1>4. /\ 1 \in 1 .. n + 1
      /\ \A i \in 1 .. n : i + 1 \in 1 .. n + 1 /\ 1 < i + 1
      /\ \A i \in 1 .. n + 1 : i = 1 \/ (i - 1 \in 1 .. n /\ i = (i - 1) + 1)
      /\ \A i, j \in 1 .. n : i < j => i + 1 < j + 1
  OBVIOUS
<1>5. Wire(c, q)' /\ Serve(q)'
  <2>1. \A i \in 1 .. n + 1 : Sent(c, req[c][i])
    BY <1>1, <1>2 DEF Wire
  <2>2. \A i \in 1 .. n : Sent(c, req'[c][i])
    BY <1>3, <1>4, <2>1
  <2>3. Sent(c, recv'[q])
    BY <1>3, <1>4, <2>1
  <2>4. /\ \A i \in 1 .. n : Sent(c, req[c][i])'
        /\ Sent(c, recv[q])'
    BY <1>3, <2>2, <2>3 DEF Sent, Reading
  <2> QED
    BY <1>3, <2>4 DEF Wire, Serve
<1>6. Order(c, q)'
  <2>1. \A i, j \in 1 .. n + 1 : i < j => req[c][i].page_num < req[c][j].page_num
    BY <1>1, <1>2 DEF Order
  <2>2. \A i, j \in 1 .. n : i < j => req'[c][i].page_num < req'[c][j].page_num
    <3> SUFFICES ASSUME NEW i \in 1 .. n, NEW j \in 1 .. n, i < j
                 PROVE  req'[c][i].page_num < req'[c][j].page_num
      OBVIOUS
    <3>1. i + 1 \in 1 .. n + 1 /\ j + 1 \in 1 .. n + 1 /\ i + 1 < j + 1
      BY <1>4
    <3>2. req[c][i + 1].page_num < req[c][j + 1].page_num
      BY <2>1, <3>1
    <3> QED
      BY <1>3, <3>2
  <2>3. \A i \in 1 .. n : recv'[q].page_num < req'[c][i].page_num
    <3> SUFFICES ASSUME NEW i \in 1 .. n PROVE recv'[q].page_num < req'[c][i].page_num
      OBVIOUS
    <3>1. i + 1 \in 1 .. n + 1 /\ 1 \in 1 .. n + 1 /\ 1 < i + 1
      BY <1>4
    <3>2. req[c][1].page_num < req[c][i + 1].page_num
      BY <2>1, <3>1
    <3> QED
      BY <1>3, <3>2
  <2>4. mpc[c] \notin {"prompt", "r_wait"} =>
           \A i \in 1 .. n + 1 : req[c][i].page_num < idx[c]
    BY <1>1, <1>2 DEF Order
  <2>5. mpc[c] \notin {"prompt", "r_wait"} =>
           /\ \A i \in 1 .. n : req'[c][i].page_num < idx[c]
           /\ recv'[q].page_num < idx[c]
    BY <1>3, <1>4, <2>4
  <2>6. mpc[c] = "r_wait" => recv'[q].page_num <= idx[c]
    <3>1. mpc[c] = "r_wait" => req[c][1].page_num = idx[c]
      BY <1>1 DEF Phase, Asked, AtPeer, Answered
    <3>2. idx[c] \in Int /\ idx[c] <= idx[c]
      BY SideTypes
    <3> QED
      BY <1>3, <3>1, <3>2
  <2> QED
    BY <1>3, <2>2, <2>3, <2>5, <2>6 DEF Order
<1>7. Phase(c, q)'
  <2>1. CASE mpc[c] = "r_wait"
    <3>1. Asked(c, q)
      BY <1>1, <2>1 DEF Phase, AtPeer, Answered
    <3>2. n = 0
      BY <1>2, <3>1 DEF Asked
    <3>3. req'[c] = <<>>
      <4>1. req'[c] \in Seq(ProcInfo)
        BY <1>1 DEF Receive, TypeOK, Sides
      <4> QED
        BY <1>3, <3>2, <4>1
    <3>4. AtPeer(c, q)'
      BY <1>3, <3>1, <3>3 DEF Asked, AtPeer, Reading
    <3> QED
      BY <1>3, <2>1, <3>4 DEF Phase
  <2>2. CASE mpc[c] # "r_wait"
    <3>1. \A i \in 1 .. n + 1 : ~Reading(req[c][i])
      BY <1>1, <1>2, <2>2 DEF Phase
    <3>2. mpc[c] \notin {"r_off", "r_page", "r_check", "r_memset", "r_flags", "r_state", "r_send",
                         "r_local"}
      BY <1>1 DEF Phase
    <3>3. (\A i \in 1 .. n : ~Reading(req'[c][i])) /\ ~Reading(recv'[q])
      BY <1>3, <1>4, <3>1
    <3>4. (\A i \in 1 .. n : ~Reading(req[c][i])') /\ ~Reading(recv[q])'
      BY <3>3 DEF Reading
    <3>5. rep'[c] = <<>>
      BY <1>1, <1>3, <2>2 DEF Phase
    <3> QED
      BY <1>3, <2>2, <3>2, <3>4, <3>5 DEF Phase
  <2> QED
    BY <2>1, <2>2
<1>8. \A k \in Pages : /\ KillSent(c, q, k)' <=> KillSent(c, q, k)
                       /\ AskSent(c, q, k)' <=> AskSent(c, q, k)
  <2> SUFFICES ASSUME NEW k \in Pages
               PROVE  /\ KillSent(c, q, k)' <=> KillSent(c, q, k)
                      /\ AskSent(c, q, k)' <=> AskSent(c, q, k)
    OBVIOUS
  <2> DEFINE Kills(r) == r.page_num = k /\ k \notin r.read_signal
             Asks(r) == r.page_num = k /\ k \in r.read_signal
  <2>1. /\ KillSent(c, q, k) <=> \E i \in 1 .. n + 1 : Kills(req[c][i])
        /\ AskSent(c, q, k) <=> \E i \in 1 .. n + 1 : Asks(req[c][i])
    BY <1>1, <1>2 DEF KillSent, AskSent, Reading
  <2>2. /\ KillSent(c, q, k)' <=> (\E i \in 1 .. n : Kills(req'[c][i])) \/ Kills(recv'[q])
        /\ AskSent(c, q, k)' <=> (\E i \in 1 .. n : Asks(req'[c][i])) \/ Asks(recv'[q])
    BY <1>3 DEF KillSent, AskSent, Reading, Killed, Served
  <2> HIDE DEF Kills, Asks
  <2>3. \A i \in 1 .. n + 1 : i = 1 \/ \E j \in 1 .. n : i = j + 1
    BY <1>4
  <2>4. \A i \in 1 .. n + 1 : req[c][i] = recv'[q] \/ \E j \in 1 .. n : req[c][i] = req'[c][j]
    BY <1>3, <2>3
  <2>5. /\ \A j \in 1 .. n : \E i \in 1 .. n + 1 : req'[c][j] = req[c][i]
        /\ \E i \in 1 .. n + 1 : recv'[q] = req[c][i]
    BY <1>3, <1>4
  <2>6. (\E i \in 1 .. n + 1 : Kills(req[c][i])) <=>
           (\E i \in 1 .. n : Kills(req'[c][i])) \/ Kills(recv'[q])
    BY <2>4, <2>5, Zenon
  <2>7. (\E i \in 1 .. n + 1 : Asks(req[c][i])) <=>
           (\E i \in 1 .. n : Asks(req'[c][i])) \/ Asks(recv'[q])
    BY <2>4, <2>5, Zenon
  <2> QED
    BY <2>1, <2>2, <2>6, <2>7
<1>9. OwnClean(c, q)'
  <2> SUFFICES ASSUME NEW k \in Pages, msi[c][k] = Modified
               PROVE  /\ k \notin temp[c].read_signal
                      /\ \A i \in 1 .. n : k \in req'[c][i].read_signal => ToCome(c, k, i)'
                      /\ k \in recv'[q].read_signal => ToCome(c, k, 0)'
                      /\ k \in temp[q].read_signal => ToCome(c, k, 0)' \/ recv'[q].page_num = k
    BY <1>3 DEF OwnClean
  <2>1. \A i \in 0 .. n : ToCome(c, k, i + 1) => ToCome(c, k, i)'
    <3> SUFFICES ASSUME NEW i \in 0 .. n, ToCome(c, k, i + 1) PROVE ToCome(c, k, i)'
      OBVIOUS
    <3>1. CASE Owning(c) /\ idx[c] = k
      BY <1>3, <3>1 DEF ToCome, Owning
    <3>2. CASE \E j \in 1 .. Len(req[c]) : i + 1 < j /\ req[c][j].page_num = k
      <4>1. PICK j \in 1 .. n + 1 : i + 1 < j /\ req[c][j].page_num = k
        BY <1>2, <3>2
      <4>2. j - 1 \in 1 .. n /\ i < j - 1 /\ (j - 1) + 1 = j
        BY <4>1
      <4>3. req'[c][j - 1].page_num = k
        BY <1>3, <4>1, <4>2
      <4> QED
        BY <1>3, <4>2, <4>3 DEF ToCome
    <3> QED
      BY <3>1, <3>2 DEF ToCome
  <2>2. ToCome(c, k, 0) => ToCome(c, k, 1) \/ req[c][1].page_num = k
    <3>1. \A j \in 1 .. n + 1 : j = 1 \/ 1 < j
      OBVIOUS
    <3> QED
      BY <1>2, <3>1 DEF ToCome
  <2>3. \A i \in 1 .. n + 1 : k \in req[c][i].read_signal => ToCome(c, k, i)
    BY <1>1, <1>2 DEF OwnClean
  <2>4. /\ k \notin temp[c].read_signal
        /\ k \in temp[q].read_signal => ToCome(c, k, 0)
    BY <1>1 DEF OwnClean
  <2>5. /\ 0 \in 0 .. n /\ 0 + 1 = 1
        /\ \A i \in 1 .. n : i \in 0 .. n
    OBVIOUS
  <2>6. ToCome(c, k, 1) => ToCome(c, k, 0)'
    BY <2>1, <2>5
  <2>7. \A i \in 1 .. n : k \in req'[c][i].read_signal => ToCome(c, k, i)'
    <3> SUFFICES ASSUME NEW i \in 1 .. n, k \in req'[c][i].read_signal
                 PROVE  ToCome(c, k, i)'
      OBVIOUS
    <3>1. i + 1 \in 1 .. n + 1 /\ req'[c][i] = req[c][i + 1]
      BY <1>3, <1>4
    <3>2. ToCome(c, k, i + 1)
      BY <2>3, <3>1
    <3> QED
      BY <2>1, <2>5, <3>2
  <2>8. k \in recv'[q].read_signal => ToCome(c, k, 1)
    BY <1>3, <1>4, <2>3
  <2> QED
    BY <1>3, <2>2, <2>4, <2>6, <2>7, <2>8
<1>10. PeerClean(c, q)'
  <2> SUFFICES ASSUME NEW k \in Pages, msi[q][k] = Modified
               PROVE  /\ k \in temp[c].read_signal =>
                            mpc[c] \in {"r_state", "r_send", "r_wait"} /\ idx[c] = k
                      /\ \A i \in 1 .. n : k \in req'[c][i].read_signal => req'[c][i].page_num = k
                      /\ k \in recv'[q].read_signal => recv'[q].page_num = k
                      /\ k \notin temp[q].read_signal
    BY <1>3 DEF PeerClean
  <2>1. /\ \A i \in 1 .. n + 1 : k \in req[c][i].read_signal => req[c][i].page_num = k
        /\ k \notin temp[q].read_signal
        /\ k \in temp[c].read_signal =>
              mpc[c] \in {"r_state", "r_send", "r_wait"} /\ idx[c] = k
    BY <1>1, <1>2 DEF PeerClean
  <2> QED
    BY <1>3, <1>4, <2>1
<1> QED
  BY <1>1, <1>3, <1>5, <1>6, <1>7, <1>8, <1>9, <1>10, ServerMove

\* The four-way reaction: a read finds the peer's copy modified or invalid,
\* never shared, and an invalid one means that nobody has written the page.
LEMMA ReactKeeps ==
    ASSUME NEW c, NEW q, Sides(c, q), TypeOK, Whole, Absent, Turn(c, q), React(q)
    PROVE  Keeps(c, q) /\ Quiet
<1>1. /\ Busy(c, q) /\ Order(c, q) /\ Phase(c, q) /\ Wire(c, q) /\ Serve(q) /\ MenuState(c)
      /\ OwnClean(c, q) /\ PeerClean(c, q) /\ Paired(c, q) /\ Holder(c, q)
      /\ spc[q] = "react" /\ alive[c] /\ alive[q]
  BY DEF Turn, React, ServerAt, Busy, Sides
<1>2. PICK k : k = recv[q].page_num
  OBVIOUS
<1>3. /\ spc'[q] = Reaction(msi[q][k], msi[q][k], recv[q]) /\ spc'[c] = spc[c]
      /\ UNCHANGED <<alive, mpc, idx, all, off, recv, temp, msi, mem, present, latest, req, rep>>
  <2>1. mpc[q] = "prompt" /\ ServerSees(q, k) = {msi[q][k]}
    BY <1>1 DEF Busy, ServerSees
  <2> QED
    BY <1>2, <2>1 DEF React, TypeOK, Sides
<1>4. /\ k \in Pages /\ recv[q].access_page = k /\ temp[q] = recv[q]
      /\ msi[c][k] = IF Reading(recv[q]) THEN Shared ELSE Modified
      /\ Reading(recv[q]) <=> k \in recv[q].read_signal
  BY <1>1, <1>2 DEF Wire, Sent, Serve, Reading
<1>5. msi[q][k] \in {Modified, Shared, Invalid}
  BY <1>4 DEF Whole, Sides
<1>6. /\ Reading(recv[q]) <=> mpc[c] = "r_wait"
      /\ mpc[c] = "r_wait" => AtPeer(c, q)
  BY <1>1 DEF Phase, Asked, AtPeer, Answered
<1>7. CASE Reading(recv[q])
  <2>1. AtPeer(c, q) /\ mpc[c] = "r_wait" /\ idx[c] = k /\ mem[c][k] = Zeroed
    BY <1>1, <1>2, <1>6, <1>7 DEF AtPeer, MenuState
  <2>2. AskSent(c, q, k)
    BY <1>1, <1>2, <1>4, <1>7 DEF AskSent, Served
  <2>3. msi[q][k] # Shared
    BY <1>1, <1>4, <2>2, PendingForm DEF Paired
  <2>4. \/ spc'[q] = "flush" /\ msi[q][k] = Modified
        \/ spc'[q] = "toS_none" /\ msi[q][k] = Invalid
    BY <1>2, <1>3, <1>4, <1>5, <1>7, <2>3, States DEF Reaction
  <2>5. msi[q][k] = Invalid => latest[k] = <<>>
    BY <1>1, <1>4, <2>1, ZeroText DEF Holder
  <2>6. Serve(q)'
    BY <1>2, <1>3, <1>4, <1>7, <2>4, <2>5 DEF Serve, Reading
  <2>7. Wire(c, q)' /\ Order(c, q)'
    BY <1>1, <1>3, <2>4 DEF Wire, Order, Sent, Reading
  <2>8. Phase(c, q)'
    BY <1>3, <2>1, <2>4 DEF Phase, AtPeer, Reading
  <2>9. OwnClean(c, q)'
    <3>1. \A j, i : ToCome(c, j, i)' <=> ToCome(c, j, i)
      BY <1>3 DEF ToCome, Owning
    <3> QED
      BY <1>1, <1>3, <2>4, <3>1 DEF OwnClean
  <2>10. PeerClean(c, q)'
    BY <1>1, <1>2, <1>3, <2>4, States DEF PeerClean
  <2>11. \A j \in Pages : /\ KillSent(c, q, j)' <=> KillSent(c, q, j)
                          /\ AskSent(c, q, j)' <=> AskSent(c, q, j)
    BY <1>1, <1>3, <2>4 DEF KillSent, AskSent, Reading, Killed, Served
  <2> QED
    BY <1>1, <1>3, <2>6, <2>7, <2>8, <2>9, <2>10, <2>11, ServerMove
<1>8. CASE ~Reading(recv[q])
  <2>1. mpc[c] # "r_wait"
    BY <1>6, <1>8
  <2>2. \/ spc'[q] = "toI" /\ msi[q][k] # Invalid
        \/ spc'[q] = "recv" /\ msi[q][k] = Invalid
    BY <1>2, <1>3, <1>4, <1>5, <1>8, States DEF Reaction
  <2>3. Serve(q)'
    BY <1>2, <1>3, <1>4, <1>8, <2>2 DEF Serve, Reading
  <2>4. Wire(c, q)' /\ Order(c, q)'
    BY <1>1, <1>3, <2>1, <2>2 DEF Wire, Order, Sent, Reading
  <2>5. Phase(c, q)'
    BY <1>1, <1>3, <2>1, <2>2 DEF Phase, Reading
  <2>6. OwnClean(c, q)'
    <3>1. \A j, i : ToCome(c, j, i)' <=> ToCome(c, j, i)
      BY <1>3 DEF ToCome, Owning
    <3> QED
      BY <1>1, <1>3, <2>2, <3>1 DEF OwnClean
  <2>7. PeerClean(c, q)'
    BY <1>1, <1>2, <1>3, <1>4, <1>8, <2>2 DEF PeerClean
  <2>8. \A j \in Pages : /\ KillSent(c, q, j)' => KillSent(c, q, j)
                         /\ KillSent(c, q, j) => KillSent(c, q, j)' \/ msi[q][j] = Invalid
    BY <1>1, <1>2, <1>3, <2>2 DEF KillSent, Reading, Killed
  <2>9. \A j \in Pages : AskSent(c, q, j)' <=> AskSent(c, q, j)
    BY <1>1, <1>2, <1>3, <1>4, <1>8, <2>2 DEF AskSent, Reading, Served
  <2> QED
    BY <1>1, <1>3, <2>3, <2>4, <2>5, <2>6, <2>7, <2>8, <2>9, ServerMove
<1> QED
  BY <1>7, <1>8

\* The text that is sent is that of the last write.
LEMMA FlushKeeps ==
    ASSUME NEW c, NEW q, Sides(c, q), TypeOK, Whole, Absent, Turn(c, q), Flush(q)
    PROVE  Keeps(c, q) /\ Quiet
<1>1. /\ Busy(c, q) /\ Order(c, q) /\ Phase(c, q) /\ Wire(c, q) /\ Serve(q) /\ MenuState(c)
      /\ OwnClean(c, q) /\ PeerClean(c, q) /\ Owner(c, q)
      /\ spc[q] = "flush" /\ alive[c] /\ alive[q]
  BY DEF Turn, Flush, ServerAt, Busy, Sides
<1>2. PICK k : k = recv[q].page_num
  OBVIOUS
<1>3. /\ k \in Pages /\ recv[q].access_page = k /\ temp[q] = recv[q] /\ Reading(recv[q])
      /\ msi[q][k] = Modified /\ msi[c][k] = Shared
  BY <1>1, <1>2 DEF Wire, Sent, Serve
<1>4. mpc[c] = "r_wait" /\ AtPeer(c, q) /\ idx[c] = k
  BY <1>1, <1>2 DEF Phase, Asked, AtPeer, Answered
<1>5. rep[c] = <<>> /\ req[c] = <<>> /\ Len(req[c]) = 0
  BY <1>4 DEF AtPeer
<1>6. Text(mem[q][k]) = latest[k]
  <2>1. ~WritePending(c, k)
    BY <1>3, PendingState, States
  <2> QED
    BY <1>1, <1>3, <2>1 DEF Owner
<1>7. mem[q][k] \in Buf /\ Text(mem[q][k]) \in Seq(Bytes) /\ Len(Text(mem[q][k])) <= PageLen
  <2>1. mem[q][k] \in Buf
    BY <1>3 DEF TypeOK, Sides
  <2> QED
    BY <2>1, TextType, PageLenAssumption
<1>8. /\ rep'[c] = latest[k] /\ rep'[q] = rep[q] /\ spc'[q] = "toS" /\ spc'[c] = spc[c]
      /\ UNCHANGED <<alive, mpc, idx, all, off, recv, temp, msi, mem, present, latest, req>>
  <2>1. /\ rep' = [rep EXCEPT ![c] = @ \o Text(mem[q][k])]
        /\ spc' = [spc EXCEPT ![q] = "toS"]
        /\ UNCHANGED <<alive, mpc, idx, all, off, recv, temp, msi, mem, present, latest, req>>
    BY <1>3 DEF Flush, Sides
  <2>2. rep'[c] = rep[c] \o Text(mem[q][k]) /\ rep'[q] = rep[q]
    BY <2>1 DEF TypeOK, Sides
  <2>3. rep[c] \o Text(mem[q][k]) = Text(mem[q][k])
    BY <1>5, <1>7
  <2> QED
    BY <1>6, <2>1, <2>2, <2>3 DEF TypeOK, Sides
<1>9. Serve(q)'
  BY <1>2, <1>3, <1>8 DEF Serve, Reading
<1>10. Wire(c, q)' /\ Order(c, q)'
  BY <1>1, <1>8 DEF Wire, Order, Sent, Reading
<1>11. Phase(c, q)'
  <2>1. latest[k] \in {<<>>, Answer(k)} /\ Len(latest[k]) <= PageLen
    BY <1>6, <1>7 DEF Answer
  <2>2. Answered(c, q)'
    BY <1>4, <1>5, <1>8, <2>1 DEF Answered, Answer
  <2> QED
    BY <1>4, <1>8, <2>2 DEF Phase
<1>12. OwnClean(c, q)'
  <2>1. \A j, i : ToCome(c, j, i)' <=> ToCome(c, j, i)
    BY <1>8 DEF ToCome, Owning
  <2> QED
    BY <1>1, <1>8, <2>1 DEF OwnClean
<1>13. PeerClean(c, q)'
  BY <1>1, <1>8 DEF PeerClean
<1>14. \A j \in Pages : /\ KillSent(c, q, j)' <=> KillSent(c, q, j)
                        /\ AskSent(c, q, j)' <=> AskSent(c, q, j)
  BY <1>1, <1>8 DEF KillSent, AskSent, Reading, Killed, Served
<1> QED
  BY <1>1, <1>8, <1>9, <1>10, <1>11, <1>12, <1>13, <1>14, ServerMove

\* The single space goes out only when nobody has written the page.
LEMMA NoDataKeeps ==
    ASSUME NEW c, NEW q, Sides(c, q), TypeOK, Whole, Absent, Turn(c, q), NoData(q)
    PROVE  Keeps(c, q) /\ Quiet
<1>1. /\ Busy(c, q) /\ Order(c, q) /\ Phase(c, q) /\ Wire(c, q) /\ Serve(q)
      /\ OwnClean(c, q) /\ PeerClean(c, q)
      /\ spc[q] = "no_data" /\ alive[c] /\ alive[q]
  BY DEF Turn, NoData, ServerAt, Busy, Sides
<1>2. PICK k : k = recv[q].page_num
  OBVIOUS
<1>3. k \in Pages /\ Reading(recv[q]) /\ msi[q][k] = Shared /\ latest[k] = <<>>
  BY <1>1, <1>2 DEF Wire, Sent, Serve
<1>4. mpc[c] = "r_wait" /\ AtPeer(c, q) /\ idx[c] = k
  BY <1>1, <1>2 DEF Phase, Asked, AtPeer, Answered
<1>5. rep[c] = <<>> /\ req[c] = <<>> /\ Len(req[c]) = 0
  BY <1>4 DEF AtPeer
<1>6. /\ rep'[c] = <<SPACE>> /\ rep'[q] = rep[q] /\ spc'[q] = "recv" /\ spc'[c] = spc[c]
      /\ UNCHANGED <<alive, mpc, idx, all, off, recv, temp, msi, mem, present, latest, req>>
  <2>1. /\ rep' = [rep EXCEPT ![c] = Append(@, SPACE)]
        /\ spc' = [spc EXCEPT ![q] = "recv"]
        /\ UNCHANGED <<alive, mpc, idx, all, off, recv, temp, msi, mem, present, latest, req>>
    BY DEF NoData, Sides
  <2>2. rep'[c] = Append(rep[c], SPACE) /\ rep'[q] = rep[q]
    BY <2>1 DEF TypeOK, Sides
  <2>3. Append(<<>>, SPACE) = <<SPACE>>
    OBVIOUS
  <2> QED
    BY <1>5, <2>1, <2>2, <2>3 DEF TypeOK, Sides
<1>7. Serve(q)' /\ Wire(c, q)' /\ Order(c, q)'
  BY <1>1, <1>4, <1>5, <1>6 DEF Serve, Wire, Order, Sent, Reading
<1>8. Phase(c, q)'
  <2>1. Len(<<SPACE>>) <= PageLen
    BY PageLenAssumption
  <2>2. Answered(c, q)'
    BY <1>3, <1>4, <1>5, <1>6, <2>1 DEF Answered, Answer
  <2> QED
    BY <1>4, <1>6, <2>2 DEF Phase
<1>9. OwnClean(c, q)'
  <2>1. \A j, i : ToCome(c, j, i)' <=> ToCome(c, j, i)
    BY <1>6 DEF ToCome, Owning
  <2> QED
    BY <1>1, <1>6, <2>1 DEF OwnClean
<1>10. PeerClean(c, q)'
  BY <1>1, <1>6 DEF PeerClean
<1>11. \A j \in Pages : /\ KillSent(c, q, j)' <=> KillSent(c, q, j)
                        /\ AskSent(c, q, j)' <=> AskSent(c, q, j)
  BY <1>1, <1>2, <1>3, <1>6 DEF KillSent, AskSent, Reading, Killed, Served
<1> QED
  BY <1>1, <1>6, <1>7, <1>8, <1>9, <1>10, <1>11, ServerMove

\* The server stores what its peer has been counting on since it sent the
\* struct: the page is no longer pending, and its state is the promised one.
LEMMA ServerStoreKeeps ==
    ASSUME NEW c, NEW q, Sides(c, q), TypeOK, Whole, Absent, Turn(c, q), ServerStore(q)
    PROVE  Keeps(c, q) /\ Quiet
<1>1. /\ Busy(c, q) /\ Order(c, q) /\ Phase(c, q) /\ Wire(c, q) /\ Serve(q)
      /\ MenuTemp(c) /\ MenuState(c) /\ Paired(c, q) /\ Holder(c, q) /\ Owner(c, q)
      /\ OwnClean(c, q) /\ PeerClean(c, q) /\ spc[q] \in {"toS", "toS_none", "toI"}
      /\ alive[c] /\ alive[q]
  BY DEF Turn, ServerStore, ServerStores, Busy, Sides
<1>2. PICK k : k = recv[q].page_num
  OBVIOUS
<1>3. /\ k \in Pages /\ temp[q] = recv[q]
      /\ msi[c][k] = IF Reading(recv[q]) THEN Shared ELSE Modified
      /\ Reading(recv[q]) <=> k \in recv[q].read_signal
  BY <1>1, <1>2 DEF Wire, Sent, Serve, Reading
<1>4. /\ msi'[c] = msi[c] /\ msi'[q][k] = ServerState(spc[q])
      /\ \A j \in Pages : j # k => msi'[q][j] = msi[q][j]
      /\ spc'[q] = AfterStore(spc[q]) /\ spc'[c] = spc[c]
      /\ UNCHANGED <<alive, mpc, idx, all, off, recv, temp, mem, present, latest, req, rep>>
  BY <1>2, <1>3 DEF ServerStore, TypeOK, Sides
<1>5. ServerState(spc[q]) \in {Modified, Shared, Invalid}
  BY DEF ServerState
<1>6. Whole' /\ Absent'
  BY <1>3, <1>4, <1>5 DEF Whole, Absent, Sides
<1>7. Owning(c)' <=> Owning(c)
  BY <1>4 DEF Owning
<1>8. Busy(c, q)' /\ MenuTemp(c)' /\ MenuState(c)'
  BY <1>1, <1>4, <1>7 DEF Busy, MenuTemp, MenuState, OnPage, OnAddress
<1>9. spc'[q] \in {"recv", "no_data"}
  BY <1>4 DEF AfterStore
<1>10. Wire(c, q)' /\ Order(c, q)'
  BY <1>1, <1>4, <1>9 DEF Wire, Order, Sent, Reading
<1>11. OwnClean(c, q)'
  <2>1. \A j, i : ToCome(c, j, i)' <=> ToCome(c, j, i)
    BY <1>4, <1>7 DEF ToCome
  <2> QED
    BY <1>1, <1>4, <1>9, <2>1 DEF OwnClean
<1>12. PeerClean(c, q)'
  <2>1. \A j \in Pages : msi'[q][j] = Modified => j # k /\ msi[q][j] = Modified
    BY <1>4, States DEF ServerState
  <2> QED
    BY <1>1, <1>2, <1>4, <1>9, <2>1 DEF PeerClean
\* No other struct under way is about page k, and the menu is past it.
<1>13. /\ \A i \in 1 .. Len(req[c]) : req[c][i].page_num # k
       /\ mpc[c] \notin {"prompt", "r_wait"} => idx[c] # k
  <2>1. k \in Int /\ \A m \in Int : k < m => m # k
    BY <1>3, PageCountAssumption DEF Pages
  <2>2. \A i \in 1 .. Len(req[c]) : req[c][i].page_num \in Int
    BY <1>1, PageCountAssumption DEF Wire, Sent, Pages
  <2>3. idx[c] \in Int
    BY SideTypes
  <2> QED
    BY <1>1, <1>2, <2>1, <2>2, <2>3 DEF Order
<1>14. /\ ~WritePending(c, k)' /\ ~ReadPending(c, k)'
       /\ WritePending(c, k) <=> ~Reading(recv[q])
       /\ ReadPending(c, k) <=> Reading(recv[q])
  <2>1. ~KillSent(c, q, k)' /\ ~AskSent(c, q, k)'
    <3>1. spc'[q] = "no_data" => Reading(recv[q])
      BY <1>1, <1>4 DEF AfterStore, Serve
    <3> QED
      BY <1>3, <1>4, <1>9, <1>13, <3>1 DEF KillSent, AskSent, Killed, Served, Reading
  <2>2. /\ KillSent(c, q, k) <=> ~Reading(recv[q])
        /\ AskSent(c, q, k) <=> Reading(recv[q])
    BY <1>1, <1>2, <1>3, <1>13 DEF KillSent, AskSent, Killed, Served, Reading
  <2>3. ~(Owning(c) /\ idx[c] = k) /\ ~(mpc[c] = "r_send" /\ idx[c] = k)
    BY <1>13 DEF Owning
  <2>4. ~(Owning(c)' /\ idx'[c] = k) /\ ~(mpc'[c] = "r_send" /\ idx'[c] = k)
    BY <1>4, <1>7, <2>3
  <2>5. /\ WritePending(c, k) <=> (Owning(c) /\ idx[c] = k) \/ KillSent(c, q, k)
        /\ ReadPending(c, k) <=> (mpc[c] = "r_send" /\ idx[c] = k) \/ AskSent(c, q, k)
    BY PendingForm
  <2>6. /\ WritePending(c, k)' <=> (Owning(c)' /\ idx'[c] = k) \/ KillSent(c, q, k)'
        /\ ReadPending(c, k)' <=> (mpc'[c] = "r_send" /\ idx'[c] = k) \/ AskSent(c, q, k)'
    BY PendingNext
  <2> QED
    BY <2>1, <2>2, <2>3, <2>4, <2>5, <2>6
<1>15. \A j \in Pages : j # k => /\ KillSent(c, q, j)' <=> KillSent(c, q, j)
                                 /\ AskSent(c, q, j)' <=> AskSent(c, q, j)
  BY <1>2, <1>4 DEF KillSent, AskSent, Killed, Served, Reading
<1>16. \A j \in Pages : j # k => /\ WritePending(c, j)' <=> WritePending(c, j)
                                 /\ ReadPending(c, j)' <=> ReadPending(c, j)
                                 /\ Effective(q, j)' = Effective(q, j)
  <2> SUFFICES ASSUME NEW j \in Pages, j # k
               PROVE  /\ WritePending(c, j)' <=> WritePending(c, j)
                      /\ ReadPending(c, j)' <=> ReadPending(c, j)
                      /\ Effective(q, j)' = Effective(q, j)
    OBVIOUS
  <2>1. /\ WritePending(c, j)' <=> WritePending(c, j)
        /\ ReadPending(c, j)' <=> ReadPending(c, j)
    BY <1>4, <1>7, <1>15, PendingForm, PendingNext
  <2> QED
    BY <1>1, <1>4, <2>1, PendingNext, PromisedForm
<1>17. /\ Reading(recv[q]) => spc[q] \in {"toS", "toS_none"} /\ msi'[q][k] = Shared
       /\ ~Reading(recv[q]) => spc[q] = "toI" /\ msi'[q][k] = Invalid
  BY <1>1, <1>4 DEF Serve, ServerState
<1>18. Effective(q, k)' = Effective(q, k)
  <2>1. Effective(q, k) = IF ~Reading(recv[q]) THEN "I" ELSE "S"
    BY <1>1, <1>14, PromisedForm
  <2>2. Effective(q, k)' = StateName(msi'[q][k])
    BY <1>14, PendingNext
  <2> QED
    BY <1>17, <2>1, <2>2, States
<1>19. Quiet
  BY <1>1, <1>4, <1>8, <1>16, <1>18, QuietFrom
<1>20. Paired(c, q)'
  <2>1. Settled(msi'[c][k], msi'[q][k])
    BY <1>3, <1>4, <1>17, States DEF Settled
  <2> SUFFICES ASSUME NEW j \in Pages
               PROVE  /\ WritePending(c, j)' \/ ReadPending(c, j)'
                            \/ Settled(msi'[c][j], msi'[q][j])
                      /\ ReadPending(c, j)' => msi'[q][j] # Shared
    BY DEF Paired, Settled
  <2>2. CASE j = k
    BY <1>14, <2>1, <2>2
  <2>3. CASE j # k
    BY <1>1, <1>4, <1>16, <2>3 DEF Paired
  <2> QED
    BY <2>2, <2>3
<1>21. Holder(c, q)'
  <2> SUFFICES ASSUME NEW j \in Pages, latest[j] # <<>>
               PROVE  \/ msi[c][j] # Invalid /\ Text(mem[c][j]) = latest[j]
                      \/ msi'[q][j] # Invalid /\ Text(mem[q][j]) = latest[j]
                         /\ ~KillSent(c, q, j)'
    BY <1>4 DEF Holder
  <2>1. CASE j # k
    BY <1>1, <1>4, <1>15, <2>1 DEF Holder
  <2>2. CASE j = k /\ ~Reading(recv[q])
    <3>1. KillSent(c, q, k)
      BY <1>1, <1>2, <1>3, <2>2 DEF KillSent, Killed
    <3> QED
      BY <1>1, <2>2, <3>1 DEF Holder
  <2>3. CASE j = k /\ Reading(recv[q])
    <3>1. ~KillSent(c, q, k)'
      BY <1>14, PendingNext
    <3>2. msi'[q][k] # Invalid
      BY <1>17, <2>3, States
    <3> QED
      BY <1>1, <2>3, <3>1, <3>2 DEF Holder
  <2> QED
    BY <2>1, <2>2, <2>3
<1>22. Owner(c, q)'
  <2>1. \A j \in Pages : msi'[q][j] = Modified => j # k /\ msi[q][j] = Modified
    BY <1>4, States DEF ServerState
  <2> QED
    BY <1>1, <1>4, <1>7, <1>16, <2>1 DEF Owner
<1>23. Serve(q)'
  <2>1. spc'[q] = "no_data" => spc[q] = "toS_none"
    BY <1>1, <1>4 DEF AfterStore
  <2> QED
    BY <1>1, <1>2, <1>3, <1>4, <1>9, <1>17, <2>1 DEF Serve, Reading
<1>24. Phase(c, q)'
  <2>1. /\ spc[q] # "toS_none" => spc'[q] = "recv"
        /\ spc[q] = "toS_none" => spc'[q] = "no_data" /\ mpc[c] = "r_wait"
    BY <1>1, <1>4 DEF AfterStore, Phase
  <2>2. CASE mpc[c] = "r_wait"
    <3>1. Asked(c, q) => Asked(c, q)'
      BY <1>1, <1>4, <2>1 DEF Asked, Reading
    <3>2. AtPeer(c, q) => AtPeer(c, q)'
      BY <1>1, <1>4, <2>1 DEF AtPeer, Reading
    <3>3. Answered(c, q) => Answered(c, q)'
      BY <1>1, <1>4, <2>1 DEF Answered, Answer
    <3> QED
      BY <1>1, <1>4, <2>2, <3>1, <3>2, <3>3 DEF Phase
  <2>3. CASE mpc[c] # "r_wait"
    BY <1>1, <1>4, <2>1, <2>3 DEF Phase, Reading
  <2> QED
    BY <2>2, <2>3
<1> QED
  BY <1>6, <1>8, <1>10, <1>11, <1>12, <1>19, <1>20, <1>21, <1>22, <1>23, <1>24
  DEF Keeps, Turn
-----------------------------------------------------------------------------
(* The turn passes; the theorems.                                          *)

\* The turn passes when nothing is under way: what is true of the two
\* machines then does not tell them apart.
LEMMA Swap ==
    ASSUME NEW c, NEW q, Sides(c, q), Turn(c, q), Quiescent
    PROVE  Sides(q, c) /\ Turn(q, c)
<1>1. Sides(q, c)
  BY DEF Sides
<1>2. /\ Paired(c, q) /\ OwnClean(c, q) /\ PeerClean(c, q) /\ Holder(c, q) /\ Owner(c, q)
      /\ Busy(c, q)
  BY DEF Turn
<1>3. /\ alive[c] /\ mpc[c] = "prompt" /\ spc[c] = "recv" /\ req[c] = <<>> /\ rep[c] = <<>>
      /\ alive[q] /\ mpc[q] = "prompt" /\ spc[q] = "recv" /\ req[q] = <<>> /\ rep[q] = <<>>
      /\ Len(req[c]) = 0 /\ Len(req[q]) = 0
  BY DEF Quiescent, Sides
<1>4. Busy(q, c) /\ ~Owning(q) /\ ~Owning(c)
  BY <1>3 DEF Busy, Owning
<1>5. MenuTemp(q) /\ MenuState(q)
  BY <1>3, <1>4 DEF MenuTemp, MenuState, OnPage, OnAddress
<1>6. Wire(q, c) /\ Order(q, c) /\ Phase(q, c) /\ Serve(c)
  BY <1>3 DEF Wire, Order, Phase, Serve
<1>7. \A k : /\ ~WritePending(c, k) /\ ~ReadPending(c, k)
             /\ ~WritePending(q, k) /\ ~ReadPending(q, k)
  BY <1>1, <1>2, <1>4, NothingOfPeer
<1>8. Paired(q, c)
  BY <1>2, <1>7 DEF Paired, Settled
<1>9. \A k, i : ~ToCome(c, k, i)
  BY <1>3, <1>4 DEF ToCome
<1>10. OwnClean(q, c)
  BY <1>2, <1>3 DEF OwnClean, PeerClean
<1>11. PeerClean(q, c)
  BY <1>2, <1>3, <1>9 DEF OwnClean, PeerClean
<1>12. \A k : ~KillSent(q, c, k)
  BY <1>3 DEF KillSent
<1>13. Holder(q, c)
  BY <1>2, <1>12 DEF Holder
<1>14. Owner(q, c)
  BY <1>2, <1>3, <1>4, <1>7 DEF Owner
<1> QED
  BY <1>1, <1>4, <1>5, <1>6, <1>8, <1>10, <1>11, <1>13, <1>14 DEF Turn

\* At the start nobody has anything.
LEMMA TurnInit == Init => TurnInv /\ Abs!Init
<1> SUFFICES ASSUME Init PROVE TurnInv /\ Abs!Init
  OBVIOUS
<1>1. PICK c \in Machines, q \in Machines : Sides(c, q)
  <2>1. 1 \in Machines /\ Other(1) \in Machines
    BY DEF Machines, Other
  <2> QED
    BY <2>1, TwoSides
<1>2. \A p \in Machines :
         /\ alive[p] /\ mpc[p] = "prompt" /\ spc[p] = "recv" /\ req[p] = <<>> /\ rep[p] = <<>>
         /\ Len(req[p]) = 0
         /\ \A k \in Pages : msi[p][k] = Invalid /\ mem[p][k] = Zeroed
  BY DEF Init
<1>3. \A k \in Pages : latest[k] = <<>>
  BY DEF Init
<1>4. Whole /\ Absent
  BY <1>2 DEF Whole, Absent
<1>5. Busy(c, q) /\ ~Owning(c)
  BY <1>1, <1>2 DEF Busy, Owning
<1>6. MenuTemp(c) /\ MenuState(c)
  BY <1>2, <1>5 DEF MenuTemp, MenuState, OnPage, OnAddress
<1>7. Wire(c, q) /\ Order(c, q) /\ Phase(c, q) /\ Serve(q)
  BY <1>2 DEF Wire, Order, Phase, Serve
<1>8. Paired(c, q)
  <2>1. \A k : ~ReadPending(c, k)
    BY <1>1, <1>2 DEF ReadPending, Sides
  <2> QED
    BY <1>2, <2>1 DEF Paired, Settled
<1>9. OwnClean(c, q) /\ PeerClean(c, q)
  BY <1>2, States DEF OwnClean, PeerClean
<1>10. Holder(c, q) /\ Owner(c, q)
  BY <1>2, <1>3, States DEF Holder, Owner
<1>11. TurnInv
  BY <1>1, <1>4, <1>5, <1>6, <1>7, <1>8, <1>9, <1>10 DEF TurnInv, Turn, Sides
<1>12. \A p \in Machines : \A k \in Pages : Effective(p, k) = "I"
  <2>1. \A p \in Machines : Other(p) \in Machines /\ Other(Other(p)) = p
    BY TwoSides DEF Sides
  <2>2. \A p \in Machines : \A k : ~WritePending(p, k) /\ ~ReadPending(p, k)
    BY <1>2, <2>1 DEF WritePending, ReadPending
  <2> QED
    BY <1>2, <2>1, <2>2, States DEF Effective
<1>13. Abs!Init
  <2>1. Abs!Machines = Machines
    BY DEF Abs!Machines, Machines
  <2> QED
    BY <1>12, <2>1 DEF Abs!Init, Promised
<1> QED
  BY <1>11, <1>13

\* What one operator types while nothing is under way.
LEMMA CommandsKeep ==
    ASSUME NEW c, NEW q, Sides(c, q), TypeOK, Whole, Absent, Turn(c, q), Quiescent, Commands(c)
    PROVE  Keeps(c, q) /\ Quiet
<1>1. ASSUME NEW k \in Pages \cup {-1}, StartRead(c, k) PROVE Keeps(c, q) /\ Quiet
  BY <1>1, CommandKeeps DEF StartRead
<1>2. ASSUME NEW k \in Pages \cup {-1}, StartWrite(c, k) PROVE Keeps(c, q) /\ Quiet
  BY <1>2, CommandKeeps DEF StartWrite
<1>3. ASSUME NEW k \in Pages \cup {-1}, View(c, k) PROVE Keeps(c, q) /\ Quiet
  BY <1>3, ViewKeeps
<1>4. CASE Quit(c)
  <2>1. Busy(c, q)'
    BY <1>4 DEF Quit, Turn, Busy, Quiescent, Sides
  <2> QED
    BY <1>4, <2>1, StillKeeps DEF Quit
<1> QED
  BY <1>1, <1>2, <1>3, <1>4 DEF Commands

\* A step of one of the threads.
LEMMA StepKeeps ==
    ASSUME NEW c, NEW q, Sides(c, q), TypeOK, Whole, Absent, Turn(c, q),
           NEW p \in Machines, Step(p)
    PROVE  Keeps(c, q) /\ (Quiet \/ Abs!Next)
<1>1. /\ Busy(c, q) /\ Other(c) = q /\ Other(q) = c /\ p \in {c, q}
  BY DEF Turn, Sides
<1>2. CASE PeerGone(p)
  <2>1. Busy(c, q)'
    BY <1>1, <1>2 DEF PeerGone, Busy
  <2> QED
    BY <1>2, <2>1, StillKeeps DEF PeerGone
<1>3. ~SigPipe(p)
  BY <1>1 DEF SigPipe, Busy
<1>4. CASE FaultHandler(p)
  BY <1>4, FaultKeeps
<1>5. CASE p = c /\ Menu(p)
  <2>1. ~ReadEOF(c)
    BY <1>1 DEF ReadEOF, At, Busy
  <2>off. CASE ReadOff(c) \/ WriteOff(c)
    BY <2>off, LoadPageKeeps
  <2>2. CASE ReadPage(c) \/ ReadCheck(c) \/ ReadLocal(c) \/ ReadMemset(c) \/ ReadFlags(c)
    BY <2>2, ReadPageKeeps, ReadCheckKeeps, ReadLocalKeeps, ReadMemsetKeeps, ReadFlagsKeeps
  <2>3. CASE ReadState(c) \/ ReadSend(c) \/ ReadReply(c)
    BY <2>3, ReadStateKeeps, ReadSendKeeps, ReadReplyKeeps
  <2>4. CASE \E t \in Texts : WriteType(c, t)
    BY <2>4, WriteTypeKeeps
  <2>5. CASE WriteNum(c) \/ WriteCheck(c) \/ WriteFlags(c) \/ WriteState(c)
    BY <2>5, WriteNumKeeps, WriteCheckKeeps, WriteFlagsKeeps, WriteStateKeeps
  <2>6. CASE WritePage(c) \/ WriteCopy(c) \/ WriteSend(c)
    BY <2>6, WritePageKeeps, WriteCopyKeeps, WriteSendKeeps
  <2> QED
    BY <1>5, <2>1, <2>off, <2>2, <2>3, <2>4, <2>5, <2>6 DEF Menu
<1>6. ~Menu(q)
  <2>1. mpc[q] = "prompt"
    BY <1>1 DEF Busy
  <2> QED
    BY <2>1 DEF Menu, At, ReadOff, WriteOff, LoadPage, ReadPage, ReadCheck, ReadLocal, ReadMemset, ReadFlags, ReadState,
                ReadSend, ReadReply, ReadEOF, WriteType, WriteNum, WriteCheck, WriteFlags,
                WriteState, WritePage, WriteCopy, WriteSend
<1>7. CASE p = q /\ Server(p)
  BY <1>2, <1>7, ReceiveKeeps, CopyInKeeps, ReactKeeps, FlushKeeps, ServerStoreKeeps,
     NoDataKeeps DEF Server
<1>8. CASE p = c /\ Server(p)
  <2>1. spc[c] = "recv" /\ req[Other(c)] = <<>>
    BY <1>1 DEF Busy
  <2>2. PeerGone(c)
    BY <1>8, <2>1 DEF Server, ServerAt, Receive, CopyIn, React, Flush, ServerStore, NoData,
                      ServerStores
  <2> QED
    BY <1>2, <1>8, <2>2
<1> QED
  BY <1>1, <1>3, <1>4, <1>5, <1>6, <1>7, <1>8 DEF Step

\* Every step keeps the invariant, and is an abstract step or a stutter.
LEMMA TurnStep == TypeOK /\ TurnInv /\ [SeqNext]_vars => TurnInv' /\ [Abs!Next]_Promised
<1> SUFFICES ASSUME TypeOK, TurnInv, [SeqNext]_vars PROVE TurnInv' /\ [Abs!Next]_Promised
  OBVIOUS
<1>1. PICK c \in Machines : Turn(c, Other(c))
  BY DEF TurnInv
<1>2. PICK q : q = Other(c) /\ Sides(c, q) /\ Turn(c, q)
  BY <1>1, TwoSides
<1>3. Whole /\ Absent
  BY DEF TurnInv
<1>4. ASSUME NEW a, NEW b, Sides(a, b), Keeps(a, b) PROVE TurnInv'
  BY <1>4 DEF Keeps, TurnInv, Sides
<1>5. CASE UNCHANGED vars
  <2>1. Busy(c, q)'
    BY <1>2, <1>5 DEF Turn, Busy, vars
  <2>2. Keeps(c, q) /\ Quiet
    BY <1>2, <1>3, <1>5, <2>1, StillKeeps DEF vars
  <2> QED
    BY <1>2, <1>4, <2>2 DEF Quiet
<1>6. ASSUME NEW p \in Machines, Quiescent, Commands(p) PROVE TurnInv' /\ [Abs!Next]_Promised
  <2>1. PICK d : Sides(p, d) /\ Turn(p, d)
    <3>1. p = c \/ p = q
      BY <1>2 DEF Sides
    <3> QED
      BY <1>2, <1>6, <3>1, Swap
  <2>2. Keeps(p, d) /\ Quiet
    BY <1>3, <1>6, <2>1, CommandsKeep
  <2> QED
    BY <1>4, <2>1, <2>2 DEF Quiet
<1>7. ASSUME NEW p \in Machines, Step(p) PROVE TurnInv' /\ [Abs!Next]_Promised
  <2>1. Keeps(c, q) /\ (Quiet \/ Abs!Next)
    BY <1>2, <1>3, <1>7, StepKeeps
  <2> QED
    BY <1>2, <1>4, <2>1 DEF Quiet
<1> QED
  BY <1>5, <1>6, <1>7 DEF SeqNext

\* Operators who take turns are operators.
LEMMA SeqType == SeqSpec => []TypeOK
<1>1. Init => TypeOK
  BY InitType
<1>2. [SeqNext]_vars => [Next]_vars
  BY DEF SeqNext, Next
<1>3. TypeOK /\ [Next]_vars => TypeOK'
  BY StepType
<1> QED
  BY <1>1, <1>2, <1>3, PTL DEF SeqSpec

\* When the operators take turns, the list_MSI arrays of the two processes
\* implement Coherence: the menu's store to its own entry is the whole read or
\* write, and the requests, the copies of temp_data and the four-way reaction
\* of the peer's server only bring about what was promised by then.
THEOREM Implements == SeqSpec => Coherent
<1>1. Init => TurnInv /\ Abs!Init
  BY TurnInit
<1>2. TypeOK /\ TurnInv /\ [SeqNext]_vars => TurnInv' /\ [Abs!Next]_Promised
  BY TurnStep
<1> QED
  BY <1>1, <1>2, SeqType, PTL DEF SeqSpec, Coherent, Abs!Spec

\* The invariant holds of every behaviour in which they do.
LEMMA TurnHolds == SeqSpec => []TurnInv
<1>1. Init => TurnInv
  BY TurnInit
<1>2. TypeOK /\ TurnInv /\ [SeqNext]_vars => TurnInv'
  BY TurnStep
<1> QED
  BY <1>1, <1>2, SeqType, PTL DEF SeqSpec

\* When the operators take turns, the text of the last write to a page is in
\* a valid copy, although a read clears the local page before it asks, a write
\* invalidates the peer's copy without fetching it, and temp_data carries the
\* read signals of earlier commands from one machine to the other.
THEOREM NoWriteLost == SeqSpec => []LatestSurvives
<1>1. TurnInv => LatestSurvives
  <2> SUFFICES ASSUME TurnInv, Quiescent, NEW k \in Pages, latest[k] # <<>>
               PROVE  \E p \in Machines : /\ ~msi[p][k].I
                                          /\ Text(mem[p][k]) = latest[k]
                                          /\ msi[p][k].M <=> msi[Other(p)][k].I
    BY DEF LatestSurvives
  <2>1. PICK c \in Machines : Turn(c, Other(c))
    BY DEF TurnInv
  <2>2. PICK q : q = Other(c) /\ Sides(c, q) /\ Turn(c, q)
    BY <2>1, TwoSides
  <2>3. Sides(q, c) /\ Busy(c, q) /\ Busy(q, c) /\ Holder(c, q) /\ Paired(c, q)
    BY <2>2, Swap DEF Turn
  <2>4. ~WritePending(c, k) /\ ~ReadPending(c, k)
    BY <2>3, NothingOfPeer
  <2>5. Settled(msi[c][k], msi[q][k])
    BY <2>3, <2>4 DEF Paired
  <2>6. /\ msi[c][k] # Invalid => ~msi[c][k].I /\ (msi[c][k].M <=> msi[q][k].I)
        /\ msi[q][k] # Invalid => ~msi[q][k].I /\ (msi[q][k].M <=> msi[c][k].I)
    BY <2>5, States DEF Settled
  <2>7. \E p \in {c, q} : msi[p][k] # Invalid /\ Text(mem[p][k]) = latest[k]
    BY <2>3 DEF Holder
  <2> QED
    BY <2>2, <2>3, <2>6, <2>7 DEF Sides
<1> QED
  BY <1>1, TurnHolds, PTL

\* When the operators take turns, the machines never both end up with a page
\* modified.  When they do not, the server's copy into temp_data can replace
\* the write the menu is about to announce, and both do.
THEOREM TurnsKeepOneOwner == SeqSpec => []OneModified
<1>1. TurnInv => OneModified
  <2> SUFFICES ASSUME TurnInv, Quiescent, NEW k \in Pages
               PROVE  ~(msi[1][k].M /\ msi[2][k].M)
    BY DEF OneModified
  <2>1. PICK c \in Machines : Turn(c, Other(c))
    BY DEF TurnInv
  <2>2. PICK q : q = Other(c) /\ Sides(c, q) /\ Turn(c, q)
    BY <2>1, TwoSides
  <2>3. Sides(q, c) /\ Busy(c, q) /\ Busy(q, c) /\ Paired(c, q)
    BY <2>2, Swap DEF Turn
  <2>4. ~WritePending(c, k) /\ ~ReadPending(c, k)
    BY <2>3, NothingOfPeer
  <2>5. Settled(msi[c][k], msi[q][k])
    BY <2>3, <2>4 DEF Paired
  <2>6. ~(msi[c][k].M /\ msi[q][k].M)
    BY <2>5, States DEF Settled
  <2> QED
    BY <2>2, <2>6 DEF Sides, Machines
<1> QED
  BY <1>1, TurnHolds, PTL

\* When the operators take turns, the read that waits on client_fd returns
\* the text of the last write by either machine, or the single space if the
\* page was never written: never an old text, never part of two answers.
THEOREM ReadsAreFresh == SeqSpec => ReadGetsLatest
<1>1. TypeOK /\ TurnInv /\ [SeqNext]_vars =>
         [\A p \in Machines : ReadReply(p) =>
            rep[p] = IF latest[idx[p]] = <<>> THEN <<SPACE>> ELSE latest[idx[p]]]_vars
  <2> SUFFICES ASSUME TypeOK, TurnInv, NEW p \in Machines, ReadReply(p)
               PROVE  rep[p] = IF latest[idx[p]] = <<>> THEN <<SPACE>> ELSE latest[idx[p]]
    OBVIOUS
  <2>1. PICK c \in Machines : Turn(c, Other(c))
    BY DEF TurnInv
  <2>2. PICK q : q = Other(c) /\ Sides(c, q) /\ Turn(c, q)
    BY <2>1, TwoSides
  <2>3. p = c
    BY <2>2 DEF Turn, Busy, Sides, ReadReply, At
  <2>4. ReadReply(c)
    BY <2>3
  <2>5. rep[c] = Answer(idx[c])
    BY <2>2, <2>4, ReadReplyKeeps DEF TurnInv
  <2> QED
    BY <2>3, <2>5 DEF Answer
<1> QED
  BY <1>1, SeqType, TurnHolds, PTL DEF SeqSpec, ReadGetsLatest
=============================================================================
