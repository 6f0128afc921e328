--------------------------- MODULE Messages_proofs ---------------------------
(***************************************************************************)
(* The batches of sendmmsg and recvmmsg, for every set of addresses, every *)
(* length of a batch and every length of the queue.  The two calls share   *)
(* nothing, so each has an inductive invariant of its own.                 *)
(***************************************************************************)
EXTENDS Messages, SequenceTheorems, TLAPS

(* sendmmsg: at which places a call is inside an entry of its batch, and   *)
(* at which of them it may hold kernel buffers.                            *)
Inside == {"copy", "control", "ask", "proto", "failed", "sent"}
Buffered == {"control", "ask", "proto", "failed"}

SendTypes ==
  snd \in [at : {"user", "end"} \union Inside, batch : Seq(Names), datagrams : Nat,
           used : SUBSET Names, iov : BOOLEAN, ctl : BOOLEAN, left : BOOLEAN,
           asked : SUBSET Names, sent : Seq(Names)]

(* The LSM was asked about all that was sent, about the destination it is  *)
(* not asked about again, and about an entry the protocol is handed.       *)
Approved ==
  /\ SentAreApproved
  /\ snd.used \subseteq snd.asked
  /\ snd.at = "proto" => Entry \in snd.asked

(* How far the call is, in the batch and in what was sent. *)
SendProgress ==
  /\ snd.at \in Inside => snd.datagrams < Len(snd.batch)
  /\ snd.at \in Inside \ {"sent"} => Len(snd.sent) = snd.datagrams
  /\ snd.at = "sent" => Len(snd.sent) = snd.datagrams + 1
  /\ snd.at \in {"user", "end"} => snd.datagrams <= Len(snd.sent)
                                   /\ Len(snd.sent) <= snd.datagrams + 1
  /\ Len(snd.sent) <= Len(snd.batch)
  /\ \A k \in 1..Len(snd.sent) : snd.sent[k] = snd.batch[k]

(* A buffer is held only where the code frees it later. *)
Buffers ==
  /\ snd.at \notin Buffered => snd.iov = FALSE /\ snd.ctl = FALSE
  /\ snd.at = "control" => snd.ctl = FALSE

SendInv == SendTypes /\ Approved /\ SendProgress /\ Buffers

(* recvmmsg: a datagram is taken at most one step before it is counted,    *)
(* and the step in between can only fail with an error.                    *)
MaybeErr == {NoErr} \union Errs
RecvRecords ==
  [at : {"user", "recv", "wait", "got", "end", "back"}, vlen : Nat, datagrams : Nat,
   one : BOOLEAN, dontwait : BOOLEAN, errqueue : BOOLEAN,
   timer : {"none", "running", "over"}, err : MaybeErr, taken : Nat, ret : Int]
RecvTypes == rcv \in RecvRecords /\ queue \in Nat /\ sk_err \in MaybeErr /\ owed \in MaybeErr

RecvProgress ==
  /\ rcv.at \in {"recv", "wait"} => rcv.taken = rcv.datagrams /\ rcv.err = NoErr
  /\ rcv.at = "got" => rcv.taken = rcv.datagrams + 1 /\ rcv.err = NoErr
  /\ rcv.at = "end" => \/ rcv.taken = rcv.datagrams
                       \/ rcv.taken = rcv.datagrams + 1 /\ rcv.err # NoErr

RecvInv == RecvTypes /\ RecvProgress /\ TakenAreCounted /\ ErrorIsKept
-----------------------------------------------------------------------------
LEMMA MsgInitInv == MsgInit => SendInv /\ RecvInv
<1> SUFFICES ASSUME MsgInit PROVE SendInv /\ RecvInv
  OBVIOUS
<1>1. SendInv
  BY DEF MsgInit, SendIdle, SendInv, SendTypes, Approved, SentAreApproved,
         SendProgress, Buffers, Inside, Buffered
<1>2. RecvInv
  BY DEF MsgInit, RecvIdle, RecvInv, RecvTypes, RecvRecords, MaybeErr, RecvProgress,
         TakenAreCounted, ErrorIsKept
<1> QED
  BY <1>1, <1>2

(* The entry a call is at is one of its batch. *)
LEMMA EntryIsName == SendInv /\ snd.at \in Inside => Entry \in Names
BY DEF SendInv, SendTypes, SendProgress, Entry, Inside

(* Steps that leave batch, approvals and datagrams alone. *)
LEMMA SendMoves ==
  ASSUME SendInv, SendTypes',
         snd'.batch = snd.batch, snd'.datagrams = snd.datagrams,
         snd'.used = snd.used, snd'.asked = snd.asked, snd'.sent = snd.sent
  PROVE  /\ snd'.at # "proto" => Approved'
         /\ \/ snd.at \in Inside \ {"sent"} /\ snd'.at \in (Inside \ {"sent"}) \union {"end"}
            \/ snd.at = "sent" /\ snd'.at = "end"
            => SendProgress'
BY DEF SendInv, SendTypes, Approved, SentAreApproved, SendProgress, Inside

(* What one datagram more does to what was sent. *)
LEMMA SentAppend ==
  ASSUME NEW S, NEW s \in Seq(S), NEW e \in S
  PROVE  /\ Append(s, e) \in Seq(S)
         /\ Len(Append(s, e)) = Len(s) + 1
         /\ \A k \in 1..Len(s) : Append(s, e)[k] = s[k]
         /\ Append(s, e)[Len(s) + 1] = e
         /\ DOMAIN Append(s, e) = 1..Len(s) + 1
BY AppendProperties

(* Every step of sendmmsg, at every failure of a copy, of the LSM and of   *)
(* the protocol, keeps its invariant.                                      *)
LEMMA SendStep == SendInv /\ sys_sendmmsg => SendInv'
<1> SUFFICES ASSUME SendInv, sys_sendmmsg PROVE SendInv'
  OBVIOUS
<1> USE MessagesAssumption
<1>1. CASE sendmmsg
  <2>1. PICK n \in 1..MaxVlen : \E b \in [1..n -> Names] :
          snd' = [SendIdle EXCEPT !.at = "copy", !.batch = b]
    BY <1>1 DEF sendmmsg
  <2>2. PICK b \in [1..n -> Names] : snd' = [SendIdle EXCEPT !.at = "copy", !.batch = b]
    BY <2>1
  <2>3. n \in Nat /\ n > 0 /\ b \in Seq(Names) /\ Len(b) = n
    BY <2>2
  <2> QED
    <3>1. /\ snd'.at = "copy" /\ snd'.batch = b /\ snd'.datagrams = 0 /\ snd'.used = {}
          /\ snd'.iov = FALSE /\ snd'.ctl = FALSE /\ snd'.asked = {} /\ snd'.sent = <<>>
      BY <2>2 DEF SendIdle
    <3>2. SendTypes'
      <4>1. snd' = [at |-> "copy", batch |-> b, datagrams |-> 0, used |-> {}, iov |-> FALSE,
                    ctl |-> FALSE, left |-> FALSE, asked |-> {}, sent |-> <<>>]
        BY <2>2 DEF SendIdle
      <4>2. FALSE \in BOOLEAN /\ {} \in SUBSET Names /\ <<>> \in Seq(Names) /\ 0 \in Nat
        OBVIOUS
      <4> QED
        BY <2>3, <4>1, <4>2, Zenon DEF SendTypes, Inside
    <3>3. Approved' /\ Buffers'
      BY <3>1 DEF Approved, SentAreApproved, Buffers, Buffered
    <3>4. SendProgress'
      BY <2>3, <3>1 DEF SendProgress, Inside
    <3> QED
      BY <3>2, <3>3, <3>4 DEF SendInv
<1>2. CASE copy_msghdr_from_user
  <2>1. SendTypes' /\ Buffers'
    BY ZenonT(40), <1>2 DEF copy_msghdr_from_user, SendTo, SendInv, SendTypes, Buffers, Inside, Buffered
  <2>2. /\ snd.at = "copy" /\ snd'.at \in {"end", "control"}
        /\ snd'.batch = snd.batch /\ snd'.datagrams = snd.datagrams
        /\ snd'.used = snd.used /\ snd'.asked = snd.asked /\ snd'.sent = snd.sent
    BY ZenonT(40), <1>2 DEF copy_msghdr_from_user, SendTo, SendInv, SendTypes
  <2> QED
    BY <2>1, <2>2, SendMoves DEF SendInv, Inside
<1>3. CASE SendControl
  <2>1. SendTypes' /\ Buffers'
    BY ZenonT(40), <1>3 DEF SendControl, SendInv, SendTypes, Buffers, Inside, Buffered
  <2>2. /\ snd.at = "control" /\ snd'.at \in {"end", "ask", "failed"}
        /\ snd'.batch = snd.batch /\ snd'.datagrams = snd.datagrams
        /\ snd'.used = snd.used /\ snd'.asked = snd.asked /\ snd'.sent = snd.sent
    BY ZenonT(40), <1>3 DEF SendControl, SendInv, SendTypes
  <2> QED
    BY <2>1, <2>2, SendMoves DEF SendInv, Inside
<1>4. CASE SendAsk
  <2>0. snd.at = "ask" /\ Entry \in Names
    BY <1>4, EntryIsName DEF SendAsk, Inside
  <2>a. \E a \in SUBSET Names, l \in {"proto", "failed"} :
          snd.asked \subseteq a /\ snd' = [snd EXCEPT !.at = l, !.asked = a]
    <3>1. CASE SendTo("proto") \/ SendTo("failed")
      <4>1. snd.asked \in SUBSET Names /\ snd = [snd EXCEPT !.asked = snd.asked]
        BY DEF SendInv, SendTypes
      <4>2. snd' = [snd EXCEPT !.at = "proto", !.asked = snd.asked]
            \/ snd' = [snd EXCEPT !.at = "failed", !.asked = snd.asked]
        BY <3>1 DEF SendTo, SendInv, SendTypes
      <4> QED
        BY <4>1, <4>2
    <3>2. CASE snd' = [snd EXCEPT !.at = "proto", !.asked = @ \union {Entry}]
      <4>1. snd.asked \union {Entry} \in SUBSET Names
        BY <2>0 DEF SendInv, SendTypes
      <4> QED
        BY <3>2, <4>1
    <3> QED
      BY <1>4, <3>1, <3>2 DEF SendAsk
  <2>b. SendTypes'
    BY ZenonT(40), <2>a DEF SendInv, SendTypes, Inside
  <2>c. /\ snd'.at \in {"proto", "failed"} /\ snd.asked \subseteq snd'.asked
        /\ snd'.batch = snd.batch /\ snd'.datagrams = snd.datagrams /\ snd'.sent = snd.sent
        /\ snd'.used = snd.used /\ snd'.iov = snd.iov /\ snd'.ctl = snd.ctl
    BY <2>a DEF SendInv, SendTypes
  <2>1. Buffers' /\ SendProgress'
    BY <2>0, <2>c DEF SendInv, SendProgress, Buffers, Inside, Buffered
  <2>2. Entry' = Entry
    BY <2>c DEF Entry
  <2>3. snd'.at = "proto" => Entry \in snd'.asked
    BY ZenonT(40), <1>4, <2>0 DEF SendAsk, SendTo, SendInv, SendTypes, MustAsk, Approved
  <2> QED
    BY <2>b, <2>c, <2>1, <2>2, <2>3 DEF SendInv, Approved, SentAreApproved
<1>5. CASE SendProto
  <2>0. snd.at = "proto" /\ Entry \in Names /\ Entry \in snd.asked
    BY <1>5, EntryIsName DEF SendProto, Inside, SendInv, Approved
  <2>1. CASE SendTo("failed")
    <3>1. /\ SendTypes' /\ Buffers' /\ snd'.at = "failed"
          /\ snd'.batch = snd.batch /\ snd'.datagrams = snd.datagrams
          /\ snd'.used = snd.used /\ snd'.asked = snd.asked /\ snd'.sent = snd.sent
      BY <2>0, <2>1 DEF SendTo, SendInv, SendTypes, Buffers, Inside, Buffered
    <3> QED
      BY <2>0, <3>1, SendMoves DEF SendInv, Inside
  <2>2. CASE \E part \in BOOLEAN :
               snd' = [snd EXCEPT !.at = "sent", !.used = {Entry},
                                  !.iov = FALSE, !.ctl = FALSE, !.left = part,
                                  !.sent = Append(@, Entry)]
    <3> DEFINE s == snd.sent
    <3>1. s \in Seq(Names) /\ Len(s) \in Nat /\ snd.datagrams \in Nat
          /\ snd.batch \in Seq(Names) /\ Len(snd.batch) \in Nat
      BY DEF SendInv, SendTypes
    <3>2. /\ snd'.at = "sent" /\ snd'.used = {Entry} /\ snd'.iov = FALSE /\ snd'.ctl = FALSE
          /\ snd'.left \in BOOLEAN /\ snd'.sent = Append(s, Entry) /\ snd'.batch = snd.batch
          /\ snd'.datagrams = snd.datagrams /\ snd'.asked = snd.asked
      BY <2>2 DEF SendInv, SendTypes
    <3>3. /\ Append(s, Entry) \in Seq(Names)
          /\ Len(Append(s, Entry)) = Len(s) + 1
          /\ \A k \in 1..Len(s) : Append(s, Entry)[k] = s[k]
          /\ Append(s, Entry)[Len(s) + 1] = Entry
          /\ DOMAIN Append(s, Entry) = 1..Len(s) + 1
      BY <2>0, <3>1, SentAppend
    <3>4. SendTypes'
      <4> DEFINE z == Append(s, Entry)
      <4> HIDE DEF z, s
      <4>1. PICK part \in BOOLEAN :
              snd' = [snd EXCEPT !.at = "sent", !.used = {Entry}, !.iov = FALSE,
                                 !.ctl = FALSE, !.left = part, !.sent = z]
        BY <2>2 DEF z, s
      <4>2. z \in Seq(Names) /\ {Entry} \in SUBSET Names
        BY <2>0, <3>3 DEF z
      <4> QED
        BY <4>1, <4>2 DEF SendInv, SendTypes, Inside
    <3>5. /\ Len(s) = snd.datagrams /\ snd.datagrams < Len(snd.batch)
          /\ \A k \in 1..Len(s) : s[k] = snd.batch[k] /\ s[k] \in snd.asked
      BY <2>0, <3>1 DEF SendInv, SendProgress, Inside, Approved, SentAreApproved
    <3> HIDE DEF s
    <3>6. Approved'
      BY <2>0, <3>1, <3>2, <3>3, <3>5 DEF Approved, SentAreApproved
    <3>7. SendProgress'
      BY <2>0, <3>1, <3>2, <3>3, <3>5 DEF SendProgress, Inside, Entry
    <3>8. Buffers'
      BY <3>2 DEF Buffers, Buffered
    <3> QED
      BY <3>4, <3>6, <3>7, <3>8 DEF SendInv
  <2> QED
    BY <1>5, <2>1, <2>2 DEF SendProto
<1>6. CASE SendFailed
  <2>1. SendTypes' /\ Buffers'
    BY <1>6 DEF SendFailed, SendInv, SendTypes, Buffers, Inside, Buffered
  <2>2. /\ snd.at = "failed" /\ snd'.at = "end"
        /\ snd'.batch = snd.batch /\ snd'.datagrams = snd.datagrams
        /\ snd'.used = snd.used /\ snd'.asked = snd.asked /\ snd'.sent = snd.sent
    BY <1>6 DEF SendFailed, SendInv, SendTypes
  <2> QED
    BY <2>1, <2>2, SendMoves DEF SendInv, Inside
<1>7. CASE SendCount
  <2>1. CASE SendTo("end")
    <3>1. /\ SendTypes' /\ Buffers' /\ snd.at = "sent" /\ snd'.at = "end"
          /\ snd'.batch = snd.batch /\ snd'.datagrams = snd.datagrams
          /\ snd'.used = snd.used /\ snd'.asked = snd.asked /\ snd'.sent = snd.sent
      BY <1>7, <2>1 DEF SendCount, SendTo, SendInv, SendTypes, Buffers, Inside, Buffered
    <3> QED
      BY <3>1, SendMoves DEF SendInv, Inside
  <2>2. CASE snd' = [snd EXCEPT !.datagrams = snd.datagrams + 1,
                       !.at = IF snd.left \/ snd.datagrams + 1 = Len(snd.batch)
                              THEN "end" ELSE "copy"]
    <3>0. snd.at = "sent" /\ snd.datagrams + 1 \in Nat
      BY <1>7 DEF SendCount, SendInv, SendTypes
    <3>1. snd.at = "sent" /\ SendTypes' /\ Buffers'
      <4>1. PICK l \in {"end", "copy"} :
              snd' = [snd EXCEPT !.datagrams = snd.datagrams + 1, !.at = l]
        BY <2>2
      <4>2. SendTypes'
        BY <3>0, <4>1 DEF SendInv, SendTypes, Inside
      <4>3. snd'.at = l /\ snd'.iov = snd.iov /\ snd'.ctl = snd.ctl
        BY <4>1 DEF SendInv, SendTypes
      <4> QED
        BY <3>0, <4>2, <4>3 DEF SendInv, Buffers, Buffered
    <3>2. /\ snd'.at \in {"end", "copy"}
          /\ snd'.at = "copy" => snd.datagrams + 1 # Len(snd.batch)
          /\ snd'.batch = snd.batch /\ snd'.datagrams = snd.datagrams + 1
          /\ snd'.used = snd.used /\ snd'.asked = snd.asked /\ snd'.sent = snd.sent
      BY <2>2 DEF SendInv, SendTypes
    <3>3. SendProgress' /\ Approved'
      BY <3>1, <3>2 DEF SendInv, SendTypes, SendProgress, Approved, SentAreApproved, Inside
    <3> QED
      BY <3>1, <3>3 DEF SendInv
  <2> QED
    BY <1>7, <2>1, <2>2 DEF SendCount
<1>8. CASE SendReturn
  BY <1>8 DEF SendReturn, SendIdle, SendInv, SendTypes, Approved, SentAreApproved,
         SendProgress, Buffers, Inside, Buffered
<1> QED
  BY <1>1, <1>2, <1>3, <1>4, <1>5, <1>6, <1>7, <1>8 DEF sys_sendmmsg
-----------------------------------------------------------------------------
(* What the steps of a call do to its record, field by field. *)
LEMMA RecvFields ==
  ASSUME RecvInv
  PROVE  /\ \A l \in {"wait", "end"} :
              rcv' = [rcv EXCEPT !.at = l] =>
                /\ rcv' \in RecvRecords /\ rcv'.at = l /\ rcv'.err = rcv.err
                /\ rcv'.taken = rcv.taken /\ rcv'.datagrams = rcv.datagrams
                /\ rcv'.errqueue = rcv.errqueue
         /\ \A e \in Errs :
              RecvError(e) =>
                /\ rcv' \in RecvRecords /\ rcv'.at = "end" /\ rcv'.err = e
                /\ rcv'.taken = rcv.taken /\ rcv'.datagrams = rcv.datagrams
                /\ rcv'.errqueue = rcv.errqueue
         /\ RecvTake =>
              /\ rcv' \in RecvRecords /\ rcv'.at = "got" /\ rcv'.err = rcv.err
              /\ rcv'.taken = rcv.taken + 1 /\ rcv'.datagrams = rcv.datagrams
              /\ rcv'.errqueue = rcv.errqueue
<1>1. rcv \in RecvRecords /\ rcv.taken + 1 \in Nat
  BY DEF RecvInv, RecvTypes, RecvRecords
<1>2. \A l \in {"wait", "end"} :
        rcv' = [rcv EXCEPT !.at = l] =>
          /\ rcv' \in RecvRecords /\ rcv'.at = l /\ rcv'.err = rcv.err
          /\ rcv'.taken = rcv.taken /\ rcv'.datagrams = rcv.datagrams
          /\ rcv'.errqueue = rcv.errqueue
  BY <1>1 DEF RecvRecords
<1>3. \A e \in Errs :
        RecvError(e) =>
          /\ rcv' \in RecvRecords /\ rcv'.at = "end" /\ rcv'.err = e
          /\ rcv'.taken = rcv.taken /\ rcv'.datagrams = rcv.datagrams
          /\ rcv'.errqueue = rcv.errqueue
  BY <1>1 DEF RecvRecords, RecvError, MaybeErr
<1>4. RecvTake =>
        /\ rcv' \in RecvRecords /\ rcv'.at = "got" /\ rcv'.err = rcv.err
        /\ rcv'.taken = rcv.taken + 1 /\ rcv'.datagrams = rcv.datagrams
        /\ rcv'.errqueue = rcv.errqueue
  BY <1>1 DEF RecvRecords, RecvTake
<1> QED
  BY <1>2, <1>3, <1>4

(* The error that is handed over is gone from sk_err, and nothing is owed. *)
LEMMA ErrorHanded == sock_error => sk_err' = NoErr /\ owed' = NoErr
  BY DEF sock_error

(* The call and its early answer. *)
LEMMA RecvCall == RecvInv /\ recvmmsg => RecvInv'
<1> SUFFICES ASSUME RecvInv, recvmmsg PROVE RecvInv'
  OBVIOUS
<1> USE MessagesAssumption
<1>0. /\ queue' = queue /\ queue \in Nat
      /\ sk_err \in MaybeErr /\ owed \in MaybeErr /\ NoErr \in MaybeErr
  BY DEF recvmmsg, RecvInv, RecvTypes, MaybeErr
<1>1. PICK n \in 0..MaxVlen, w, d, q \in BOOLEAN, k \in {"none", "running"} :
        IF sk_err # NoErr /\ ~q
        THEN /\ rcv' = [RecvIdle EXCEPT !.at = "back", !.ret = Error, !.err = sk_err]
             /\ sock_error
        ELSE /\ rcv' = [RecvIdle EXCEPT
                          !.at = IF n = 0 THEN "end" ELSE "recv", !.vlen = n,
                          !.err = IF n = 0 /\ q THEN "call" ELSE NoErr,
                          !.one = w, !.dontwait = d, !.errqueue = q, !.timer = k]
             /\ UNCHANGED <<sk_err, owed>>
  BY DEF recvmmsg
<1>2. CASE sk_err # NoErr /\ ~q
  <2>1. rcv' = [at |-> "back", vlen |-> 0, datagrams |-> 0, one |-> FALSE,
                dontwait |-> FALSE, errqueue |-> FALSE, timer |-> "none",
                err |-> sk_err, taken |-> 0, ret |-> Error]
    BY <1>1, <1>2 DEF RecvIdle
  <2>2. rcv' \in RecvRecords /\ rcv'.at = "back" /\ rcv'.ret = Error /\ rcv'.taken = 0
    BY <1>0, <2>1 DEF RecvRecords, Error
  <2>3. sk_err' = NoErr /\ owed' = NoErr
    BY <1>1, <1>2, ErrorHanded
  <2> QED
    BY <1>0, <2>2, <2>3 DEF RecvInv, RecvTypes, RecvProgress, TakenAreCounted, ErrorIsKept,
                            Error, TimeoutFault
<1>3. CASE ~(sk_err # NoErr /\ ~q)
  <2>1. PICK l \in {"end", "recv"}, e \in MaybeErr :
          /\ rcv' = [at |-> l, vlen |-> n, datagrams |-> 0, one |-> w,
                     dontwait |-> d, errqueue |-> q, timer |-> k,
                     err |-> e, taken |-> 0, ret |-> 0]
          /\ l = "recv" => e = NoErr
    <3>1. CASE n = 0
      <4>1. rcv' = [at |-> "end", vlen |-> n, datagrams |-> 0, one |-> w,
                    dontwait |-> d, errqueue |-> q, timer |-> k,
                    err |-> IF q THEN "call" ELSE NoErr, taken |-> 0, ret |-> 0]
        BY <1>1, <1>3, <3>1 DEF RecvIdle
      <4>2. (IF q THEN "call" ELSE NoErr) \in MaybeErr
        BY DEF MaybeErr, Errs
      <4> QED
        BY <4>1, <4>2
    <3>2. CASE n # 0
      <4>1. rcv' = [at |-> "recv", vlen |-> n, datagrams |-> 0, one |-> w,
                    dontwait |-> d, errqueue |-> q, timer |-> k,
                    err |-> NoErr, taken |-> 0, ret |-> 0]
        BY <1>1, <1>3, <3>2 DEF RecvIdle
      <4> QED
        BY <1>0, <4>1
    <3> QED
      BY <3>1, <3>2
  <2>2. /\ rcv' \in RecvRecords /\ rcv'.at = l /\ rcv'.err = e /\ rcv'.taken = 0
        /\ rcv'.datagrams = 0 /\ rcv'.errqueue = q
    <3>1. n \in Nat /\ 0 \in Int
      OBVIOUS
    <3> QED
      BY <2>1, <3>1, ZenonT(30) DEF RecvRecords
  <2>3. UNCHANGED <<sk_err, owed>> /\ (owed # NoErr => q)
    BY <1>1, <1>3 DEF RecvInv, ErrorIsKept
  <2> QED
    BY <1>0, <2>1, <2>2, <2>3 DEF RecvInv, RecvTypes, RecvProgress, TakenAreCounted, ErrorIsKept
<1> QED
  BY <1>2, <1>3

(* The error the protocol reports, EAGAIN or the datagram. *)
LEMMA RecvOne == RecvInv /\ sys_recvmsg => RecvInv'
<1> SUFFICES ASSUME RecvInv, sys_recvmsg PROVE RecvInv'
  OBVIOUS
<1> USE DEF RecvInv, RecvTypes
<1>0. "call" \in Errs /\ NoErr \in MaybeErr /\ (sk_err # NoErr => sk_err \in Errs)
  BY DEF Errs, MaybeErr
<1>1. CASE RecvHeader
  <2>1. rcv.at = "recv" /\ UNCHANGED <<queue, sk_err, owed>>
    BY <1>1 DEF RecvHeader
  <2>2. CASE RecvError("call")
    BY <1>0, <2>1, <2>2, RecvFields DEF RecvProgress, TakenAreCounted, ErrorIsKept, NoErr
  <2>3. CASE rcv' = [rcv EXCEPT !.at = "wait"]
    BY <2>1, <2>3, RecvFields DEF RecvProgress, TakenAreCounted, ErrorIsKept
  <2> QED
    BY <1>1, <2>2, <2>3 DEF RecvHeader
<1>2. CASE RecvWait
  <2>1. rcv.at = "wait" /\ ~rcv.errqueue
    BY <1>2 DEF RecvWait
  <2>2. CASE sk_err # NoErr /\ RecvError(sk_err) /\ sock_error /\ UNCHANGED queue
    BY <1>0, <2>1, <2>2, RecvFields, ErrorHanded DEF RecvProgress, TakenAreCounted, ErrorIsKept
  <2>3. CASE rcv' = [rcv EXCEPT !.at = "end"] /\ UNCHANGED <<queue, sk_err, owed>>
    BY <2>1, <2>3, RecvFields DEF RecvProgress, TakenAreCounted, ErrorIsKept
  <2>4. CASE queue > 0 /\ queue' = queue - 1 /\ RecvTake /\ UNCHANGED <<sk_err, owed>>
    BY <2>1, <2>4, RecvFields DEF RecvProgress, TakenAreCounted, ErrorIsKept
  <2> QED
    BY <1>2, <2>2, <2>3, <2>4 DEF RecvWait
<1>3. CASE RecvErrqueue
  <2>1. rcv.at = "wait" /\ rcv.errqueue /\ UNCHANGED queue
    BY <1>3 DEF RecvErrqueue
  <2>2. CASE rcv' = [rcv EXCEPT !.at = "end"] /\ UNCHANGED <<sk_err, owed>>
    BY <2>1, <2>2, RecvFields DEF RecvProgress, TakenAreCounted, ErrorIsKept
  <2>3. CASE RecvTake /\ UNCHANGED <<sk_err, owed>>
    BY <2>1, <2>3, RecvFields DEF RecvProgress, TakenAreCounted, ErrorIsKept
  <2>4. CASE RecvTake /\ sock_error
    BY <1>0, <2>1, <2>4, RecvFields, ErrorHanded DEF RecvProgress, TakenAreCounted, ErrorIsKept
  <2> QED
    BY <1>3, <2>2, <2>3, <2>4 DEF RecvErrqueue
<1> QED
  BY <1>1, <1>2, <1>3 DEF sys_recvmsg

(* The count goes up with the datagram, or the call fails there. *)
LEMMA RecvCounts == RecvInv /\ RecvCount => RecvInv'
<1> SUFFICES ASSUME RecvInv, RecvCount PROVE RecvInv'
  OBVIOUS
<1> USE DEF RecvInv, RecvTypes
<1>0. rcv.at = "got" /\ UNCHANGED <<queue, sk_err, owed>> /\ "call" \in Errs
  BY DEF RecvCount, Errs
<1>1. CASE RecvError("call")
  BY <1>0, <1>1, RecvFields DEF RecvProgress, TakenAreCounted, ErrorIsKept, NoErr
<1>2. CASE ~RecvError("call")
  <2>1. PICK w \in BOOLEAN, l \in {"end", "recv"} :
          rcv' = [rcv EXCEPT !.datagrams = rcv.datagrams + 1, !.dontwait = w, !.at = l]
    <3>1. (rcv.dontwait \/ rcv.one) \in BOOLEAN
      OBVIOUS
    <3> QED
      BY <1>2, <3>1 DEF RecvCount
  <2>2. rcv.datagrams + 1 \in Nat
    BY DEF RecvRecords
  <2>3. /\ rcv' \in RecvRecords /\ rcv'.at = l /\ rcv'.err = rcv.err
        /\ rcv'.taken = rcv.taken /\ rcv'.datagrams = rcv.datagrams + 1
        /\ rcv'.errqueue = rcv.errqueue
    BY <2>1, <2>2 DEF RecvRecords
  <2> QED
    BY <1>0, <2>1, <2>3 DEF RecvProgress, TakenAreCounted, ErrorIsKept
<1> QED
  BY <1>1, <1>2

(* The answer is built from the count; a deferred error goes to sk_err. *)
LEMMA RecvAnswers == RecvInv /\ (RecvReturn \/ RecvBack) => RecvInv'
<1> SUFFICES ASSUME RecvInv, RecvReturn \/ RecvBack PROVE RecvInv'
  OBVIOUS
<1> USE DEF RecvInv, RecvTypes
<1>1. CASE RecvReturn
  <2>1. PICK fault \in CopyBackFails :
          rcv' = [rcv EXCEPT !.at = "back", !.ret = Answer(fault)]
    BY <1>1 DEF RecvReturn, RecvAnswer
  <2>2. fault => rcv.timer # "none" /\ rcv.datagrams > 0
    BY DEF CopyBackFails
  <2>3. rcv.datagrams \in Nat /\ rcv.taken \in Nat /\ rcv.at = "end"
    BY <1>1 DEF RecvReturn, RecvRecords
  <2>4. Answer(fault) \in Int
    BY <2>3 DEF Answer, Error, TimeoutFault
  <2>5. /\ rcv' \in RecvRecords /\ rcv'.at = "back" /\ rcv'.err = rcv.err
        /\ rcv'.taken = rcv.taken /\ rcv'.datagrams = rcv.datagrams
        /\ rcv'.timer = rcv.timer /\ rcv'.ret = Answer(fault)
    BY <2>1, <2>4 DEF RecvRecords
  <2>6. TakenAreCounted'
    <3>1. CASE fault
      BY <2>2, <2>5, <3>1 DEF TakenAreCounted, Answer, Error, TimeoutFault
    <3>2. CASE ~fault /\ Answer(fault) = Error
      <4>1. rcv.datagrams = 0
        BY <2>3, <3>2 DEF Answer, Error, TimeoutFault
      <4> QED
        BY <2>3, <2>5, <3>2, <4>1 DEF TakenAreCounted, RecvProgress, Error, TimeoutFault
    <3>3. CASE ~fault /\ Answer(fault) # Error
      <4>1. Answer(fault) = rcv.datagrams
        BY <3>3 DEF Answer
      <4> QED
        BY <2>3, <2>5, <4>1 DEF TakenAreCounted, RecvProgress, Error, TimeoutFault
    <3> QED
      BY <3>1, <3>2, <3>3
  <2>7. /\ queue' = queue
        /\ sk_err' = IF Deferred THEN rcv.err ELSE sk_err
        /\ owed' = IF Deferred THEN rcv.err ELSE owed
    BY <1>1 DEF RecvReturn
  <2>8. rcv.err \in MaybeErr
    BY DEF RecvRecords
  <2>9. ErrorIsKept'
    BY <2>5, <2>7 DEF ErrorIsKept
  <2> QED
    BY <2>5, <2>6, <2>7, <2>8, <2>9 DEF RecvProgress
<1>2. CASE RecvBack
  <2>1. rcv' = RecvIdle /\ UNCHANGED <<queue, sk_err, owed>>
    BY <1>2 DEF RecvBack
  <2>2. rcv' \in RecvRecords /\ rcv'.at = "user"
    BY <2>1 DEF RecvIdle, RecvRecords, MaybeErr
  <2> QED
    BY <2>1, <2>2 DEF RecvProgress, TakenAreCounted, ErrorIsKept
<1> QED
  BY <1>1, <1>2

(* Every step of recvmmsg, whatever the network puts into the queue and    *)
(* into sk_err, keeps its invariant.                                       *)
LEMMA RecvStep == RecvInv /\ sys_recvmmsg => RecvInv'
  BY RecvCall, RecvOne, RecvCounts, RecvAnswers DEF sys_recvmmsg

(* Time and the network, which replaces the error that is there. *)
LEMMA NetStep == RecvInv /\ Network => RecvInv'
<1> SUFFICES ASSUME RecvInv, Network PROVE RecvInv'
  OBVIOUS
<1> USE DEF RecvInv, RecvTypes
<1>1. CASE Expire
  <2>1. /\ rcv' = [rcv EXCEPT !.timer = "over"] /\ UNCHANGED <<queue, sk_err, owed>>
    BY <1>1 DEF Expire
  <2>2. /\ rcv' \in RecvRecords /\ rcv'.at = rcv.at /\ rcv'.err = rcv.err
        /\ rcv'.taken = rcv.taken /\ rcv'.datagrams = rcv.datagrams
        /\ rcv'.errqueue = rcv.errqueue /\ rcv'.ret = rcv.ret /\ rcv'.timer = "over"
    BY <2>1 DEF RecvRecords
  <2> QED
    BY <2>1, <2>2 DEF RecvProgress, TakenAreCounted, ErrorIsKept
<1>2. CASE DatagramArrives
  BY <1>2, MessagesAssumption DEF DatagramArrives, RecvProgress, TakenAreCounted, ErrorIsKept
<1>3. CASE NetError
  BY <1>3 DEF NetError, RecvProgress, TakenAreCounted, ErrorIsKept, MaybeErr, Errs, NoErr
<1> QED
  BY <1>1, <1>2, <1>3 DEF Network

(* The sender touches nothing the receiver looks at. *)
LEMMA QueueStep == RecvInv /\ sys_sendmmsg => RecvInv'
<1> SUFFICES ASSUME RecvInv, sys_sendmmsg PROVE RecvInv'
  OBVIOUS
<1>1. UNCHANGED <<rcv, queue, sk_err, owed>>
  BY DEF sys_sendmmsg, sendmmsg, copy_msghdr_from_user, SendControl,
         SendAsk, SendProto, SendFailed, SendCount, SendReturn
<1> QED
  BY <1>1 DEF RecvInv, RecvTypes, RecvProgress, TakenAreCounted, ErrorIsKept

LEMMA MsgInvariant == MsgSpec => [](SendInv /\ RecvInv)
<1>1. SendInv /\ RecvInv /\ [MsgNext]_msg_vars => (SendInv /\ RecvInv)'
  <2> SUFFICES ASSUME SendInv, RecvInv, [MsgNext]_msg_vars PROVE SendInv' /\ RecvInv'
    OBVIOUS
  <2>1. CASE sys_sendmmsg
    BY <2>1, SendStep, QueueStep
  <2>2. ASSUME UNCHANGED snd PROVE SendInv'
    BY <2>2 DEF SendInv, SendTypes, Approved, SentAreApproved, SendProgress, Buffers, Entry
  <2>3. CASE sys_recvmmsg
    <3>1. UNCHANGED snd
      BY <2>3 DEF sys_recvmmsg, recvmmsg, sys_recvmsg, RecvHeader, RecvWait, RecvErrqueue,
                  RecvCount, RecvReturn, RecvBack
    <3> QED
      BY <2>2, <2>3, <3>1, RecvStep
  <2>4. CASE Network
    BY <2>2, <2>4, NetStep DEF Network, Expire, DatagramArrives, NetError
  <2>5. CASE UNCHANGED msg_vars
    BY <2>2, <2>5 DEF msg_vars, RecvInv, RecvTypes, RecvProgress, TakenAreCounted, ErrorIsKept
  <2> QED
    BY <2>1, <2>3, <2>4, <2>5 DEF MsgNext
<1> QED
  BY <1>1, MsgInitInv, PTL DEF MsgSpec

(* No datagram of any batch goes to a destination the LSM was not asked    *)
(* about in the same call, although sendmmsg skips the question when the   *)
(* destination stays the same.                                             *)
THEOREM SendersAsk == MsgSpec => []SentAreApproved
<1>1. SendInv => SentAreApproved
  BY DEF SendInv, Approved
<1> QED
  BY <1>1, MsgInvariant, PTL

(* The count of sendmmsg is a prefix of the batch, short of at most one    *)
(* datagram, and no buffer of copy_msghdr_from_user or of the control data *)
(* outlives the call.                                                      *)
THEOREM SendersCount == MsgSpec => []CountIsSent
<1>1. ASSUME SendInv PROVE CountIsSent
  <2>1. /\ Len(snd.sent) \in Nat /\ snd.datagrams \in Nat
        /\ snd.at \in {"user", "end"} \union Inside /\ DOMAIN snd.sent = 1..Len(snd.sent)
    BY <1>1 DEF SendInv, SendTypes
  <2>2. Len(snd.sent) <= snd.datagrams + 1
    BY <1>1, <2>1 DEF SendInv, SendProgress, Inside
  <2>3. snd.at = "end" => snd.datagrams <= Len(snd.sent) /\ ~snd.iov /\ ~snd.ctl
    BY <1>1 DEF SendInv, SendProgress, Buffers, Buffered
  <2> QED
    BY <1>1, <2>1, <2>2, <2>3 DEF SendInv, SendProgress, CountIsSent
<1> QED
  BY <1>1, MsgInvariant, PTL

(* The answer of recvmmsg hides at most one datagram it took, the one at   *)
(* which it met an error; more than one only when the timeout cannot be    *)
(* copied back to the caller.                                              *)
THEOREM ReceiversCount == MsgSpec => []TakenAreCounted
<1>1. RecvInv => TakenAreCounted
  BY DEF RecvInv
<1> QED
  BY <1>1, MsgInvariant, PTL

(* An error behind some datagrams is not forgotten: until a call reports   *)
(* it, sk_err is that error or the latest one the network has put in its   *)
(* place, and only calls that read the error queue receive anything.       *)
THEOREM ReceiversTell == MsgSpec => []ErrorIsKept
<1>1. RecvInv => ErrorIsKept
  BY DEF RecvInv
<1> QED
  BY <1>1, MsgInvariant, PTL
=============================================================================
