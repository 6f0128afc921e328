------------------------------ MODULE Messages ------------------------------
(***************************************************************************)
(* Batches of datagrams in Project_1/backups/socket.c: one task sends with *)
(* sendmmsg, another one receives with recvmmsg on a socket of its own,    *)
(* whose queue and errors come from the network.  A datagram is its        *)
(* destination; the copies between user and kernel space, the security     *)
(* module (LSM) and the protocol may fail at every entry of a batch.       *)
(***************************************************************************)
EXTENDS Integers, Sequences

CONSTANTS Dests,      \* destinations a message may name; NoName for none
          NoName,     \* msg_name == NULL, a connected socket
          MaxVlen,    \* bound on the entries of a batch
          MaxQueue    \* bound on the receive queue of the socket

ASSUME MessagesAssumption ==
  /\ NoName \notin Dests
  /\ MaxVlen \in Nat \ {0} /\ MaxQueue \in Nat \ {0}

VARIABLES snd,    \* the sendmmsg call
          rcv,    \* the recvmmsg call
          queue,  \* datagrams in the receive queue
          sk_err, \* the error the socket holds for its next user, or NoErr
          owed    \* history: the latest error since a call of recvmmsg left
                  \* one behind that no call has reported; NoErr for none
msg_vars == <<snd, rcv, queue, sk_err, owed>>

Names == Dests \union {NoName}

(* Errors: one the call meets itself (a failed copy, the LSM's answer) and *)
(* one the network reports.                                                *)
NoErr == "none"
Errs == {"call", "net"}

(* A call of sendmmsg: the entry it is at, the last destination the LSM    *)
(* agreed to, the kernel buffers it holds and, as history, the approvals   *)
(* and the datagrams of this call.                                         *)
SendIdle == [at |-> "user", batch |-> <<>>, datagrams |-> 0, used |-> {},
             iov |-> FALSE, ctl |-> FALSE, left |-> FALSE,
             asked |-> {}, sent |-> <<>>]

(* A call of recvmmsg: its arguments, with timer "none" when there is no   *)
(* timeout, the count, the error it met and what it answers; as history,   *)
(* the datagrams it took.                                                  *)
RecvIdle == [at |-> "user", vlen |-> 0, datagrams |-> 0, one |-> FALSE,
             dontwait |-> FALSE, errqueue |-> FALSE, timer |-> "none",
             err |-> NoErr, taken |-> 0, ret |-> 0]

(* What it answers other than a count: an error, or the EFAULT of a        *)
(* timeout that cannot be copied back.                                     *)
Error == -1
TimeoutFault == -2

MsgInit ==
  /\ snd = SendIdle
  /\ rcv = RecvIdle
  /\ queue = 0
  /\ sk_err = NoErr
  /\ owed = NoErr
-----------------------------------------------------------------------------
(* sendmmsg *)

SendTo(l) == snd' = [snd EXCEPT !.at = l]

Entry == snd.batch[snd.datagrams + 1]

(* The call: vlen is cut to UIO_MAXIOV, which MaxVlen stands for. *)
sendmmsg ==
  /\ snd.at = "user"
  /\ \E n \in 1..MaxVlen : \E b \in [1..n -> Names] :
       snd' = [SendIdle EXCEPT !.at = "copy", !.batch = b]
  /\ UNCHANGED <<rcv, queue, sk_err, owed>>

(* copy_msghdr_from_user: the header, the address and the iovec, which is  *)
(* allocated when it is long; on error nothing is kept.                    *)
copy_msghdr_from_user ==
  /\ snd.at = "copy"
  /\ \/ SendTo("end")
     \/ \E long \in BOOLEAN :
          snd' = [snd EXCEPT !.at = "control", !.iov = long]
  /\ UNCHANGED <<rcv, queue, sk_err, owed>>

(* The control data: too long or no memory goes to out_freeiov, a failed   *)
(* copy to out_freectl.                                                    *)
SendControl ==
  /\ snd.at = "control"
  /\ \/ snd' = [snd EXCEPT !.at = "end", !.iov = FALSE]
     \/ \E long \in BOOLEAN :
          \/ snd' = [snd EXCEPT !.at = "ask", !.ctl = long]
          \/ snd' = [snd EXCEPT !.at = "failed", !.ctl = long]
  /\ UNCHANGED <<rcv, queue, sk_err, owed>>

(* Mutant: the LSM is asked about the first datagram only. *)
MutMustAsk == snd.used = {}

(* The LSM is asked unless the destination is the one of the last datagram *)
(* that was sent; without a name it is always asked.                       *)
MustAsk == Entry = NoName \/ Entry \notin snd.used

SendAsk ==
  /\ snd.at = "ask"
  /\ \/ ~MustAsk /\ SendTo("proto")
     \/ MustAsk /\ snd' = [snd EXCEPT !.at = "proto",
                                      !.asked = @ \union {Entry}]
     \/ MustAsk /\ SendTo("failed")
  /\ UNCHANGED <<rcv, queue, sk_err, owed>>

(* ops->sendmsg, with all or a part of the data; then the address is       *)
(* remembered and the buffers are freed.                                   *)
SendProto ==
  /\ snd.at = "proto"
  /\ \/ SendTo("failed")
     \/ \E part \in BOOLEAN :
          snd' = [snd EXCEPT !.at = "sent", !.used = {Entry},
                             !.iov = FALSE, !.ctl = FALSE, !.left = part,
                             !.sent = Append(@, Entry)]
  /\ UNCHANGED <<rcv, queue, sk_err, owed>>

(* Mutant: out_freectl frees the control data and forgets the iovec. *)
MutSendFailed ==
  /\ snd.at = "failed"
  /\ snd' = [snd EXCEPT !.at = "end", !.ctl = FALSE]
  /\ UNCHANGED <<rcv, queue, sk_err, owed>>

(* out_freectl and out_freeiov after an error. *)
SendFailed ==
  /\ snd.at = "failed"
  /\ snd' = [snd EXCEPT !.at = "end", !.iov = FALSE, !.ctl = FALSE]
  /\ UNCHANGED <<rcv, queue, sk_err, owed>>

(* The length goes to user space, and only then is the entry counted; a    *)
(* datagram sent in part ends the batch.                                   *)
SendCount ==
  /\ snd.at = "sent"
  /\ \/ SendTo("end")
     \/ LET n == snd.datagrams + 1
        IN  snd' = [snd EXCEPT !.datagrams = n,
                      !.at = IF snd.left \/ n = Len(snd.batch)
                             THEN "end" ELSE "copy"]
  /\ UNCHANGED <<rcv, queue, sk_err, owed>>

(* The count, or the error when nothing was counted. *)
SendReturn ==
  /\ snd.at = "end"
  /\ snd' = SendIdle
  /\ UNCHANGED <<rcv, queue, sk_err, owed>>

sys_sendmmsg ==
  \/ sendmmsg \/ copy_msghdr_from_user \/ SendControl \/ SendAsk
  \/ SendProto \/ SendFailed \/ SendCount \/ SendReturn
-----------------------------------------------------------------------------
(* recvmmsg *)

(* sock_error: the error is handed over and the socket forgets it, so that *)
(* nothing is owed any more.                                               *)
sock_error == sk_err' = NoErr /\ owed' = NoErr

(* The call, with or without MSG_WAITFORONE, MSG_DONTWAIT, MSG_ERRQUEUE    *)
(* and a timeout.  A timeout that cannot be read, or is not one, ends it   *)
(* before it looks at the socket, which is no step here.  An error the     *)
(* socket holds is the whole answer, except for MSG_ERRQUEUE.  An empty    *)
(* batch is over at once, and then err is still what sockfd_lookup_light   *)
(* put there (-EBADF) when sock_error was not asked.                       *)
recvmmsg ==
  /\ rcv.at = "user"
  /\ \E n \in 0..MaxVlen, w, d, q \in BOOLEAN, k \in {"none", "running"} :
       IF sk_err # NoErr /\ ~q
       THEN /\ rcv' = [RecvIdle EXCEPT !.at = "back", !.ret = Error, !.err = sk_err]
            /\ sock_error
       ELSE /\ rcv' = [RecvIdle EXCEPT
                          !.at = IF n = 0 THEN "end" ELSE "recv", !.vlen = n,
                          !.err = IF n = 0 /\ q THEN "call" ELSE NoErr,
                          !.one = w, !.dontwait = d, !.errqueue = q, !.timer = k]
            /\ UNCHANGED <<sk_err, owed>>
  /\ UNCHANGED <<snd, queue>>

(* recvmsg of one datagram: the header is copied and the LSM is asked, for *)
(* the first datagram only.                                                *)
RecvError(e) == rcv' = [rcv EXCEPT !.at = "end", !.err = e]

RecvHeader ==
  /\ rcv.at = "recv"
  /\ \/ RecvError("call")
     \/ rcv' = [rcv EXCEPT !.at = "wait"]
  /\ UNCHANGED <<snd, queue, sk_err, owed>>

RecvTake == rcv' = [rcv EXCEPT !.at = "got", !.taken = @ + 1]

(* The protocol: an error the socket holds, EAGAIN, or a datagram.  It     *)
(* waits when there is neither and it may wait.                            *)
RecvWait ==
  /\ rcv.at = "wait" /\ ~rcv.errqueue
  /\ \/ sk_err # NoErr /\ RecvError(sk_err) /\ sock_error /\ UNCHANGED queue
     \/ /\ sk_err = NoErr /\ queue = 0 /\ rcv.dontwait
        /\ rcv' = [rcv EXCEPT !.at = "end"]
        /\ UNCHANGED <<queue, sk_err, owed>>
     \/ /\ sk_err = NoErr /\ queue > 0
        /\ queue' = queue - 1 /\ RecvTake
        /\ UNCHANGED <<sk_err, owed>>
  /\ UNCHANGED snd

(* With MSG_ERRQUEUE the protocol does not wait: a record of the error     *)
(* queue or EAGAIN.  A record of an error tells the user of it, and the    *)
(* protocol may then forget sk_err.                                        *)
RecvErrqueue ==
  /\ rcv.at = "wait" /\ rcv.errqueue
  /\ \/ rcv' = [rcv EXCEPT !.at = "end"] /\ UNCHANGED <<sk_err, owed>>
     \/ RecvTake /\ UNCHANGED <<sk_err, owed>>
     \/ RecvTake /\ sock_error
  /\ UNCHANGED <<snd, queue>>

sys_recvmsg == RecvHeader \/ RecvWait \/ RecvErrqueue

(* Mutant: a fault while the answer is copied out is overlooked. *)
Mut3RecvCount ==
  /\ rcv.at = "got"
  /\ \/ rcv' = [rcv EXCEPT !.at = IF rcv.datagrams + 1 = rcv.vlen
                                 THEN "end" ELSE "recv"]
     \/ rcv' = [rcv EXCEPT !.at = "end", !.datagrams = @ + 1]
  /\ UNCHANGED <<snd, queue, sk_err, owed>>

(* Mutant: MSG_WAITFORONE does not turn into MSG_DONTWAIT. *)
MutRecvCount ==
  /\ rcv.at = "got"
  /\ \/ RecvError("call")
     \/ LET n == rcv.datagrams + 1
        IN  rcv' = [rcv EXCEPT !.datagrams = n,
                      !.at = IF rcv.timer = "over" \/ n = rcv.vlen
                             THEN "end" ELSE "recv"]
  /\ UNCHANGED <<snd, queue, sk_err, owed>>

(* The address, flags and lengths go to user space: a fault there loses    *)
(* the datagram.  Then the count, MSG_WAITFORONE, the timeout, which is    *)
(* looked at only here, and urgent data, which ends the batch.             *)
RecvCount ==
  /\ rcv.at = "got"
  /\ \/ RecvError("call")
     \/ LET n == rcv.datagrams + 1
        IN  \E oob \in BOOLEAN :
              rcv' = [rcv EXCEPT !.datagrams = n,
                        !.dontwait = @ \/ rcv.one,
                        !.at = IF rcv.timer = "over" \/ oob \/ n = rcv.vlen
                               THEN "end" ELSE "recv"]
  /\ UNCHANGED <<snd, queue, sk_err, owed>>

(* The answer: the count, or the error when nothing was counted.  A        *)
(* timeout is copied back after datagrams, and when that fails the count   *)
(* is lost.                                                                *)
Answer(fault) ==
  IF fault THEN TimeoutFault
  ELSE IF rcv.datagrams = 0 /\ (rcv.vlen > 0 \/ rcv.err # NoErr) THEN Error
  ELSE rcv.datagrams

CopyBackFails == IF rcv.timer # "none" /\ rcv.datagrams > 0 THEN BOOLEAN ELSE {FALSE}

RecvAnswer ==
  \E fault \in CopyBackFails :
    rcv' = [rcv EXCEPT !.at = "back", !.ret = Answer(fault)]

Deferred == rcv.err # NoErr /\ rcv.datagrams > 0

(* Mutant: an error after some datagrams is dropped. *)
MutRecvReturn ==
  /\ rcv.at = "end"
  /\ RecvAnswer
  /\ owed' = IF Deferred THEN rcv.err ELSE owed
  /\ UNCHANGED <<snd, queue, sk_err>>

(* An error after some datagrams, other than EAGAIN, is left in sk_err for *)
(* the next call, over whatever the network has put there meanwhile.       *)
RecvReturn ==
  /\ rcv.at = "end"
  /\ RecvAnswer
  /\ sk_err' = IF Deferred THEN rcv.err ELSE sk_err
  /\ owed' = IF Deferred THEN rcv.err ELSE owed
  /\ UNCHANGED <<snd, queue>>

RecvBack ==
  /\ rcv.at = "back"
  /\ rcv' = RecvIdle
  /\ UNCHANGED <<snd, queue, sk_err, owed>>

sys_recvmmsg == recvmmsg \/ sys_recvmsg \/ RecvCount \/ RecvReturn \/ RecvBack

(* Time passes; a datagram or an ICMP error reaches the socket. *)
Expire ==
  /\ rcv.timer = "running"
  /\ rcv' = [rcv EXCEPT !.timer = "over"]
  /\ UNCHANGED <<snd, queue, sk_err, owed>>

DatagramArrives ==
  /\ queue < MaxQueue
  /\ queue' = queue + 1
  /\ UNCHANGED <<snd, rcv, sk_err, owed>>

(* The error replaces the one that is there. *)
NetError ==
  /\ sk_err' = "net"
  /\ owed' = IF owed = NoErr THEN NoErr ELSE "net"
  /\ UNCHANGED <<snd, rcv, queue>>

Network == Expire \/ DatagramArrives \/ NetError

MsgNext == sys_sendmmsg \/ sys_recvmmsg \/ Network

(* The receiving task runs on when it can; nothing is assumed of the       *)
(* sender or the network.                                                  *)
MsgFairness == WF_msg_vars(sys_recvmsg \/ RecvCount \/ RecvReturn \/ RecvBack)

MsgSpec == MsgInit /\ [][MsgNext]_msg_vars /\ MsgFairness
-----------------------------------------------------------------------------
(* No datagram of a batch goes out to a destination the LSM was not asked  *)
(* about in this call, although it is asked again only when the            *)
(* destination changes.                                                    *)
SentAreApproved ==
  \A k \in DOMAIN snd.sent : snd.sent[k] \in snd.asked

(* The count sendmmsg returns is the length of a prefix of the batch that  *)
(* was sent in order; at most one datagram more went out, when its length  *)
(* could not be stored.  No kernel buffer outlives the call.               *)
CountIsSent ==
  /\ Len(snd.sent) <= snd.datagrams + 1
  /\ snd.at = "end" => snd.datagrams <= Len(snd.sent) /\ ~snd.iov /\ ~snd.ctl
  /\ \A k \in DOMAIN snd.sent : snd.sent[k] = snd.batch[k]

(* recvmmsg tells its caller how many datagrams it took.  The count is     *)
(* short of one only when the call met an error after it had taken that    *)
(* one; an error in place of a count hides at most that one datagram,      *)
(* except when the timeout cannot be copied back.                          *)
TakenAreCounted ==
  rcv.at = "back" =>
    CASE rcv.ret = TimeoutFault -> rcv.timer # "none" /\ rcv.datagrams > 0
      [] rcv.ret = Error        -> rcv.taken = 0 \/ (rcv.taken = 1 /\ rcv.err # NoErr)
      [] OTHER                  -> rcv.ret = rcv.taken
                                   \/ (rcv.ret + 1 = rcv.taken /\ rcv.err # NoErr)

(* An error that ended a batch after some datagrams stays in sk_err, or a  *)
(* later one of the network in its place, until a call reports it; until   *)
(* then no call receives a datagram, other than from the error queue.      *)
ErrorIsKept ==
  owed # NoErr => /\ sk_err = owed
                  /\ rcv.at \in {"recv", "wait", "got"} => rcv.errqueue

(* With MSG_WAITFORONE a call that has a datagram returns, whether or not  *)
(* another one ever comes.                                                 *)
OneIsEnough == (rcv.one /\ rcv.datagrams > 0) ~> (rcv.at = "user")
=============================================================================
