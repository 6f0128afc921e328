------------------------------ MODULE UserCopy -------------------------------
(***************************************************************************)
(* The code of Project_1/backups/socket.c that crosses the user boundary:  *)
(* the ioctl translations, the calls that run with the address limit       *)
(* raised to KERNEL_DS, and the socket addresses.  A step is a statement   *)
(* that may fail, a change of the limit or of the rtnl lock; each function *)
(* says where it goes on after it, and where after an error.  Counts and   *)
(* lengths lie in memory of the caller, which another thread of it may     *)
(* change between any two steps.                                           *)
(***************************************************************************)
EXTENDS Integers

CONSTANTS Word,       \* 2^32 in the code: an unsigned count wraps here
          MaxRules,   \* KMALLOC_MAX_SIZE / sizeof(u32)
          MaxAddr,    \* sizeof(struct sockaddr_storage)
          MaxCount    \* bound on what the memory of the caller may hold

ASSUME UserCopyAssumption ==
  /\ {Word, MaxRules, MaxAddr, MaxCount} \subseteq Nat
  /\ MaxRules < MaxCount /\ MaxAddr < MaxCount /\ MaxCount < Word

VARIABLES io,     \* the call
          umem,   \* the count or length in the caller's own struct
          rxmem   \* rule_cnt in the struct made for the call, also user memory
io_vars == <<io, umem, rxmem>>

(* fn: the function that runs; at: its next statement; err: whether one    *)
(* has failed; fs: the address limit; entry: what it was when the call     *)
(* began; old: the local variable it is noted in; size: the room of the    *)
(* object at hand; copied: how much of it went across.                     *)
IoIdle == [fn |-> "none", at |-> "idle", err |-> FALSE, fs |-> "user",
           entry |-> "user", old |-> "user", rtnl |-> FALSE,
           size |-> 0, copied |-> 0]

(* What the caller may have put in its memory, -1 included. *)
Counts == -1..MaxCount

IoInit == io = IoIdle /\ umem = 0 /\ rxmem = 0

(* A count that is an unsigned int. *)
Unsigned(c) == c % Word

At(f, l) == io.fn = f /\ io.at = l

Goto(l) == io' = [io EXCEPT !.at = l]

(* A copy, the protocol or the device: on to ok, or with an error to bad.  *)
(* A run of copies that fail alike is one statement.                       *)
Try(f, l, ok, bad) ==
  /\ At(f, l)
  /\ Goto(ok) \/ io' = [io EXCEPT !.at = bad, !.err = TRUE]

(* set_fs(KERNEL_DS), once the old limit is noted, and set_fs(old_fs). *)
RaiseLimit(f, l, next) ==
  At(f, l) /\ io' = [io EXCEPT !.at = next, !.old = io.fs, !.fs = "kernel"]
RestoreLimit(f, l, next) ==
  At(f, l) /\ io' = [io EXCEPT !.at = next, !.fs = io.old]

rtnl_lock(f, l, next) == At(f, l) /\ io' = [io EXCEPT !.at = next, !.rtnl = TRUE]
rtnl_unlock(f, l, next) == At(f, l) /\ io' = [io EXCEPT !.at = next, !.rtnl = FALSE]
-----------------------------------------------------------------------------
(* sock_do_ioctl, called with a pointer of the caller or with an object on *)
(* the kernel stack, of which it takes a struct ifreq whatever its size.   *)

Stamps == {"do_siocgstamp", "do_siocgstampns"}
IfreqLen == 40
Room(f) == IF f \in Stamps THEN 16 ELSE IF f = "routing_ioctl" THEN 80 ELSE IfreqLen

IfreqCopy(f, l, ok) ==
  /\ At(f, l)
  /\ \/ io' = [io EXCEPT !.at = ok, !.size = Room(f), !.copied = IfreqLen]
     \/ io' = [io EXCEPT !.at = "sd_return", !.err = TRUE]

(* The protocol's answer is final unless it is ENOIOCTLCMD.  SIOCGIFCONF   *)
(* comes from the caller only.                                             *)
sock_do_ioctl(f) ==
  \/ Try(f, "sd_proto", "sd_return", "sd_return")
  \/ At(f, "sd_proto") /\ f = "sock_do_ioctl" /\ Goto("sd_ifconf")
  \/ Try(f, "sd_ifconf", "sd_lock", "sd_return")
  \/ rtnl_lock(f, "sd_lock", "sd_dev_ifconf")
  \/ Try(f, "sd_dev_ifconf", "sd_unlock", "sd_unlock")
  \/ rtnl_unlock(f, "sd_unlock", IF io.err THEN "sd_return" ELSE "sd_ifconf_out")
  \/ Try(f, "sd_ifconf_out", "sd_return", "sd_return")
  \/ At(f, "sd_proto") /\ Goto("sd_ifreq")
  \/ IfreqCopy(f, "sd_ifreq", "sd_dev")
  \/ \E out \in {"sd_ifreq_out", "sd_return"} : Try(f, "sd_dev", out, "sd_return")
  \/ IfreqCopy(f, "sd_ifreq_out", "sd_return")

(* Called by sock_ioctl and compat_sock_ioctl_trans, nothing is left to do. *)
SockDoIoctl ==
  LET f == "sock_do_ioctl"
  IN  sock_do_ioctl(f) \/ (At(f, "sd_return") /\ Goto("done"))

(* Mutant: an error of the inner call returns at once. *)
Mutdo_siocgstamp(f) ==
  \/ RaiseLimit(f, "in", "sd_proto")
  \/ sock_do_ioctl(f)
  \/ IF io.err THEN At(f, "sd_return") /\ Goto("done")
     ELSE RestoreLimit(f, "sd_return", "out")
  \/ Try(f, "out", "done", "done")

do_siocgstamp(f) ==
  \/ RaiseLimit(f, "in", "sd_proto")
  \/ sock_do_ioctl(f)
  \/ RestoreLimit(f, "sd_return", IF io.err THEN "done" ELSE "out")
  \/ Try(f, "out", "done", "done")

routing_ioctl ==
  LET f == "routing_ioctl"
  IN  \/ Try(f, "in", "set_fs", "done")
      \/ RaiseLimit(f, "set_fs", "sd_proto")
      \/ sock_do_ioctl(f)
      \/ RestoreLimit(f, "sd_return", "done")
-----------------------------------------------------------------------------
(* The other translations. *)

compat_dev_ifconf ==
  LET f == "compat_dev_ifconf"
  IN  \/ Try(f, "in", "lock", "done")
      \/ rtnl_lock(f, "lock", "dev")
      \/ Try(f, "dev", "unlock", "unlock")
      \/ rtnl_unlock(f, "unlock", IF io.err THEN "done" ELSE "out")
      \/ Try(f, "out", "done", "done")

compat_siocwandev ==
  LET f == "compat_siocwandev"
  IN  Try(f, "in", "dev", "done") \/ Try(f, "dev", "out", "done") \/ Try(f, "out", "done", "done")

compat_ifr_data_ioctl ==
  LET f == "compat_ifr_data_ioctl"
  IN  Try(f, "in", "dev", "done") \/ Try(f, "dev", "done", "done")

(* The map is copied out only for SIOCGIFMAP. *)
compat_sioc_ifmap ==
  LET f == "compat_sioc_ifmap"
  IN  \/ Try(f, "in", "dev", "done")
      \/ \E out \in {"out", "done"} : Try(f, "dev", out, "done")
      \/ Try(f, "out", "done", "done")

old_bridge_ioctl == Try("old_bridge_ioctl", "in", "done", "done")

(* get_user(rule_cnt): the size of the buffer comes from this read.  A     *)
(* count that is too large ends the call, as a fault does.                 *)
IoCount(f, l, ok) ==
  /\ At(f, l)
  /\ \/ /\ Unsigned(umem) <= MaxRules
        /\ io' = [io EXCEPT !.at = ok, !.size = Unsigned(umem)]
     \/ io' = [io EXCEPT !.at = "done", !.err = TRUE]
  /\ UNCHANGED rxmem

(* copy_in_user reads the count a second time. *)
IoRefetch(f, l, ok) ==
  /\ Try(f, l, ok, "done")
  /\ rxmem' \in {rxmem, umem}

(* The driver stores how many rules there are. *)
IoDevice(f, l, next) ==
  /\ \E ok \in next : Try(f, l, ok, "done")
  /\ UNCHANGED rxmem \/ rxmem' \in Counts

(* Mutant: the count that is found afterwards is taken as it is. *)
MutIoRules(f, l) ==
  /\ At(f, l)
  /\ io' = [io EXCEPT !.at = "done", !.copied = Unsigned(rxmem)]
  /\ UNCHANGED rxmem

(* The rules are copied out: as many as the third read reports, but never  *)
(* more than the buffer was made for.                                      *)
IoRules(f, l) ==
  /\ At(f, l)
  /\ \/ io' = [io EXCEPT !.at = "done", !.copied =
                 IF Unsigned(rxmem) < io.size THEN Unsigned(rxmem) ELSE io.size]
     \/ io' = [io EXCEPT !.at = "done", !.err = TRUE]
  /\ UNCHANGED rxmem

(* Commands without padding, the deletion of a rule, the other commands on *)
(* rules, and the one that returns all of them: ethcmd is known after the  *)
(* first reads, and only the last one has counted.                         *)
EthtoolCmds == {"ethtool_plain", "ethtool_del", "ethtool_rule", "ethtool_all"}
ethtool_ioctl(f) ==
  \/ /\ Try(f, "in", CASE f = "ethtool_all" -> "count" [] OTHER -> "name", "done")
     /\ UNCHANGED rxmem
  \/ IoCount(f, "count", "name")
  \/ /\ Try(f, "name", IF f = "ethtool_plain" THEN "dev" ELSE "refetch", "done")
     /\ UNCHANGED rxmem
  \/ IoRefetch(f, "refetch", "dev")
  \/ IoDevice(f, "dev", IF f \in {"ethtool_plain", "ethtool_del"} THEN {"done"} ELSE {"out"})
  \/ /\ Try(f, "out", IF f = "ethtool_all" THEN "rules" ELSE "done", "done")
     /\ UNCHANGED rxmem
  \/ IoRules(f, "rules")

(* The switch over the command; what it hands to sock_ioctl is modelled in *)
(* SocketLayer.  A command nobody knows is ENOIOCTLCMD.                    *)
Translated ==
  {"sock_do_ioctl", "routing_ioctl", "compat_dev_ifconf", "compat_siocwandev",
   "compat_ifr_data_ioctl", "compat_sioc_ifmap", "old_bridge_ioctl"}
  \union Stamps \union EthtoolCmds

First(f) == IF f = "sock_do_ioctl" THEN "sd_proto" ELSE "in"

compat_sock_ioctl_trans ==
  \E f \in Translated : io' = [io EXCEPT !.fn = f, !.at = First(f)]

(* The protocol's own translation, and that of the wireless extensions,    *)
(* come first and may be the whole answer.                                 *)
compat_sock_ioctl ==
  LET f == "compat_sock_ioctl"
  IN  Try(f, "in", "done", "done") \/ (At(f, "in") /\ compat_sock_ioctl_trans)
-----------------------------------------------------------------------------
(* Calls of the kernel itself: the protocol uses a kernel object with the  *)
(* accessors for user memory.                                              *)
KernelCalls == {"kernel_getsockopt", "kernel_setsockopt", "kernel_recvmsg"}

KernelCall(f) ==
  \/ RaiseLimit(f, "in", "proto")
  \/ Try(f, "proto", "restore", "restore")
  \/ RestoreLimit(f, "restore", "done")

kernel_getsockopt == KernelCall("kernel_getsockopt")
kernel_setsockopt == KernelCall("kernel_setsockopt")
kernel_recvmsg == KernelCall("kernel_recvmsg")

(* An address of the caller becomes one of the kernel (bind, connect).  The *)
(* length is a register here, and 0 copies nothing.                        *)
move_addr_to_kernel ==
  LET f == "move_addr_to_kernel"
  IN  \/ /\ At(f, "in")
         /\ \/ \E ulen \in 0..MaxAddr :
                 io' = [io EXCEPT !.at = "proto", !.size = MaxAddr, !.copied = ulen]
            \/ io' = [io EXCEPT !.at = "done", !.err = TRUE]
         /\ UNCHANGED umem
      \/ Try(f, "proto", "done", "done") /\ UNCHANGED umem

(* And the reverse (getsockname): the length is read, cut to that of the   *)
(* address, tested, and at the end the true length is stored over whatever *)
(* the caller's memory holds.                                              *)
move_addr_to_user ==
  LET f == "move_addr_to_user"
  IN  \/ Try(f, "in", "getlen", "done") /\ UNCHANGED umem
      \/ /\ At(f, "getlen")
         /\ \E klen \in 0..MaxAddr :
              LET len == IF umem > klen THEN klen ELSE umem
              IN  \/ len >= 0 /\ io' = [io EXCEPT !.at = "out", !.size = klen, !.copied = len]
                  \/ io' = [io EXCEPT !.at = "done", !.err = TRUE]
         /\ UNCHANGED umem
      \/ Try(f, "out", "putlen", "done") /\ UNCHANGED umem
      \/ At(f, "putlen") /\ umem' = io.size /\ Goto("done")
      \/ At(f, "putlen") /\ io' = [io EXCEPT !.at = "done", !.err = TRUE] /\ UNCHANGED umem
-----------------------------------------------------------------------------
(* A user call begins under the user limit, a call of the kernel itself    *)
(* under the limit its caller happens to run with.                         *)
UserCalls == {"compat_sock_ioctl", "sock_do_ioctl", "move_addr_to_kernel", "move_addr_to_user"}

IoStart ==
  /\ io.at = "idle"
  /\ \/ \E f \in UserCalls : io' = [IoIdle EXCEPT !.fn = f, !.at = First(f)]
     \/ \E f \in KernelCalls, l \in {"user", "kernel"} :
          io' = [IoIdle EXCEPT !.fn = f, !.at = "in", !.fs = l, !.entry = l]
  /\ UNCHANGED <<umem, rxmem>>

IoReturn ==
  /\ io.at = "done"
  /\ io' = IoIdle
  /\ UNCHANGED <<umem, rxmem>>

(* The functions that leave the memory of the caller alone. *)
IoCopy ==
  /\ \/ SockDoIoctl \/ routing_ioctl \/ compat_dev_ifconf \/ compat_siocwandev
     \/ compat_ifr_data_ioctl \/ compat_sioc_ifmap \/ old_bridge_ioctl \/ compat_sock_ioctl
     \/ kernel_getsockopt \/ kernel_setsockopt \/ kernel_recvmsg
     \/ \E f \in Stamps : do_siocgstamp(f)
  /\ UNCHANGED <<umem, rxmem>>

IoEthtool == (\E f \in EthtoolCmds : ethtool_ioctl(f)) /\ UNCHANGED umem

IoAddress == (move_addr_to_kernel \/ move_addr_to_user) /\ UNCHANGED rxmem

(* Another thread of the caller writes to the shared memory. *)
CallerWrites ==
  /\ \/ umem' \in Counts /\ UNCHANGED rxmem
     \/ rxmem' \in Counts /\ UNCHANGED umem
  /\ UNCHANGED io

IoNext == IoStart \/ IoCopy \/ IoEthtool \/ IoAddress \/ IoReturn \/ CallerWrites

IoSpec == IoInit /\ [][IoNext]_io_vars
-----------------------------------------------------------------------------
(* The statements that copy: those of sock_do_ioctl to and from its        *)
(* argument, the protocol of a kernel call, and all the others from and to *)
(* the caller.                                                             *)
ArgCopies == {"sd_ifconf", "sd_ifconf_out", "sd_ifreq", "sd_ifreq_out"}
OnKernelObject ==
  \/ io.at \in ArgCopies /\ io.fn # "sock_do_ioctl"
  \/ io.at = "proto" /\ io.fn \in KernelCalls
OnUserPointer ==
  \/ io.at \in ArgCopies /\ io.fn = "sock_do_ioctl"
  \/ io.at \in {"in", "name", "refetch", "getlen", "out", "rules", "putlen"}
     /\ io.fn \notin Stamps \union KernelCalls
  \/ io.at = "out" /\ io.fn \in Stamps

(* A pointer of the caller is used only under the user limit and an object *)
(* of the kernel only under the raised one, and every call returns, on     *)
(* every path, with the limit it came with and without the rtnl lock       *)
(* (set_fs and rtnl_lock around calls that may fail).                      *)
LimitFits ==
  /\ OnUserPointer => io.fs = "user"
  /\ OnKernelObject => io.fs = "kernel"
  /\ io.at = "done" => io.fs = io.entry /\ ~io.rtnl

(* However the memory of the caller changes between the reads, no more is  *)
(* copied than the object has room for, and a buffer made for the caller   *)
(* is in range (the second and third read of rule_cnt, the clipped address *)
(* length).  It is not so for the timestamps, whose 16 bytes a protocol    *)
(* without SIOCGSTAMP lets sock_do_ioctl take for a struct ifreq.          *)
CopyFits ==
  io.fn \notin Stamps =>
    /\ 0 <= io.copied /\ io.copied <= io.size
    /\ io.fn \in EthtoolCmds => io.size <= MaxRules
    /\ io.fn \in {"move_addr_to_kernel", "move_addr_to_user"} => io.size <= MaxAddr
=============================================================================
