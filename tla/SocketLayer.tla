---------------------------- MODULE SocketLayer ----------------------------
(***************************************************************************)
(* The socket layer kept in Project_1/backups/socket.c (net/socket.c with  *)
(* the two printk calls of the exercise): threads that share a descriptor  *)
(* table create, use, accept and close sockets, while the module of the    *)
(* protocol family and the module behind an ioctl hook are loaded and      *)
(* removed.  Every call that can fail may fail.  What is told apart is who *)
(* owns which descriptor, file, inode and module reference, not the data.  *)
(***************************************************************************)
EXTENDS Integers, FiniteSets, Sequences, SequencesExt

CONSTANTS Threads,   \* tasks that share one files_struct, so fdget counts
          Fds,       \* descriptor numbers
          Tty,       \* a descriptor that is open on something else
          Socks      \* inodes of sockfs; a socket's file has its number

ASSUME TableAssumption == Tty \in Fds /\ Fds \subseteq Nat
ASSUME SocksAssumption == Socks \subseteq Nat \ {0}
ASSUME FiniteAssumption ==
  IsFiniteSet(Threads) /\ IsFiniteSet(Fds) /\ IsFiniteSet(Socks)

(* Entries of the descriptor table that are no socket. *)
Free   == 0
Taken  == -1     \* reserved by get_unused_fd_flags, no file yet
Other  == -2     \* a file that is not a socket

VARIABLES fdt,    \* fdt[d]: Free, Taken, Other or the number of the socket's file
          refs,   \* refs[s]: f_count of the file of socket s
          sock,   \* sock[s]: none, bare (inode only), ops, open (ops and file)
          mod,    \* the protocol module: [st, refs, reg]
          hook,   \* an ioctl hook and its module: [st, set, owner of mutex]
          th      \* th[t]: where the task is and what it holds
vars == <<fdt, refs, sock, mod, hook, th>>

Idle == [at |-> "user", call |-> "none", rest |-> <<>>,
         held |-> {}, new |-> <<>>, fds |-> <<>>]

Init ==
  /\ fdt = [d \in Fds |-> IF d = Tty THEN Other ELSE Free]
  /\ refs = [s \in Socks |-> 0]
  /\ sock = [s \in Socks |-> "none"]
  /\ mod = [st |-> "out", refs |-> 0, reg |-> FALSE]
  /\ hook = [st |-> "out", set |-> FALSE, mutex |-> {}]
  /\ th = [t \in Threads |-> Idle]

-----------------------------------------------------------------------------
(* Moves of one task. *)

At(t, l) == th[t].at = l

Go(t, l) == th' = [th EXCEPT ![t].at = l]

Owns(s) == sock[s] \in {"ops", "open"}    \* sock->ops is set

(* __sock_release on each of socks and, through sock_close, on each socket *)
(* whose file loses its last reference: ops->release, ops = NULL,          *)
(* module_put(owner).  A socket without file gives its inode back here, one *)
(* with a file when the file goes.                                         *)
sock_release(files, socks, puts) ==
  LET closed == {s \in files : refs[s] = 1}
      gone   == closed \union socks
  IN  /\ sock' = [s \in Socks |-> IF s \in gone THEN "none" ELSE sock[s]]
      /\ refs' = [s \in Socks |-> IF s \in files THEN refs[s] - 1 ELSE refs[s]]
      /\ mod'  = [mod EXCEPT !.refs =
                    @ - puts - Cardinality({s \in gone : Owns(s)})]

(* The task returns to user space after fput of files, sock_release of     *)
(* socks and put_unused_fd of fds.                                         *)
Return(t, files, socks, fds) ==
  /\ sock_release(files, socks, 0)
  /\ fdt' = [d \in Fds |-> IF d \in fds THEN Free ELSE fdt[d]]
  /\ th' = [th EXCEPT ![t] = Idle]
  /\ UNCHANGED hook

(* get_unused_fd_flags: the lowest free number, or EMFILE when none is. *)
FreeFds == {d \in Fds : fdt[d] = Free}
TakeFd(t, l) ==
  /\ FreeFds # {}
  /\ LET d == CHOOSE x \in FreeFds : \A y \in FreeFds : x <= y
     IN  /\ fdt' = [fdt EXCEPT ![d] = Taken]
         /\ th' = [th EXCEPT ![t].fds = Append(@, d), ![t].at = l]
  /\ UNCHANGED <<refs, sock, mod, hook>>

(* sock_alloc_file when it succeeds: one reference, for fd_install. *)
sock_alloc_file(t, s, l) ==
  /\ sock' = [sock EXCEPT ![s] = "open"]
  /\ refs' = [refs EXCEPT ![s] = 1]
  /\ Go(t, l)
  /\ UNCHANGED <<fdt, mod, hook>>

(* A new inode of sockfs has no ops, no sk and no file. *)
sock_alloc_inode(s, st) == sock' = [sock EXCEPT ![s] = st]

(* sock_alloc: an inode that is not in use; the caller may set ops at once. *)
sock_alloc(s, st) ==
  /\ sock[s] = "none"
  /\ \A x \in Socks : x < s => sock[x] # "none"
  /\ sock_alloc_inode(s, st)

New1(t) == th[t].new[1]
New2(t) == th[t].new[2]
Reserved(t) == ToSet(th[t].fds)
-----------------------------------------------------------------------------
(* __sock_create, for socket() and for each half of socketpair(). *)

(* When __sock_create fails it has released its own socket; socketpair then *)
(* releases the first socket and gives both descriptors back.              *)
CreateFails(t, own, puts) ==
  LET first == IF th[t].call = "socketpair" /\ Len(th[t].new) = 2
               THEN {New1(t)} ELSE {}
  IN  /\ sock_release({}, own \union first, puts)
      /\ fdt' = [d \in Fds |-> IF d \in Reserved(t) THEN Free ELSE fdt[d]]
      /\ th' = [th EXCEPT ![t] = Idle]
      /\ UNCHANGED hook

Own(t) == {Last(th[t].new)}

(* The range checks, security_socket_create and sock_alloc. *)
CreateAlloc(t) ==
  /\ At(t, "create")
  /\ \/ \E s \in Socks :
          /\ sock_alloc(s, "bare")
          /\ th' = [th EXCEPT ![t].new = Append(@, s), ![t].at = "family"]
          /\ UNCHANGED <<fdt, refs, mod, hook>>
     \/ \* EAFNOSUPPORT, EINVAL, the LSM or ENFILE; nothing of its own yet
        /\ sock_release({}, ToSet(th[t].new), 0)
        /\ fdt' = [d \in Fds |-> IF d \in Reserved(t) THEN Free ELSE fdt[d]]
        /\ th' = [th EXCEPT ![t] = Idle]
        /\ UNCHANGED hook

(* sock_register, from the module's init. *)
sock_register == mod' = [mod EXCEPT !.st = "live", !.reg = TRUE]

(* request_module("net-pf-%d") for a family that is not there; it may fail. *)
RequestFamily(t) ==
  /\ At(t, "family")
  /\ \/ mod.reg /\ UNCHANGED mod
     \/ ~mod.reg /\ (UNCHANGED mod \/ (mod.st = "out" /\ sock_register))
  /\ Go(t, "rcu")
  /\ UNCHANGED <<fdt, refs, sock, hook>>

(* rcu_read_lock and the dereference of net_families[family]. *)
FindFamily(t) ==
  /\ At(t, "rcu")
  /\ IF mod.reg
     THEN Go(t, "pf") /\ UNCHANGED <<fdt, refs, sock, mod, hook>>
     ELSE CreateFails(t, Own(t), 0)

(* try_module_get(pf->owner), still in the RCU section; it fails once the  *)
(* module is on its way out.                                               *)
GetFamily(t) ==
  /\ At(t, "pf")
  /\ IF mod.st = "live"
     THEN /\ mod' = [mod EXCEPT !.refs = @ + 1]
          /\ Go(t, "init")
          /\ UNCHANGED <<fdt, refs, sock, hook>>
     ELSE CreateFails(t, Own(t), 0)

(* pf->create, then try_module_get(sock->ops->owner) and module_put of     *)
(* pf->owner.  The owner is the module already held here, so the second    *)
(* try_module_get does not fail (see PinnedModule).                        *)
CallCreate(t) ==
  /\ At(t, "init")
  /\ \/ CreateFails(t, Own(t), 1)
     \/ /\ sock' = [sock EXCEPT ![Last(th[t].new)] = "ops"]
        /\ mod' = [mod EXCEPT !.refs = (@ + 1) - 1]
        /\ Go(t, "post")
        /\ UNCHANGED <<fdt, refs, hook>>

(* security_socket_post_create; the socket is then the caller's. *)
PostCreate(t) ==
  /\ At(t, "post")
  /\ \/ CreateFails(t, Own(t), 0)
     \/ /\ Go(t, IF th[t].call = "socket" THEN "fd"
                 ELSE IF Len(th[t].new) = 1 THEN "create" ELSE "pair")
        /\ UNCHANGED <<fdt, refs, sock, mod, hook>>

sock_create(t) ==
  \/ CreateAlloc(t)
  \/ RequestFamily(t)
  \/ FindFamily(t)
  \/ GetFamily(t)
  \/ CallCreate(t)
  \/ PostCreate(t)
-----------------------------------------------------------------------------
(* socket(): the flag checks come first and hold nothing. *)
sys_socket(t) ==
  /\ At(t, "user")
  /\ th' = [th EXCEPT ![t].call = "socket", ![t].at = "create"]
  /\ UNCHANGED <<fdt, refs, sock, mod, hook>>

(* Mutant: the number is given back before the file is looked at. *)
Mutsock_map_fd(t) ==
  /\ th[t].call = "socket"
  /\ \/ At(t, "fd") /\ TakeFd(t, "file")
     \/ /\ At(t, "file")
        /\ sock' = [sock EXCEPT ![New1(t)] = "open"]
        /\ refs' = [refs EXCEPT ![New1(t)] = 1]
        /\ fdt' = [fdt EXCEPT ![th[t].fds[1]] = Free]
        /\ Go(t, "install")
        /\ UNCHANGED <<mod, hook>>
     \/ /\ At(t, "install")
        /\ fdt' = [fdt EXCEPT ![th[t].fds[1]] = New1(t)]
        /\ th' = [th EXCEPT ![t] = Idle]
        /\ UNCHANGED <<refs, sock, mod, hook>>

(* sock_map_fd: a descriptor, a file, and the two joined. *)
sock_map_fd(t) ==
  /\ th[t].call = "socket"
  /\ \/ /\ At(t, "fd")
        /\ \/ TakeFd(t, "file")
           \/ FreeFds = {} /\ Return(t, {}, {New1(t)}, {})
     \/ /\ At(t, "file")
        /\ \/ sock_alloc_file(t, New1(t), "install")
           \/ Return(t, {}, {New1(t)}, Reserved(t))
     \/ /\ At(t, "install")
        /\ fdt' = [fdt EXCEPT ![th[t].fds[1]] = New1(t)]
        /\ th' = [th EXCEPT ![t] = Idle]
        /\ UNCHANGED <<refs, sock, mod, hook>>

(* socketpair(): both descriptors are reserved and shown to the caller     *)
(* before the sockets exist.                                               *)
SocketpairFds(t) ==
  \/ /\ At(t, "user")
     /\ th' = [th EXCEPT ![t].call = "socketpair", ![t].at = "fd1"]
     /\ UNCHANGED <<fdt, refs, sock, mod, hook>>
  \/ /\ At(t, "fd1")
     /\ \/ TakeFd(t, "fd2")
        \/ FreeFds = {} /\ Return(t, {}, {}, {})
  \/ /\ At(t, "fd2")
     /\ \/ TakeFd(t, "show")
        \/ FreeFds = {} /\ Return(t, {}, {}, Reserved(t))
  \/ /\ At(t, "show")
     /\ \/ Return(t, {}, {}, Reserved(t))
        \/ Go(t, "create") /\ UNCHANGED <<fdt, refs, sock, mod, hook>>
(* Mutant: without fput(newfile1) when the second file cannot be made. *)
MutSocketpairFiles(t) ==
  \/ /\ At(t, "pair")
     /\ Go(t, "file1") /\ UNCHANGED <<fdt, refs, sock, mod, hook>>
  \/ /\ At(t, "file1")
     /\ sock_alloc_file(t, New1(t), "file2")
  \/ /\ At(t, "file2")
     /\ Return(t, {}, {New2(t)}, Reserved(t))

(* The LSM and ops->socketpair, then a file for each socket; a failure     *)
(* after the first file drops that file, and with it the first socket.     *)
SocketpairFiles(t) ==
  \/ /\ At(t, "pair")
     /\ \/ Return(t, {}, {New1(t), New2(t)}, Reserved(t))
        \/ Go(t, "file1") /\ UNCHANGED <<fdt, refs, sock, mod, hook>>
  \/ /\ At(t, "file1")
     /\ \/ sock_alloc_file(t, New1(t), "file2")
        \/ Return(t, {}, {New1(t), New2(t)}, Reserved(t))
  \/ /\ At(t, "file2")
     /\ \/ sock_alloc_file(t, New2(t), "install1")
        \/ Return(t, {New1(t)}, {New2(t)}, Reserved(t))
  \/ /\ At(t, "install1")
     /\ fdt' = [fdt EXCEPT ![th[t].fds[1]] = New1(t)]
     /\ th' = [th EXCEPT ![t].new = <<New2(t)>>, ![t].at = "install2",
                         ![t].fds = <<th[t].fds[2]>>]
     /\ UNCHANGED <<refs, sock, mod, hook>>
  \/ /\ At(t, "install2")
     /\ fdt' = [fdt EXCEPT ![th[t].fds[1]] = New1(t)]
     /\ th' = [th EXCEPT ![t] = Idle]
     /\ UNCHANGED <<refs, sock, mod, hook>>

sys_socketpair(t) == SocketpairFds(t) \/ SocketpairFiles(t)
-----------------------------------------------------------------------------
(* Calls on a descriptor.  Each is the sequence of steps that may fail, in *)
(* the code's order: "in" copies arguments from user space, "lsm" asks the *)
(* security module, "proto" runs the operation of the protocol, "out"      *)
(* copies the answer to user space.  A failed step goes to fput_light.     *)

sys_bind        == {<<"in", "lsm", "proto">>}
sys_listen      == {<<"lsm", "proto">>}
sys_connect     == {<<"in", "lsm", "proto">>}
sys_getsockname == {<<"lsm", "proto", "out">>}
sys_getpeername == {<<"lsm", "proto", "out">>}
sys_sendto      == {<<"in", "lsm", "proto">>, <<"lsm", "proto">>}
sys_recvfrom    == {<<"lsm", "proto", "out">>, <<"lsm", "proto">>}
sys_setsockopt  == {<<"lsm", "proto">>}
sys_getsockopt  == {<<"lsm", "proto">>}
sys_shutdown    == {<<"lsm", "proto">>}
sys_sendmsg     == {<<"in", "lsm", "proto">>}
sys_recvmsg     == {<<"in", "lsm", "proto", "out">>}

(* Operations of the file. A read of no bytes ends at once. *)
sock_read_iter   == {<<"lsm", "proto">>, <<>>}
sock_write_iter  == {<<"lsm", "proto">>}
sock_sendpage    == {<<"proto">>}
sock_splice_read == {<<"proto">>}
sock_poll        == {<<"proto">>}
sock_mmap        == {<<"proto">>}
sock_fasync      == {<<"proto">>}

(* The multiplexer and the file operations: which of the above a call is.  *)
socketcall ==
  UNION {sys_bind, sys_listen, sys_connect, sys_getsockname, sys_getpeername,
         sys_sendto, sys_recvfrom, sys_setsockopt, sys_getsockopt,
         sys_shutdown, sys_sendmsg, sys_recvmsg, {<<"accept">>}}

socket_file_ops ==
  UNION {sock_read_iter, sock_write_iter, sock_sendpage, sock_splice_read,
         sock_poll, sock_mmap, sock_fasync, {<<"hook">>}}

(* In-kernel users send through the LSM, or call the protocol with no LSM  *)
(* and no copy, or accept.                                                 *)
sock_sendmsg          == {<<"lsm", "proto">>}
kernel_sendmsg        == sock_sendmsg
kernel_sendmsg_locked == {<<"proto">>}
kernel_sendpage       == {<<"proto">>}
kernel_sock_shutdown  == {<<"proto">>}
kernel_calls ==
  UNION {kernel_sendmsg, kernel_sendmsg_locked, kernel_sendpage,
         kernel_sock_shutdown, {<<"proto">>, <<"kaccept">>}}
(* Mutant: the file is used without fget. *)
Mutsockfd_lookup(t) ==
  /\ At(t, "user")
  /\ \E d \in Fds, p \in UNION {socketcall, socket_file_ops, kernel_calls} :
       /\ fdt[d] \in Socks
       /\ th' = [th EXCEPT ![t].at = "steps", ![t].rest = p,
                           ![t].held = {fdt[d]}]
  /\ UNCHANGED <<fdt, refs, sock, mod, hook>>

(* sockfd_lookup(_light): a reference to the file the descriptor names;    *)
(* EBADF for a descriptor that is free or still reserved, ENOTSOCK for a   *)
(* file that is not a socket, whose reference is dropped again.            *)
sockfd_lookup(t) ==
  /\ At(t, "user")
  /\ \E d \in Fds, p \in UNION {socketcall, socket_file_ops, kernel_calls} :
       /\ fdt[d] \in Socks
       /\ refs' = [refs EXCEPT ![fdt[d]] = @ + 1]
       /\ th' = [th EXCEPT ![t].at = "steps", ![t].rest = p,
                           ![t].held = {fdt[d]}]
  /\ UNCHANGED <<fdt, sock, mod, hook>>

(* One step of such a call: done, or failed and straight to fput_light. *)
FdStep(t) ==
  /\ At(t, "steps")
  /\ th[t].rest # <<>>
  /\ Head(th[t].rest) \in {"in", "lsm", "proto", "out"}
  /\ \/ th' = [th EXCEPT ![t].rest = Tail(@)]
     \/ th' = [th EXCEPT ![t].rest = <<>>]
  /\ UNCHANGED <<fdt, refs, sock, mod, hook>>

(* fput_light at the end of the call; the last reference closes the socket. *)
FdPut(t) ==
  /\ At(t, "steps")
  /\ th[t].rest = <<>>
  /\ Return(t, th[t].held, {}, {})

(* close(): the number is free at once, the file goes with its last user. *)
sock_close(t) ==
  /\ At(t, "user")
  /\ \E d \in Fds :
       /\ fdt[d] \in Socks
       /\ fdt' = [fdt EXCEPT ![d] = Free]
       /\ th' = [th EXCEPT ![t].at = "steps", ![t].held = {fdt[d]}]
  /\ UNCHANGED <<refs, sock, mod, hook>>
-----------------------------------------------------------------------------
(* Mutant: the new socket takes the protocol's ops without __module_get. *)
MutAcceptAlloc(t) ==
  /\ At(t, "steps")
  /\ th[t].rest = <<"accept">>
  /\ \E s \in Socks :
       /\ sock_alloc(s, "ops")
       /\ th' = [th EXCEPT ![t].new = <<s>>, ![t].at = "afd"]
  /\ UNCHANGED <<fdt, refs, mod, hook>>

(* accept(): a new socket of the listener's protocol, a descriptor and a   *)
(* file are made before a connection is waited for.                        *)
AcceptAlloc(t) ==
  /\ At(t, "steps")
  /\ th[t].rest = <<"accept">>
  /\ \/ \E s \in Socks :
          /\ sock_alloc(s, "ops")
          /\ mod' = [mod EXCEPT !.refs = @ + 1]
          /\ th' = [th EXCEPT ![t].new = <<s>>, ![t].at = "afd"]
          /\ UNCHANGED <<fdt, refs, hook>>
     \/ Return(t, th[t].held, {}, {})

AcceptFile(t) ==
  \/ /\ At(t, "afd")
     /\ \/ TakeFd(t, "afile")
        \/ FreeFds = {} /\ Return(t, th[t].held, {New1(t)}, {})
  \/ /\ At(t, "afile")
     /\ \/ sock_alloc_file(t, New1(t), "await")
        \/ Return(t, th[t].held, {New1(t)}, Reserved(t))

(* The LSM, ops->accept, getname and the copy of the address: a failure of *)
(* any, even after the connection was taken, goes through out_fd.          *)
AcceptWait(t) ==
  /\ At(t, "await")
  /\ \/ Return(t, th[t].held \union {New1(t)}, {}, Reserved(t))
     \/ /\ fdt' = [fdt EXCEPT ![th[t].fds[1]] = New1(t)]
        /\ th' = [th EXCEPT ![t] = [Idle EXCEPT !.at = "steps",
                                                !.held = th[t].held]]
        /\ UNCHANGED <<refs, sock, mod, hook>>

sys_accept4(t) == AcceptAlloc(t) \/ AcceptFile(t) \/ AcceptWait(t)

(* sock_create_lite: the LSM twice around sock_alloc. *)
sock_create_lite(t) ==
  /\ At(t, "steps")
  /\ th[t].rest = <<"kaccept">>
  /\ \/ \E s \in Socks :
          /\ sock_alloc(s, "bare")
          /\ th' = [th EXCEPT ![t].new = <<s>>, ![t].at = "kwait"]
          /\ UNCHANGED <<fdt, refs, mod, hook>>
     \/ Return(t, th[t].held, {}, {})

(* kernel_accept: the protocol is set, and its module held, only once a    *)
(* connection is there; the kernel's user ends with sock_release.          *)
kernel_accept(t) ==
  \/ /\ At(t, "kwait")
     /\ \/ Return(t, th[t].held, {New1(t)}, {})
        \/ /\ sock' = [sock EXCEPT ![New1(t)] = "ops"]
           /\ mod' = [mod EXCEPT !.refs = @ + 1]
           /\ Go(t, "kuse")
           /\ UNCHANGED <<fdt, refs, hook>>
  \/ /\ At(t, "kuse")
     /\ Return(t, th[t].held, {New1(t)}, {})
-----------------------------------------------------------------------------
(* The ioctl hooks (bridge, 8021q, dlci): the hook's module is not counted, *)
(* only the mutex keeps it in place while the hook runs.                   *)

(* br_ioctl_set and its two sisters, from the module's init and exit. *)
ioctl_set(v, st) ==
  /\ hook.mutex = {}
  /\ hook' = [hook EXCEPT !.set = v, !.st = st]

(* The test for a hook is made without the mutex; request_module may fail. *)
HookTest(t) ==
  /\ At(t, "steps")
  /\ th[t].rest = <<"hook">>
  /\ \/ hook.set /\ UNCHANGED hook
     \/ ~hook.set /\ UNCHANGED hook
     \/ ~hook.set /\ hook.st = "out" /\ ioctl_set(TRUE, "live")
  /\ Go(t, "hlock")
  /\ UNCHANGED <<fdt, refs, sock, mod>>
(* Mutant: the mutex covers the second test only, not the call. *)
MutHookCall(t) ==
  \/ /\ At(t, "hlock")
     /\ hook.mutex = {}
     /\ Go(t, IF hook.set THEN "hcall" ELSE "hdone")
     /\ UNCHANGED <<fdt, refs, sock, mod, hook>>
  \/ /\ At(t, "hcall")
     /\ Go(t, "hdone")
     /\ UNCHANGED <<fdt, refs, sock, mod, hook>>

(* The hook is tested again under the mutex, called and left. *)
HookCall(t) ==
  \/ /\ At(t, "hlock")
     /\ hook.mutex = {}
     /\ hook' = [hook EXCEPT !.mutex = {t}]
     /\ Go(t, IF hook.set THEN "hcall" ELSE "hdone")
     /\ UNCHANGED <<fdt, refs, sock, mod>>
  \/ /\ At(t, "hcall")
     /\ Go(t, "hdone")
     /\ UNCHANGED <<fdt, refs, sock, mod, hook>>
  \/ /\ At(t, "hdone")
     /\ hook' = [hook EXCEPT !.mutex = {}]
     /\ th' = [th EXCEPT ![t].at = "steps", ![t].rest = <<>>]
     /\ UNCHANGED <<fdt, refs, sock, mod>>

sock_ioctl(t) == HookTest(t) \/ HookCall(t)

(* Removal of the hook's module: its exit clears the hook, then its text   *)
(* is freed.                                                               *)
HookExit ==
  /\ hook.st = "live"
  /\ ioctl_set(FALSE, "going")
  /\ UNCHANGED <<fdt, refs, sock, mod, th>>

HookFree ==
  /\ hook.st = "going"
  /\ hook' = [hook EXCEPT !.st = "out"]
  /\ UNCHANGED <<fdt, refs, sock, mod, th>>
-----------------------------------------------------------------------------
(* Removal of the protocol module: only while nobody holds it; then its    *)
(* exit unregisters the family and waits for the readers of the table.     *)
ModuleStop ==
  /\ mod.st = "live"
  /\ mod.refs = 0
  /\ mod' = [mod EXCEPT !.st = "going"]
  /\ UNCHANGED <<fdt, refs, sock, hook, th>>

sock_unregister ==
  /\ mod.st = "going"
  /\ mod.reg
  /\ mod' = [mod EXCEPT !.reg = FALSE]
  /\ UNCHANGED <<fdt, refs, sock, hook, th>>
(* Mutant: the removal waits for every call that is under way. *)
MutSynchronized == \A t \in Threads : At(t, "user")

(* After synchronize_rcu no task is between rcu_read_lock and unlock. *)
Synchronized == \A t \in Threads : ~At(t, "pf")

ModuleFree ==
  /\ mod.st = "going"
  /\ ~mod.reg
  /\ Synchronized
  /\ mod' = [mod EXCEPT !.st = "out"]
  /\ UNCHANGED <<fdt, refs, sock, hook, th>>
-----------------------------------------------------------------------------
Step(t) ==
  \/ sys_socket(t) \/ sock_create(t) \/ sock_map_fd(t) \/ sys_socketpair(t)
  \/ sockfd_lookup(t) \/ FdStep(t) \/ FdPut(t) \/ sock_close(t)
  \/ sys_accept4(t) \/ sock_create_lite(t) \/ kernel_accept(t)
  \/ sock_ioctl(t)

Next ==
  \/ \E t \in Threads : Step(t)
  \/ HookExit \/ HookFree
  \/ ModuleStop \/ sock_unregister \/ ModuleFree

Spec == Init /\ [][Next]_vars

(* A task that was given a module reference to test runs on, and so does   *)
(* the removal of a module once it has begun.                              *)
Fairness ==
  /\ \A t \in Threads : WF_vars(GetFamily(t))
  /\ WF_vars(sock_unregister)
  /\ WF_vars(ModuleFree)

FairSpec == Spec /\ Fairness
-----------------------------------------------------------------------------
(* Every count is exact, on every path and after every failure: a file's   *)
(* f_count is the descriptors, the lookups and the new file of a call that *)
(* has not installed it yet; the module's count is the sockets that have   *)
(* its ops and the calls inside pf->create; an inode without a file and a  *)
(* reserved descriptor belong to exactly one call under way.               *)
Accounted ==
  /\ \A s \in Socks :
       refs[s] = Cardinality({d \in Fds : fdt[d] = s})
                 + Cardinality({t \in Threads : s \in th[t].held})
                 + Cardinality({t \in Threads : sock[s] = "open"
                                              /\ s \in ToSet(th[t].new)})
  /\ mod.refs = Cardinality({s \in Socks : Owns(s)})
                + Cardinality({t \in Threads : At(t, "init")})
  /\ \A s \in Socks : sock[s] \in {"bare", "ops"} =>
       Cardinality({t \in Threads : s \in ToSet(th[t].new)}) = 1
  /\ \A d \in Fds : fdt[d] = Taken =>
       Cardinality({t \in Threads : d \in Reserved(t)}) = 1

(* A call that looked a descriptor up works on a socket that still has its *)
(* file, its ops and its module, whoever closed the descriptor since and   *)
(* whatever the number names now.                                          *)
UsedWhileOpen ==
  \A t \in Threads : \A s \in th[t].held : sock[s] = "open" /\ refs[s] > 0

(* The protocol's module is in place while one of its sockets has its ops  *)
(* or a task is inside pf->create, and its net_proto_family is not freed   *)
(* under a task that reads it; so the second try_module_get of             *)
(* __sock_create cannot fail.                                              *)
PinnedModule ==
  /\ (\E s \in Socks : Owns(s)) => mod.st = "live"
  /\ (\E t \in Threads : At(t, "init")) => mod.st = "live"
  /\ (\E t \in Threads : At(t, "pf")) => mod.st # "out"

(* A hook runs only while the module it lies in is loaded, though no       *)
(* reference to that module is taken.                                      *)
HookInPlace == \A t \in Threads : At(t, "hcall") => hook.st = "live"

(* A descriptor that names a socket is replaced by nothing but its close,  *)
(* and a socket appears only under a number some call had reserved: close  *)
(* and fd_install of two tasks never meet on one number.                   *)
DescriptorsKept ==
  [][\A d \in Fds : fdt'[d] # fdt[d] =>
        \/ fdt[d] \in Socks /\ fdt'[d] = Free
        \/ fdt[d] = Free /\ fdt'[d] = Taken
        \/ fdt[d] = Taken /\ fdt'[d] \in Socks \union {Free}]_vars

(* sock_unregister always comes to an end: no creation that saw the family *)
(* keeps synchronize_rcu waiting for ever.                                 *)
RemovalEnds == (mod.st = "going") ~> (mod.st = "out")
=============================================================================
