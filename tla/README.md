# TLA+ models of the LKP repository

The repository holds the projects of a Linux kernel programming course. Its
largest program is a distributed shared memory: two processes, on two terminals
or two machines, that share mapped pages by an MSI protocol over TCP
(`src/Project_3_new/part4/part4.c`). Three unlocked threads per process, two
sockets and a user-level page fault handler make it the hardest part to test, and
it is the core of this project. Next to it stand `s2fs`, a file system that shows
the kernel's tasks as files, and the copy of the kernel's `net/socket.c` the first
project works on, which is by far the longest file. The other kernel modules
(`proj2`, `proj4`, the EX_4 list, `s2_encrypt`) and the smaller user programs have a
module each.

## Inventory

| component | state it keeps | operations | hard behaviours |
|---|---|---|---|
| MSI shared memory, `Project_3_new/part4/part4.c` 110-420 | `list_MSI` (three flags a page), `temp_data` (the last request, own or received), the mapped pages, `message`, `recv_message`; two TCP connections | menu: `r`, `w`, `v`, `q` with a page or -1 for all; server: receive a `proc_info`, react; fault handler: `UFFDIO_COPY` | menu and server share everything without a lock; a request races a request of the peer; signals are never cleared; a reader blocks until it is answered; the peer exits at any time |
| Start-up of the same program, 320-483 | `mch_num`, `addr`, `page_count`, `list_MSI`, `init_uffd`, the sockets | connect, retry, listen, accept, exchange of the first `proc_info`, mmap, userfaultfd | the roles depend on who is first; server and client of one process wait for each other only by time |
| First MSI version, `Project_3/part4/part4.c` | `states_list`, `bus_signal`, the mapping | menu, `update_bus`, fault handler | machine 2's handler waits for a signal that only a fault of machine 1 sends; page -1 indexes below the array |
| Part 3, `Project_3/part3/part3.c` | `order`, the region, one socket pair | choose a role, exchange the region, read, write of a page | the server looks at `order` while the client may not have set it |
| Part 2, `Project_3/part2/part22.c` | sockets | one end listens and sends a greeting, the other one connects and reads it | the server assigns the result of a comparison to its socket, so that it sends to the terminal |
| `uffd.c` demonstration, `Project_3_new/part1` | mapping, fault counter | fault, `UFFDIO_COPY` | fault handler thread against the faulting thread |
| `proj2` kernel module | list, hash table, red-black tree, radix tree | parse the parameter, insert, show, destroy | two readers of `/proc/proj2` at the same time; a traversal that erases its own nodes; a parse error half way; `seq_read` calls it again |
| `proj4`, process tree | none of its own: walks the task tree | print the tree | tasks fork and exit during the walk |
| `s2fs` (parts 2, 3, 4) | superblock, dentries, inodes, a pid per inode | mount, open, read, write, unmount | the tree is the one at mount time, the tasks are the ones at read time; offsets; an allocation that fails half way |
| Socket layer, `Project_1/backups/socket.c` | descriptors, files, inodes of sockfs, `net_families`, the ioctl hooks, the address limit | create, pair, bind, listen, accept, send, receive, ioctl, close, register, unregister | tasks that share descriptors; modules that are removed; every allocation, copy and security check may fail; memory of the caller that changes between two reads; batches that stop half way |
| Socket client and server, `Project_1/code-socket`, `Project_1/*.c` | sockets, buffer | connect, ask, answer | question and answer in pieces; a connection that is reset; nobody listens |
| `s2_encrypt`, `Project_1/syscall.patch` | a buffer | encrypt a string with a key | width of a char; the limit on the length |
| `ex4` list module | a list | add, test, destroy | parse error half way; a result that is never set |
| `Project_1/backups/syscalls.h`, `hello*`, `*.mod.c`, `*.cmd` | | | declarations, examples and generated code: left out |

The two parts of `part4.c` interact through memory (the client thread's menu and
the server thread of one process work on the same `temp_data`, `list_MSI` and
pages) and through two TCP connections, one a direction: a machine's `client_fd`
carries its requests to the peer's `new_socket`, and the peer answers a read with
raw text on the same connection.

What makes the shared memory correct: both machines agree on who holds which page
and how; a read returns what was written last, by either machine; a read returns;
an index read from the terminal or from the peer stays inside the arrays; when one
process quits the other one does not stay behind. What makes the start-up correct:
one process becomes machine 1 and the other machine 2; a menu that is shown works
on initialised state, on a registered userfaultfd, and on as many pages as its
peer's. What makes `s2fs` correct: a mount returns, with one file for every task in
the directories of its ancestors; a file that is read in pieces is read whole. What
makes the socket layer correct: every reference has one owner on every path, a socket
and its module stay while somebody uses them, a batch tells the caller what went out
and what came in, and no copy crosses the user boundary the wrong way or past a buffer.

The other programs stand alone: each is started, runs and is looked at by itself.

`PROJECT.json` lists the hazards by line, each with the properties that would
catch it going wrong.

## Modules

| module | what it is |
|---|---|
| `Coherence` | abstract: the MSI state of each page on two machines, changed by whole reads and writes |
| `MSI` | detailed: threads, sockets, shared structs, pages, faults of `part4.c` after start-up |
| `MCMSI` | instances of `MSI` for TLC |
| `MSI_proofs` | type correctness and index safety of `MSI`, and, for operators who take turns, coherence and freshness: for every number of pages |
| `Coherence_proofs` | the pairs of states `Coherence` allows |
| `Handshake` | start-up of `part4.c`, up to both menus |
| `MCHandshake` | instances of `Handshake` for TLC |
| `Handshake_proofs` | roles, the second machine's page count, and what a menu finds ready, under the assumptions on time each needs |
| `S2FS` | `Project_4/part4/s2fs.c`: the walk of a mount and the reads of a file, beside tasks that come and go |
| `MCS2FS` | instances of `S2FS` for TLC |
| `S2FS_proofs` | a file is read whole, for every cut into reads; a mount makes one file for every task, below its ancestors |
| `SocketLayer` | `socket.c`: descriptors, files, sockets and modules, and all calls on them |
| `MCSocketLayer` | instance of `SocketLayer` for TLC |
| `SocketLayer_proofs` | the five safety properties of `SocketLayer`, for any number of tasks, descriptors and sockets |
| `Messages` | `socket.c`: `sendmmsg` and `recvmmsg` |
| `Messages_proofs` | the four safety properties of `Messages` |
| `UserCopy` | `socket.c`: ioctl translations, address limit, socket addresses |
| `RxStamp` | `socket.c`: timestamps of sent and received packets |
| `FirstFs` | `s2fs` of parts 2 and 3, with failing allocations |
| `ProcTree` | `proj4.c` |
| `Selection` | the integers among the tokens of a parameter, for `Ex4` and `Proj2` |
| `Ex4` | `EX_4/ex4.c` |
| `Encrypt` | `s2_encrypt` and its caller |
| `Proj2` | `proj2.c` |
| `Kernel_proofs` | safety of `UserCopy`, `RxStamp` and the programs above, from `FirstFs` on |
| `Uffd` | `Project_3_new/part1/uffd.c` |
| `Greeting` | the client and server exercises of projects 1 and 3 |
| `Part3` | `Project_3/part3/part3.c` |
| `Bus` | `Project_3/part4/part4.c`, the first MSI version, from the menus on |
| `User_proofs` | safety of the last four |
| `MCPrograms` | the modules from `Messages` on side by side, one a behaviour |

### MSI

Two machines, each with a menu thread (`mpc`), a server thread (`spc`) and a fault
handler. Shared within a machine: `temp` (`temp_data`), `msi` (`list_MSI`), `mem`
and `present` (the mapping at `addr`). Between machines: `req[p]` (structs sent by
p, read by the peer's server) and `rep[p]` (the byte stream that comes back to p).
`latest` is a history variable: the text each page held right after the last
`memcpy` into it.

One action is one access to shared state, in the order of the code. For a read:
`StartRead` (the command, `scanf` into `temp_data.page_num` and the load of `index` from
there), `ReadOff` and `ReadPage` (the load of `page_num` and the store to `access_page`,
with `off` in between), `ReadCheck`, then `ReadLocal`, or `ReadMemset`, `ReadFlags`,
`ReadState`, `ReadSend`, `ReadReply` or `ReadEOF`. For a write: `StartWrite`, `WriteType`,
`WriteNum`, `WriteCheck`, `WriteFlags`, `WriteState`, `WriteOff`, `WritePage`, `WriteCopy`,
`WriteSend`. The server: `Receive` or `PeerGone`, `CopyIn`, `React`, then `Flush`,
`ServerStore`, `NoData` as `Reaction` says. The kernel: `FaultHandler`, `SigPipe`.

Data races are part of the model. A store of the menu to `temp_data` that meets
the server's `temp_data = recv_data` leaves, field by field, either value
(`StoreTemp`), and `index`, loaded right after the `scanf`, is what was typed or the page of
the request that came in between (`Command`); a `send` of the struct that meets the copy, or
the test and the index of `ReadState`, find such a mixture (`Loadable`); two threads that
store the three flags of one `list_MSI` entry can leave none or two of them set
(`StoreState`), and a test that meets a store finds any mixture of the old flags and the new
ones (`MenuSees`, `ServerSees`, `Torn`).

Strings are buffers with a NUL: `memcpy(page, message, strlen(message))` and
`read` leave the tail of what was there (`Overlay`), and `scanf("%[^\n]s")` leaves
the buffer alone on a bare Enter (`Typed`). Malloc'ed buffers and the parts of the
first `proc_info` that are not set start with any value of `FreshBufs` and
`UninitPages`.

Abstractions:
- A `proc_info` is taken from the socket whole. The struct is larger than a socket
  buffer may be, and the code does not loop over `read`; short reads are a listed
  hazard (see "Not modelled").
- The chain of tests in the server (387-407) is one step; its stores are not. When the menu
  is storing the entry meanwhile, the first three tests find one value for each flag, any of
  the mixtures, and the last one, which reads the flags again, another.
- A page access and the computation of its address are one step. If the page is
  not mapped the access waits for `FaultHandler`.
- The lines that are typed are shorter than a page, and the pages that are typed
  are 0 to `page_count` - 1 or -1: the program checks neither.
- Failures of `socket`, `mmap`, `ioctl`, `malloc` are left out: the program ends.
- `PeerGone` and `ReadEOF` may happen whenever the peer is dead, even with data
  under way: a process that exits with unread input resets the connection.
- `pagefault_signal`, `flush` and `addr` of the struct are left out: nothing that is
  stored or sent depends on the first two after start-up, and `addr` is the same
  in every struct. The fault handler's test of `pagefault_signal[page_num]` (123) only decides
  whether its page of zeros is cleared once more. Its index may be -1: when the operator has
  just typed that, and the server faults in `Flush` before the loop over all pages sets
  `page_num`. The word before the array is read then, and not written; it is a listed hazard
  and `PageNumInRange` does not speak of it.

### Coherence

`ReadMiss(p, k)` takes page k from invalid on p to shared on both machines, and
`Write(p, k)` to modified on p and invalid on the other one, at once. The
refinement (`Promised`) maps the state of page k on q to `Effective(q, k)`: what `list_MSI` says,
unless a write or a read of the peer that concerns k is still under way (a request
being sent, on the wire, or being served), in which case it is what the request
will make of it. So a command takes effect where the machine stores its own
`list_MSI` entry.

### Handshake

The two threads of each process from `main` to the menu and to the server's main
loop: sockets, roles, the first struct, `mmap`, `list_MSI`, userfaultfd. What
the program takes for granted about time has three parts: `"staggered"` (the second
process is started when the first one listens and knows that it is machine 1),
`"role_first"` (a client sets `mch_num` before its own server, back from `accept`,
looks), `"long_sleep"` (the one-second sleep is longer than the server's way from
`mmap` to its loop). The variable `timing` is the set a behaviour has, `Timings` the sets
that are considered, and a property says which of them it needs.

### S2FS

Three actors. The kernel (external, from how `s2fs.c` uses it): `life`, `children`,
`mm`, `pgrp` say which tasks there are, how `task->children` is linked, which tasks
have an mm, and which process groups keep a struct pid; `Fork`, `Setpgrp`, `Exit`,
`Reap`, `Run` change them. The process that mounts: `stack` holds the calls of
`recursive_add`, each with its task, its directory and the node of the list it is at,
`tree` the dentries so far; `Mount`, `AddFile`, `AddDir`, `NextChild`, `Unmount`. A
reader: `Open`, `Lookup` (`find_get_pid` and `pid_task`), then `ReadGone`, `ReadOops`
or `ReadInfo`, and `Close`. `snap`, `got`, `eof` and `fixed` are history variables.

Between two steps of the walk or of a read the kernel may do anything: the code takes
no lock and no reference. The list is Linux's: an exiting task's children are spliced
to the tail of init's list, a reaped task is taken out by `list_del_init`, which leaves
its node pointing at itself, and `list->next` is followed from wherever the node is
by now (`NextNode`). A cursor that arrives at the head of another task's list is
`Astray`: from there on the loop reads a list head as a task, and the model stops.

What is printed of a task is one of two texts (`Info`), of different lengths, and `Run`
changes one into the other. `get_task_info` tests its two pointers with "or": for a
pid that only a process group still has, for a zombie and for a kernel thread it goes
on to a NULL task or a NULL mm, and the reader is killed (`ReadOops`). For a task that
is gone it returns -1, which is less than any offset, so the read returns nothing
(`ReadGone`) and the line "Task no longer exists" it has prepared is never shown.

Abstractions:
- The struct of a reaped task stays readable and its pid is not given out again.
- One reader: two share no state. One mount at a time.
- The look-up is one step and the printing another; the kernel may take steps between
  them, not within them.
- Reads have at least one byte, and `copy_to_user` succeeds.
- Left out: `write`, which stores through `i_private` a pointer into a stack frame that
  is no longer there; failing allocations; loading and unloading of the module.

`ExitInWalk` says whether tasks exit and are reaped while a mount walks. The code needs
that they do not; `s2fs_exits` shows what happens when they do.

### SocketLayer

Threads that share one `files_struct`. `fdt` is the descriptor table, `refs` the
`f_count` of each socket's file, `sock` how far a socket is made (inode only, with
`ops`, with a file), `mod` the protocol's module with its reference count and its
entry in `net_families`, `hook` an ioctl hook with its module and its mutex, and
`th[t]` where a task is and what it holds. Every allocation, security check, copy and
protocol operation may fail, and each failure takes the code's own exit
(`CreateFails`, `Return`).

`__sock_create` is six steps, because the module can be removed between any two:
`CreateAlloc`, `RequestFamily`, `FindFamily` (in the RCU section), `GetFamily`
(`try_module_get`), `CallCreate`, `PostCreate`. `socket`, `socketpair` and `accept` take
descriptor, file and `fd_install` one by one. The calls on a descriptor (`bind` to
`shutdown`, the file operations, the calls from inside the kernel) are the sequences
of steps that may fail, between `sockfd_lookup` and `fput`; those that change no state
of this layer are told apart by that sequence only. External, from how the code uses
them: `get_unused_fd_flags`, module loading and removal.

Abstractions: one protocol module, which owns both the family and the `ops`; one hook
for the three (bridge, 8021q, dlci), which are alike; `fdget` always counts, as it
does for a table that is shared. A `close` and the last `fput` are two steps. Tasks,
descriptors and inodes are finite sets (`FiniteAssumption`): the counts are cardinalities.

### Messages, UserCopy, RxStamp

The rest of `socket.c` has other state, so it has modules of its own.

`Messages` is one `sendmmsg` (header, control data, security check, protocol, count) and one
`recvmmsg` with its flags (`MSG_WAITFORONE`, `MSG_DONTWAIT`, `MSG_ERRQUEUE`) and its timeout,
which is read at the start, looked at after each datagram and copied back at the end. That
last copy can fail, and then a count becomes -EFAULT (`Answer`, `TimeoutFault`). `sk_err` is the
error the socket holds. The network stores over whatever is there, and so does the end of
a batch (2460); `sock_error` takes it away, except with `MSG_ERRQUEUE`. `owed` is a history
variable: since a batch has left an error behind, the error a later call has to report.

In `UserCopy` a step is a statement that may fail, a change of the limit or of the lock, and each
function says itself where it goes on after success and after an error, so that an early
return between `set_fs` and its restore could be written down (it is the mutant of `LimitFits`).
`sock_do_ioctl` is one operator that `sock_ioctl`, `do_siocgstamp`, `do_siocgstampns` and
`routing_ioctl` go through, each with an object of its own size (`Room`). The memory of the
caller (`umem`, `rxmem`) changes between any two steps.

`RxStamp` has the packets on their way out, the clones on the error queue (for the queueing,
the software and the hardware stamp), and the options, which change at any time.

### FirstFs, ProcTree, Ex4, Encrypt, Proj2

`FirstFs`: `heap` is a history variable with every inode and dentry that is allocated.
Part 2 makes a root, part 3 also `foo` and `foo/bar`. A write stores through the same
stale pointer as in part 4; the store is left out and the file is closed after it.
`ProcTree` is the recursion of `proj4.c` as a stack, beside `fork`; `children` are the
lists it follows. A line keeps its indentation, which is what a reader sees of `space`: the
loop that prints it starts at 1, so init_task and its children are both at the margin
(`Indent`). `Ex4`: the result of
`store_value` is any value, for it has no `return`; `kfree` of a list node inside an
entry that is already freed may be survived or stop the kernel. `Encrypt` has bytes of
four values in place of 256, so that a shift wraps to zero within the bounds. For a pointer it
cannot read `strnlen_user` returns 0, the buffer is `ZERO_SIZE_PTR`, and the loop is lost at its first
test, as it is with a string longer than the limit; `EncryptsWhole` is about the others. `Proj2`
keeps the four structures as what a reader finds in them; a `kmalloc` that fails, and
a step from a freed tree node, may stop the kernel. Without a parameter a read is refused before
it touches anything. The entry allocated for `temp2` (190) is lost on every read, which nothing
in the model depends on, and the `return -1` at 230 needs a key that is gone between the
iterator and the look-up, which takes a second reader. Its values are ints and its radix tree
has unsigned long keys, which are wider: the assumption on `Wrap` says so, and with it
the negative values come last. What both modules should print is `Selected`, the standard
`SelectSeq` as a recursive function over prefixes; TLC compares the two
(`SelectedIsSelectSeq` in `MCPrograms`).

### Uffd, Greeting, Part3, Bus

`Uffd` counts addresses in quarters of a page: the loops step by half and by a quarter.
The `madvise` before the third loop is in a comment, and so it is not in the model: the run
`uffd_third` shows what the comment above it expects and does not happen.
`Greeting` is the three pairs of programs over TCP that delivers in pieces of any length, either
way: the server's one read may get a part of the question, and a server that ends with input it
has not read resets the connection, which can cost the client its answer. The server of
`part22.c` assigns the result of a comparison to its socket, and its client gets nothing. Line 14
of `code-socket/server.c` is not C; it is left out. `Part3` has both threads of both machines from
the start to the menu, and the pages, which are never exchanged; a first machine that was not
asked for pages has a `page_size` of 0, and ends when its handler maps a page of that size.
`Bus` has the menus, the handlers and the signals: a handler of machine 2 waits for a signal of
machine 1, and once it has one it reads descriptor 0, the terminal, where nobody is asked for a
line, and takes a line that comes all the same for a message. `states_list[-1]`, which page -1
tests, is whatever lies there (`Neighbour`).

## Runs

| run | checks | shows |
|---|---|---|
| `msi_turns` | `TypeOK`, `LatestSurvives`, `Coherent`, `ReadGetsLatest`, `ReadReturns` | With operators who take turns the protocol is coherent: it implements `Coherence`, no write is lost, a read returns the last text, whatever signals are left over from earlier requests or from the uninitialised first struct. |
| `msi_free` | `PageNumInRange`, `QuitPropagates` | With operators who type at any time: -1 reaches neither `list_MSI` nor the mapping nor the peer, although the server may replace `temp_data` between a store of the menu and its next load; a quit ends both processes, wherever the other one is. |
| `msi_first_reads` | `ReadReturns` violated | Two reads of a page that is invalid on both machines cross; neither is answered. |
| `msi_two_writers` | `OneModified` violated | Operators who only write (`WriteSpec`): the server's copy replaces the request the menu is about to send; both machines keep the page modified. |
| `handshake` | `StaggeredRoles`, `MenuReady`, `SecondFollowsFirst`, `BothStart` | Under each of the eight sets of assumptions on time a machine 2 that shows its menu has a machine 1 as its peer and its page count, and a staggered start gives different roles; with all three, both menus come up on ready state and the same number of pages. |
| `handshake_roles` | `DifferentRoles` violated | Started at the same time, both processes are machine 1. |
| `s2fs_forks` | `TreeComplete`, `NamesUnique`, `ReadWhole`, `MountReturns` | With forks at any time, and exits when no mount is walking, a mount returns with one file for every task, below its ancestors; no directory gets a name twice; a file is read whole however the reads are cut. |
| `s2fs_exits` | `MountReturns` violated | A task is reaped while the walk is at it; its node points at itself and the mount spins for ever. |
| `sockets` | `Accounted`, `UsedWhileOpen`, `PinnedModule`, `HookInPlace`, `DescriptorsKept`, `RemovalEnds` | Through every interleaving of two tasks with closes, failures and module removals: every reference has one owner, a call works on an open socket of a loaded module, a hook runs only while its module is there, `close` and `fd_install` never meet on one number, and `sock_unregister` ends. |
| `programs` (messages) | `SentAreApproved`, `CountIsSent`, `TakenAreCounted`, `ErrorIsKept`, `OneIsEnough` | Skipping the security check for a repeated address lets nothing through that was not allowed; the counts are the prefix that was sent and what was taken, but for one datagram when the last copy fails, and for a timeout that cannot be copied back; an error after some datagrams, or a later one in its place, is kept until a call reports it, and no datagram is taken before; `MSG_WAITFORONE` waits for one. |
| `programs` (copies, stamps) | `LimitFits`, `CopyFits`, `StampsApart` | User pointers are used under the user limit only and limit and lock are put back on every path; no copy is longer than its object, however the caller's memory changes, except for the two timestamps that are taken for a `struct ifreq`; a hardware stamp comes with its own clone. |
| `programs` (file systems) | `NothingLeft`, `ReadsText`, `TreeReadable` | A mount that fails anywhere leaves nothing; every cut of the reads gives the text; the printed process tree has every task once, below its parent. |
| `programs` (modules) | `InsmodAccounts`, `EncryptsWhole`, `ShowsInput` | `ex4` frees what it has on every path; `s2_encrypt` shifts each character of a string it can measure once and stays in its buffer; `proj2` shows its parameter, also when the text is made twice or after a read that failed. |
| `programs` (user) | `ReadsAgree`, `AnswerWhole`, `SameRegion`, `BusHolds`, `FaultEnds` | The three loops of `uffd.c`, as compiled, read the same letters; the client with `MSG_WAITALL` has the whole struct unless the server read only a part of its question; a second machine of part 3 at its menu has the first one's region, however the four threads start; in the first MSI version machine 1 never blocks in its write and its commands come back to the menu, and those of machine 2 do once machine 1 has ended and left no signal behind. |
| `uffd_third` | `ThirdLoopChanges` violated | The third loop reads the letters of the second one. |
| `bus_read` | `ReadComesBack` violated | A read of machine 2 in the first MSI version never returns. |

The six runs that end in a violation each have an entry under `findings` in `PROJECT.json` with
the comment or the script they contradict.

Bounds. `MaxOps` bounds the commands typed at both terminals together: three with
turns, two without. Three commands on two pages are a write, a write by
the other machine and a read, or a read that leaves signals behind, then a write,
then a read; with -1 one command is a request for each page. Two commands that are
free to interleave are enough for every pair of requests to cross. Two pages tell
a request for one page from the leftovers of another; `PageLen` is one character
and a NUL. `msi_free` has one page, which -1 can still miss.
Symmetry is not used: machine 1 and machine 2 start differently. `S2FS`: beside the
swapper, init and kthreadd two tasks may be forked, which gives siblings, a chain of
two below either of them, orphans, and a fork before, at or behind the cursor of the
walk; in `s2fs_forks` texts of two and three bytes and reads of one and two put the offset
before, at and behind the end (`s2fs_exits`, which is not about reads, has one byte). `SocketLayer`: two tasks, three free numbers and three inodes are
a socketpair against an accept, a close or a second create, and both tables can be
full. `Messages`: batches of two to two addresses or none, a queue of one. `UserCopy`: a
word of 16, limits of two and counts from -1 to 4, so that counts lie below, at and
above the limits and wrap. `RxStamp`: one packet, sent or received, with its three
clones; the theorem is about any number. `FirstFs`: two open files, a text
of three bytes. `ProcTree`: five tasks, which is a chain, a fork beside and below the
cursor. `Ex4` and `Proj2`: three tokens, numbers, empty and bad ones, with a negative
value and two that share a bucket or wrap. `Encrypt`: strings of up to four bytes, one
more than the limit. `Uffd`: three pages, two letters; `Part3` and `Bus`: two pages, two
addresses; `Greeting`: two bytes each way. `programs` checks several programs in one run, since each is small:
`Init` chooses one and the others stand still, so no state of one is multiplied by
another's.

Deadlock is not checked for `MSI` and `Handshake`: the program may stop when both
operators have typed their last command, and both processes may have exited; a
start-up may come to a stand where the timing assumptions fail. `s2fs_forks` checks
it: a reader or the kernel can always go on. `s2fs_exits` does not: after `Astray`
nothing is modelled. `sockets` checks it. `programs`, `uffd_third` and `bus_read` do not:
a program may end, and one that stopped the kernel has no further step.

Fairness. `MSI`: weak fairness of each menu, server and fault handler of a live
process. The threads are not blocked by each other and the scheduler runs them;
for the menu this includes that an operator who was asked for a line types one.
Commands themselves are not fair: nobody has to type. `Handshake`: weak fairness of
each thread, and both processes are started, as the program needs. `S2FS`: weak
fairness of the walk, that is, the process that mounts keeps running; forks are
bounded by the pids there are. Nothing is assumed of tasks and readers. `SocketLayer`: weak
fairness of a task inside the RCU section, which does not sleep there, and of a module
removal that has begun. `Messages`: weak fairness of the steps of `recvmmsg` that do not
wait; the wait for a datagram is not fair. `Bus`: weak fairness of the handler threads
and of a menu that is inside a command; neither a command nor a line on the terminal that
machine 2's handler reads (`ReadStdin`) is sure to come.

## Proofs

- `TypeCorrect` (`MSI_proofs`): `Spec => []TypeOK`, for every number of pages, page
  length, set of texts and bound. `TypeOK` is inductive.
- `IndexSafe` (`MSI_proofs`): `Spec => []PageNumInRange`. The invariant is not
  inductive: that a struct on the wire names a page follows from where its sender
  was. `RangeInv` says that `recv` and every struct in `req` name pages in both fields,
  that `temp_data.access_page` always does, that `temp_data.page_num` does except at the
  prompt and before the loop over all pages replaces the -1 (`MayBeAll`), and that what
  has been loaded for `access_page` is a page (`AtOff`). One lemma for `StoreTemp` and one for
  `Loadable` carry this through the races. The fault handler's index at line 123, which can be
  -1, is not part of it.
- `Implements`, `NoWriteLost`, `TurnsKeepOneOwner`, `ReadsAreFresh` (`MSI_proofs`):
  `SeqSpec => Coherent`, `SeqSpec => []LatestSurvives`, `SeqSpec => []OneModified` (which
  `msi_two_writers` refutes for operators who do not take turns), `SeqSpec => ReadGetsLatest`,
  for every number of pages and of commands. One invariant, `TurnInv`, carries all four. One machine, c, commands and its
  peer q serves (`Busy`); `Turn(c, q)` says where things are meanwhile. None of the four
  properties is inductive, since each depends on what is still on the wire:
  - A struct on the wire fits the state of its sender: shared for a read, modified for a
    write (`Wire`); no two structs are about one page, because the loop over all pages goes
    up (`Order`); a read is the only request under way (`Phase`), asked, at the peer or
    answered. So each page has one pending change at most, and without one the two
    states are a pair that `Coherence` allows (`Paired`).
  - `temp_data` goes back and forth with all its signals, and a `read_signal` left over for
    a page turns the next write to it into a read. `OwnClean` and `PeerClean` say that none
    is left for a page that one side owns, except where a struct about that page is to come.
  - The last text is in a valid copy of c, or in one of q that no struct is about to
    invalidate (`Holder`), and a modified copy has it (`Owner`). A page is cleared on a
    read only while it is invalid; the fault handler only clears what is clear (`Absent`).

  The refinement maps to `Promised`. `ReadState` and `WriteState` are the two abstract steps,
  every other step is a stutter; each has a lemma (`...Keeps`). The turn passes only when
  nothing is under way, and then the invariant does not tell the machines apart (`Swap`).
  TLC checked `TurnInv` before the proof, with bare Enters and garbage in the first struct.
- `SingleWriterHolds` (`Coherence_proofs`): in `Coherence` a modified copy is never
  beside a valid one, and a shared one never beside an invalid one.
- `RolesDiffer` (`Handshake_proofs`): `Spec => []StaggeredRoles`. `RoleInv` adds when a
  client has no role yet (`RoleSet`), and that with `"staggered"` one process is first
  (`FirstIsOne`): it is never machine 2, and either the other one is off, or the first is
  machine 1 and listens, so that the other's connection cannot fail.
- `WholeRead` (`S2FS_proofs`): `Spec => []ReadWhole`, for every set of pids, both text
  lengths, every read size, and with exits during the walk or without. `ReadInv`
  carries it: while the task has not changed, what was read is the text up to the
  offset (`Prefix`), and a reader that is closed has nothing (`ClosedBlank`). That is
  not enough for `ReadGone`, which ends a file early: one has to know that a task that
  is missed at the look-up has no mm now and gets none later (`MissIsFinal`), so that
  it must be a task that has been forked already (`FileForked`). That in turn comes
  from the tree (`TreeForked`), from the walk that made it (`WalkForked`), and from the
  sibling lists it followed (`ListsForked`, `Linked`, and `MmRuns`), which fork, exit
  and reap rearrange.
- `SecondFollows` (`Handshake_proofs`): `Spec => []SecondFollowsFirst`, with no assumption
  on time. `FollowInv` ties the two processes together through what is between them: a
  client knows its role from where it is (`RoleKnown`), a machine 1 sends one struct with
  its page count at most once (`OneStruct`), and a machine 2 that has gone on has taken
  over that struct (`TakenOver`).
- `MenusAreReady` (`Handshake_proofs`): `Spec => []MenuReady`, which is about behaviours with
  all three timing assumptions. `ReadyInv` is `RoleInv`, `FollowInv` and `Prepared`: what a
  machine of either role has by the time its handler starts (for machine 2 that is up to
  its server, which is where the sleep matters).
- `NamesStayUnique`, `TreeStaysComplete` (`S2FS_proofs`): if no task exits during a walk,
  `Spec => []NamesUnique` and `Spec => []TreeComplete`. `TreeInv` is `ReadInv` with two
  parts. `TaskTree`: a living task is in exactly one list, its parent is alive, and every
  set of tasks that is not empty and is without the swapper has a member whose parent is
  outside it (`Rooted`). Stated of sets, this is acyclicity, and it gives "every
  task descends from the swapper" without an induction. `MountInv`: the stack is a chain
  of parents and children (`Chain`), each frame stands in the directory made for its task
  (`Placed`), no two frames are at one task (`FramesApart`), a frame has made a file for
  every child up to its cursor and none behind it (`UpToCursor`), a call that returned has
  named every child of the snapshot (`Returned`), and a task of the snapshot stays in its list
  (`SnapHolds`); forks are linked in behind every cursor. At the end a task of the
  snapshot without a file would be in a set that `Rooted` gives a first member, whose
  parent has a file and a finished loop.
- `CountsAreExact`, `HeldStaysOpen`, `ModuleStays`, `HookStays`, `NumbersAreKept`
  (`SocketLayer_proofs`): `Accounted`, `UsedWhileOpen`, `PinnedModule`, `HookInPlace`, and
  the action property `DescriptorsKept`. The invariant is a ledger: a half-made socket and
  a reserved number have one task each (`Private`), a descriptor names an open socket
  (`Named`), and `f_count` is the number of entries, holders and makers of a socket
  (`Counted`); `Shapes` says what a task has in hand at each place, without which no error
  exit can be known to give back the right things; `ModuleInv` and `HookInv` count what
  pins the modules. The steps are classified by their effect on the ledger (reserve,
  allocate, give ops, open, install, look up, close, release, none), one lemma each, and
  an action is one of those plus a move of its task. The proof found one fault of the
  model: the arms of the `CASE` in `PostCreate` overlapped, and its meaning
  was left to the tool; it is an `IF` now, in the order of the code.
- `SendersAsk`, `SendersCount` (`Messages_proofs`): `SentAreApproved` and `CountIsSent`.
  `SendInv`: the remembered address is one that was asked about (`Approved`), what has gone
  out is the batch up to the entry the call is at (`SendProgress`), and which buffers
  may be held where (`Buffers`).
- `ReceiversCount`, `ReceiversTell` (`Messages_proofs`): `TakenAreCounted` and `ErrorIsKept`,
  from `RecvProgress`, which ties the count to what was taken at each place. An owed error is
  overwritten only together with `sk_err`; a call that is under way when an error is left
  behind is the one that leaves it, and the next one gets past `sock_error` only with
  `MSG_ERRQUEUE`.
- `HardwareStampOnce` (`Kernel_proofs`): `StampsApart`, from `ClonesStamped`: a clone on the
  error queue without a software stamp is one of a packet whose hardware stamp was taken.
- `MountsLoseNothing`, `ReadersGetText` (`Kernel_proofs`): `NothingLeft` and `ReadsText`
  with the types of the tree and of the open files. A mount that is not there has an empty
  tree; an offset is never past the text.
- `EncryptsEvery` (`Kernel_proofs`): `EncryptsWhole`. `LoopHalf`: at index i the buffer is
  the string with the characters before i shifted, and it ends with the zero the loop
  stops at (`Half`).
- `LimitsRestored`, `CopiesFit` (`Kernel_proofs`): `LimitFits` and `CopyFits`. `IoInv` says what is
  raised and locked at each statement of each function (`LimitByLabel`, with the old limit in the
  local variable it is restored from), and that a call has copied nothing into its object before it
  has measured it (`FreshSizes`). One lemma each for `Try`, `RaiseLimit`, `RestoreLimit`, the lock and the
  copies reduces a function to the places its statements lead to.
- `ClientGetsAll`, `FaultsAreOnce`, `SecondHasRegion`, `SignalsAreFew` (`User_proofs`):
  `AnswerWhole`, `ReadsAgree`, `SameRegion`, `BusHolds`. `GrInv`: how far question and answer have
  come, and that a reset is of a server that has left some of the question. `UfInv`: the pages
  fault in order, one fault each, all in the first loop (`FirstLoop`). `P3Inv`:
  where the threads of a machine can be together (`P3Places`), and where the region comes
  from (`P3Region`). `BusInv`: a handler that left `poll` has a thread asleep in a fault
  (`BusPlaces`), and handler 1 never reads the terminal.

- `TreeIsReadable` (`Kernel_proofs`): `TreeReadable`, for every number of tasks. `PtInv` has
  the tasks (`TasksInv`: a parent is older than its child, and the lists hold each task once,
  under its parent, the oldest first), the stack (`Frames`: it leads down the tree, and
  `space` is its depth), and the text. `DonePrinted`: of the children of a frame's task
  those are printed that the frame has passed, so none is printed twice. `LinesBelow`: since
  the line of a frame's task every line has been indented deeper, which makes that line
  the one a reader takes for the parent. `LeftComplete`: a task that the walk has left has all
  children printed that it had at the start. At the end the stack is empty, and the least task
  that was missing would have a parent that is printed and left.
- `InsmodAccountsHolds` (`Kernel_proofs`): `InsmodAccounts`, for every parameter. `Ex4Inv`:
  `rest` is the part of `int_str` that is still to be taken, the list is `Selected` of what
  was taken, and the heap counts the list.
- `ReadsShowInput` (`Kernel_proofs`): `ShowsInput`, for every parameter, number of buckets and
  width. `P2Inv`: between two reads the structures are empty; while the parameter is parsed
  they hold the integers taken so far (`Stored`: the list in order, each value in its bucket
  as often as given, the trees as sets, the radix tree by key). That the
  four printed rows are then the ones promised takes lemmas on the operators:
  concatenating the buckets keeps how often a value occurs (`HashRowCount`), a
  sequence that enumerates a set upwards is `Ascending` of it (`AscendingIs`), and
  keys upwards are the values that are not negative upwards, then the negative ones
  (`RadixRow`).

The last two are about recursive functions. The library's induction theorems have an
operator as a parameter and cannot be used; what can is that every set of naturals that is
not empty has a least member (`NatMin`, from the well-foundedness of <), and with it
induction over a set (`Inductive`). That a recursive function satisfies its equation is
shown the same way, from a function for each prefix (`SelectedDef`).

The assumptions of the proofs are the ASSUMEs on the constants, which TLC evaluates on
every run, and the hypothesis on `ExitInWalk` where a theorem has one; the
runs `handshake_roles` and `s2fs_exits` show that the roles may agree without
`"staggered"` and that the walk fails with exits. Every safety invariant, every action
property and the refinement that a passing run checks is proved. Only model-checked:
- `ReadReturns`, `QuitPropagates`, `BothStart`, `MountReturns`, `RemovalEnds`,
  `OneIsEnough`, `FaultEnds`: liveness under fairness, which the prover does not handle.

## Plan

1. `MSI`, `Coherence`, `Handshake`, `S2FS` and their first theorems: done.
2. The socket layer, the other kernel modules, the user programs: done.
3. Proofs about the shared memory with operators who take turns, the start-up, the mount,
   the socket layer, the batches, the copies, the small file system, encryption, and the
   user programs: done.
4. Proofs about the process tree, `ex4` and `proj2`: done. No safety property of a passing
   run is left; the liveness properties stay with TLC.

## Not modelled

- In `socket.c`: extended attributes and `setattr` of sockfs, `sock_init`,
  `sock_wake_async`, the wifi status and the IP overhead. They keep no state that the
  rest of the file reads.
- Reads of `/proc/proj2` that overlap. The four structures have no lock; two readers
  free what the other one walks, and what then happens is not defined by the code.
- `write` in part 4 of `s2fs`, which stores through a pointer into a stack frame that is
  gone; failing allocations there.
- A `proc_info` of `Project_3_new/part4` that arrives in pieces: what the program does
  with a torn struct depends on the layout of the struct.
- `part2.c` and `part2_v2` of Project_3, earlier attempts at `part22.c` and `part3.c`.
- The text of the menus and of log messages; `syscalls.h`, which only declares; modules
  that print a line; generated `*.mod.c` and `*.cmd` files; backups (`*~`, `*.bu*`,
  `backup*.c`, submission directories), which are copies or earlier states of files that
  are modelled.
