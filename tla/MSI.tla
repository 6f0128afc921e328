-------------------------------- MODULE MSI --------------------------------
(***************************************************************************)
(* The two-machine distributed shared memory of                            *)
(* src/Project_3_new/part4/part4.c.                                        *)
(*                                                                         *)
(* Each machine is one process with three threads: the menu (which plays   *)
(* the client: it sends proc_info structs on client_fd and reads the       *)
(* page text that answers a read request), the server (which reads those   *)
(* structs from new_socket and reacts to them) and the userfaultfd fault   *)
(* handler.  The threads of a machine share list_MSI, temp_data and the    *)
(* mapped pages without any lock, so every access to one of them that      *)
(* another thread can get in between is a step of its own.                 *)
(***************************************************************************)
EXTENDS Integers, Sequences, FiniteSets

CONSTANTS
    PageCount,      \* temp_data.page_count, what the operator typed at start-up
    PageLen,        \* bytes of a page the model tells apart
    Chars,          \* the characters the operators type
    Texts,          \* the lines they type; <<>> is a bare Enter
    FreshBufs,      \* what malloc may return: message and recv_message at start
    UninitPages,    \* pages whose signals in the first proc_info are garbage
    MaxOps          \* bound: commands typed, at both terminals together

NUL == "nul"
SPACE == "space"
Bytes == Chars \cup {NUL, SPACE}
Buf == [1 .. PageLen -> Bytes]

ASSUME PageCountAssumption == PageCount \in Nat \ {0}
ASSUME PageLenAssumption == PageLen \in Nat \ {0}
ASSUME CharsAssumption == NUL \notin Chars
ASSUME TextsAssumption == \A t \in Texts : t \in Seq(Chars) /\ Len(t) < PageLen
ASSUME FreshAssumption == \A b \in FreshBufs : b \in Buf /\ b[PageLen] = NUL
ASSUME UninitAssumption == UninitPages \subseteq 0 .. PageCount - 1
ASSUME MaxOpsAssumption == MaxOps \in Nat

Machines == {1, 2}
Other(p) == 3 - p
Pages == 0 .. PageCount - 1

VARIABLES
    alive,      \* alive[p]: process p has not exited
    ops,        \* commands typed so far
    mpc,        \* where p's menu thread is
    idx,        \* menu's index / count: the page it is at
    all,        \* the operator asked for -1, all pages
    off,        \* the page_num menu has loaded to compute access_page from
    message,    \* menu's message buffer: the text typed last
    recvbuf,    \* recv_message, the buffer replies are read into
    spc,        \* where p's server thread is
    recv,       \* server's recv_data
    temp,       \* temp_data, shared by menu and server
    msi,        \* list_MSI, shared by menu and server
    mem,        \* the mapped pages at addr
    present,    \* pages that are mapped in: touching another one faults
    req,        \* req[p]: structs p sent that p's peer has not read
    rep,        \* rep[p]: reply bytes on their way to p's client_fd
    latest      \* latest[k]: text page k held right after its last write

vars == <<alive, ops, mpc, idx, all, off, message, recvbuf, spc, recv, temp,
          msi, mem, present, req, rep, latest>>
-----------------------------------------------------------------------------
(* Data: pages and buffers as C strings, MSI states as three flags.        *)

Zeroed == [i \in 1 .. PageLen |-> NUL]

\* strlen: the cells before the first NUL.
Strlen(b) == Cardinality({i \in 1 .. PageLen : \A j \in 1 .. i : b[j] # NUL})

\* The C string a buffer holds.
Text(b) == [i \in 1 .. Strlen(b) |-> b[i]]

\* memcpy(b, t, strlen(t)) and read(fd, b, n): no terminator is written, the
\* tail of what was there stays.
Overlay(b, t) == [i \in 1 .. PageLen |-> IF i <= Len(t) THEN t[i] ELSE b[i]]

\* scanf("%[^\n]s", message): a bare Enter matches nothing and leaves message.
Typed(old, t) == IF t = <<>> THEN old ELSE t

Flags == [M : BOOLEAN, S : BOOLEAN, I : BOOLEAN]
Modified == [M |-> TRUE, S |-> FALSE, I |-> FALSE]
Shared == [M |-> FALSE, S |-> TRUE, I |-> FALSE]
Invalid == [M |-> FALSE, S |-> FALSE, I |-> TRUE]

\* The flags are stored one by one: what is between s and t.
Torn(s, t) == {[M |-> m, S |-> h, I |-> i] :
                 m \in {s.M, t.M}, h \in {s.S, t.S}, i \in {s.I, t.I}}

\* proc_info.  A signal array is the set of the pages whose entry is 1.
\* addr and page_count do not change after start-up, pagefault_signal only
\* decides whether the handler clears a page that is already clear, and
\* flush is never used.  access_page is counted in pages.
ProcInfo == [page_num : Pages \cup {-1}, access_page : Pages \cup {-1},
             read_signal : SUBSET Pages, invalidate_signal : SUBSET Pages,
             BusRdx : SUBSET Pages, BusUpgr : SUBSET Pages]
Signals == {"read_signal", "invalidate_signal", "BusRdx", "BusUpgr"}
Fields == {"page_num", "access_page"} \cup Signals

Blank == [page_num |-> 0, access_page |-> 0, read_signal |-> {},
          invalidate_signal |-> {}, BusRdx |-> {}, BusUpgr |-> {}]

\* A struct of which the fields in F were taken from a, the others from b.
Mixed(F, a, b) ==
    [page_num |-> IF "page_num" \in F THEN a.page_num ELSE b.page_num,
     access_page |-> IF "access_page" \in F THEN a.access_page ELSE b.access_page,
     read_signal |-> IF "read_signal" \in F THEN a.read_signal ELSE b.read_signal,
     invalidate_signal |-> IF "invalidate_signal" \in F
                             THEN a.invalidate_signal ELSE b.invalidate_signal,
     BusRdx |-> IF "BusRdx" \in F THEN a.BusRdx ELSE b.BusRdx,
     BusUpgr |-> IF "BusUpgr" \in F THEN a.BusUpgr ELSE b.BusUpgr]

MenuPC == {"prompt", "r_off", "r_page", "r_check", "r_memset", "r_flags",
           "r_state", "r_send", "r_wait", "r_local", "w_type", "w_num", "w_check",
           "w_rdx", "w_upgr", "w_state", "w_off", "w_page", "w_copy", "w_send"}
ServerPC == {"recv", "copy", "react", "flush", "toS", "toS_none", "no_data",
             "toI"}

\* Machine 2 starts from the struct machine 1 sent, of which machine 1 set
\* only addr and page_count: the signals are whatever was on its stack.
Init ==
    /\ alive = [p \in Machines |-> TRUE]
    /\ ops = 0
    /\ mpc = [p \in Machines |-> "prompt"]
    /\ idx = [p \in Machines |-> 0]
    /\ all = [p \in Machines |-> FALSE]
    /\ off = [p \in Machines |-> 0]
    /\ message \in [Machines -> {Text(b) : b \in FreshBufs}]
    /\ recvbuf \in [Machines -> FreshBufs]
    /\ spc = [p \in Machines |-> "recv"]
    /\ recv = [p \in Machines |-> Blank]
    /\ \E garbage \in [Signals -> SUBSET UninitPages] :
          temp = [p \in Machines |->
                    IF p = 1 THEN Blank
                    ELSE [Blank EXCEPT !.read_signal = garbage["read_signal"],
                                       !.invalidate_signal = garbage["invalidate_signal"],
                                       !.BusRdx = garbage["BusRdx"],
                                       !.BusUpgr = garbage["BusUpgr"]]]
    /\ msi = [p \in Machines |-> [k \in Pages |-> Invalid]]
    /\ mem = [p \in Machines |-> [k \in Pages |-> Zeroed]]
    /\ present = [p \in Machines |-> {}]
    /\ req = [p \in Machines |-> <<>>]
    /\ rep = [p \in Machines |-> <<>>]
    /\ latest = [k \in Pages |-> <<>>]
-----------------------------------------------------------------------------
(* Shared memory without locks.  A store that is alone takes effect as it  *)
(* stands; one that meets the other thread's store to the same object      *)
(* leaves, field by field, one of the two values.                          *)

\* The menu stores to fields of temp_data: own is the struct after the store
\* was made to temp_data, late after it was made to what the server copies in.
StoreTemp(p, own, late) ==
    \/ /\ temp' = [temp EXCEPT ![p] = own]
       /\ UNCHANGED spc
    \/ /\ spc[p] = "copy"
       /\ \E F \in SUBSET Fields :
             temp' = [temp EXCEPT ![p] = Mixed(F, late, recv[p])]
       /\ spc' = [spc EXCEPT ![p] = "react"]

\* What the menu may read out of temp_data, field by field: send, and the test
\* and the index of a state change.
Loadable(p) ==
    IF spc[p] = "copy"
      THEN {Mixed(F, temp[p], recv[p]) : F \in SUBSET Fields}
      ELSE {temp[p]}

\* The state the server is about to store in list_MSI, and what it does next.
ServerStores == {"toS", "toS_none", "toI"}
ServerState(pc) == IF pc = "toI" THEN Invalid ELSE Shared
AfterStore(pc) == IF pc = "toS_none" THEN "no_data" ELSE "recv"

\* The menu stores state s for page k in list_MSI.
StoreState(p, k, s) ==
    \/ /\ msi' = [msi EXCEPT ![p][k] = s]
       /\ UNCHANGED spc
    \/ /\ spc[p] \in ServerStores
       /\ recv[p].page_num = k
       /\ \E t \in Torn(s, ServerState(spc[p])) : msi' = [msi EXCEPT ![p][k] = t]
       /\ spc' = [spc EXCEPT ![p] = AfterStore(@)]

\* What the menu may find in entry k while the server is storing to it.
MenuSees(p, k) ==
    IF spc[p] \in ServerStores /\ recv[p].page_num = k
      THEN Torn(msi[p][k], ServerState(spc[p])) ELSE {msi[p][k]}

\* What the server may find in entry k while the menu is storing to it.
ServerSees(p, k) ==
    IF mpc[p] = "w_state" /\ idx[p] = k THEN Torn(msi[p][k], Modified)
    ELSE IF mpc[p] = "r_state" /\ temp[p].page_num = k THEN Torn(msi[p][k], Shared)
    ELSE {msi[p][k]}

\* The page has been mapped in by the fault handler.
Mapped(p, k) == k \in present[p]
-----------------------------------------------------------------------------
(* The menu.                                                               *)

At(p, pc) == alive[p] /\ mpc[p] = pc
Goto(p, pc) == mpc' = [mpc EXCEPT ![p] = pc]

\* The end of one page: the next one with -1, else the prompt.
MutNextPage(p, first) ==
    IF all[p] /\ idx[p] < PageCount
      THEN /\ idx' = [idx EXCEPT ![p] = @ + 1]
           /\ mpc' = [mpc EXCEPT ![p] = first]
           /\ UNCHANGED all
      ELSE /\ idx' = [idx EXCEPT ![p] = 0]
           /\ mpc' = [mpc EXCEPT ![p] = "prompt"]
           /\ all' = [all EXCEPT ![p] = FALSE]
NextPage(p, first) ==
    IF all[p] /\ idx[p] + 1 < PageCount
      THEN /\ idx' = [idx EXCEPT ![p] = @ + 1]
           /\ mpc' = [mpc EXCEPT ![p] = first]
           /\ UNCHANGED all
      ELSE /\ idx' = [idx EXCEPT ![p] = 0]
           /\ mpc' = [mpc EXCEPT ![p] = "prompt"]
           /\ all' = [all EXCEPT ![p] = FALSE]

\* A command and its page number: scanf stores k into temp_data.page_num and
\* index is loaded from there.  Between the two the server may copy a request
\* in, and then index is the page of that request.
Command(p, k, single, every) ==
    /\ At(p, "prompt")
    /\ ops < MaxOps
    /\ ops' = ops + 1
    /\ StoreTemp(p, [temp[p] EXCEPT !.page_num = k],
                    [recv[p] EXCEPT !.page_num = k])
    /\ \E i \in {k, temp'[p].page_num} :
          /\ idx' = [idx EXCEPT ![p] = IF i = -1 THEN 0 ELSE i]
          /\ all' = [all EXCEPT ![p] = i = -1]
          /\ Goto(p, IF i = -1 THEN every ELSE single)
    /\ UNCHANGED <<alive, off, message, recvbuf, recv, msi, mem, present, req, rep,
                   latest>>

StartRead(p, k) == Command(p, k, "r_off", "r_page")

StartWrite(p, k) == Command(p, k, "w_check", "w_type")

\* 'v' prints list_MSI; what stays is the page number.
View(p, k) ==
    /\ At(p, "prompt")
    /\ ops < MaxOps
    /\ ops' = ops + 1
    /\ StoreTemp(p, [temp[p] EXCEPT !.page_num = k],
                    [recv[p] EXCEPT !.page_num = k])
    /\ UNCHANGED <<alive, mpc, idx, all, off, message, recvbuf, recv, msi, mem,
                   present, req, rep, latest>>

Quit(p) ==
    /\ At(p, "prompt")
    /\ alive' = [alive EXCEPT ![p] = FALSE]
    /\ UNCHANGED <<ops, mpc, idx, all, off, message, recvbuf, spc, recv, temp,
                   msi, mem, present, req, rep, latest>>

(* Reading a page.                                                         *)

\* A single page: access_page is computed from page_num, a load of temp_data
\* and a store to it, after which off is dead (0).
LoadPage(p, from, to) ==
    /\ At(p, from)
    /\ off' = [off EXCEPT ![p] = temp[p].page_num]
    /\ Goto(p, to)
    /\ UNCHANGED <<alive, ops, idx, all, message, recvbuf, spc, recv, temp, msi, mem,
                   present, req, rep, latest>>

ReadOff(p) == LoadPage(p, "r_off", "r_page")

\* With -1 the loop sets page_num and access_page from its counter.
MutPageOf(p, t) == IF all[p] THEN [t EXCEPT !.page_num = idx[p]] ELSE t
PageOf(p, t) == IF all[p] THEN [t EXCEPT !.page_num = idx[p], !.access_page = idx[p]]
                          ELSE [t EXCEPT !.access_page = off[p]]

ReadPage(p) ==
    /\ At(p, "r_page")
    /\ StoreTemp(p, PageOf(p, temp[p]), PageOf(p, recv[p]))
    /\ off' = [off EXCEPT ![p] = 0]
    /\ Goto(p, "r_check")
    /\ UNCHANGED <<alive, ops, idx, all, message, recvbuf, recv, msi, mem,
                   present, req, rep, latest>>

ReadCheck(p) ==
    /\ At(p, "r_check")
    /\ \E s \in MenuSees(p, idx[p]) :
          \/ /\ s.I
             /\ Goto(p, "r_memset")
             /\ UNCHANGED <<idx, all>>
          \/ /\ ~s.I /\ (s.S \/ s.M)
             /\ Goto(p, "r_local")
             /\ UNCHANGED <<idx, all>>
          \/ /\ ~s.I /\ ~s.S /\ ~s.M
             /\ NextPage(p, "r_page")
    /\ UNCHANGED <<alive, ops, off, message, recvbuf, spc, recv, temp, msi, mem,
                   present, req, rep, latest>>

\* A valid page is printed from the local mapping.
ReadLocal(p) ==
    /\ At(p, "r_local")
    /\ Mapped(p, temp[p].access_page)
    /\ NextPage(p, "r_page")
    /\ UNCHANGED <<alive, ops, off, message, recvbuf, spc, recv, temp, msi, mem,
                   present, req, rep, latest>>

\* An invalid page is cleared before it is asked for.
ReadMemset(p) ==
    /\ At(p, "r_memset")
    /\ Mapped(p, temp[p].access_page)
    /\ mem' = [mem EXCEPT ![p][temp[p].access_page] = Zeroed]
    /\ Goto(p, "r_flags")
    /\ UNCHANGED <<alive, ops, idx, all, off, message, recvbuf, spc, recv, temp,
                   msi, present, req, rep, latest>>

ReadRequest(t, k) == [t EXCEPT !.read_signal = @ \cup {k},
                               !.invalidate_signal = @ \ {k}]

ReadFlags(p) ==
    /\ At(p, "r_flags")
    /\ StoreTemp(p, ReadRequest(temp[p], idx[p]), ReadRequest(recv[p], idx[p]))
    /\ Goto(p, "r_state")
    /\ UNCHANGED <<alive, ops, idx, all, off, message, recvbuf, recv, msi, mem,
                   present, req, rep, latest>>

\* The page goes to shared before the request is sent.  Both the test and
\* the index come from temp_data, which the server may have replaced or be
\* replacing.  The three flags are stored through one load of page_num.
ReadState(p) ==
    /\ At(p, "r_state")
    /\ \E t \in Loadable(p) :
          IF idx[p] \in t.read_signal
            THEN StoreState(p, t.page_num, Shared)
            ELSE UNCHANGED <<msi, spc>>
    /\ Goto(p, "r_send")
    /\ UNCHANGED <<alive, ops, idx, all, off, message, recvbuf, recv, temp, mem,
                   present, req, rep, latest>>

ReadSend(p) ==
    /\ At(p, "r_send")
    /\ \E m \in Loadable(p) : req' = [req EXCEPT ![p] = Append(@, m)]
    /\ Goto(p, "r_wait")
    /\ UNCHANGED <<alive, ops, idx, all, off, message, recvbuf, spc, recv, temp,
                   msi, mem, present, rep, latest>>

ReadDone(t, k) == [t EXCEPT !.read_signal = @ \ {k}]

\* read(client_fd, recv_message, page_size) returns with what has arrived.
ReadReply(p) ==
    /\ At(p, "r_wait")
    /\ rep[p] # <<>>
    /\ recvbuf' = [recvbuf EXCEPT ![p] = Overlay(@, rep[p])]
    /\ rep' = [rep EXCEPT ![p] = SubSeq(@, PageLen + 1, Len(@))]
    /\ StoreTemp(p, ReadDone(temp[p], idx[p]), ReadDone(recv[p], idx[p]))
    /\ NextPage(p, "r_page")
    /\ UNCHANGED <<alive, ops, off, message, recv, msi, mem, present, req,
                   latest>>

\* The peer has exited: read returns 0 or -1, which nobody looks at.  A reset
\* also drops what was on its way.
ReadEOF(p) ==
    /\ At(p, "r_wait")
    /\ ~alive[Other(p)]
    /\ rep' = [rep EXCEPT ![p] = <<>>]
    /\ StoreTemp(p, ReadDone(temp[p], idx[p]), ReadDone(recv[p], idx[p]))
    /\ NextPage(p, "r_page")
    /\ UNCHANGED <<alive, ops, off, message, recvbuf, recv, msi, mem, present,
                   req, latest>>

(* Writing a page.                                                         *)

\* The line is typed once: after the state change of a single page, before
\* the loop over all of them.
WriteType(p, t) ==
    /\ At(p, "w_type")
    /\ message' = [message EXCEPT ![p] = Typed(@, t)]
    /\ Goto(p, IF all[p] THEN "w_num" ELSE "w_copy")
    /\ UNCHANGED <<alive, ops, idx, all, off, recvbuf, spc, recv, temp, msi, mem,
                   present, req, rep, latest>>

MutWriteNum(p) ==
    /\ At(p, "w_num")
    /\ Goto(p, "w_check")
    /\ UNCHANGED <<alive, ops, idx, all, off, message, recvbuf, spc, recv, temp,
                   msi, mem, present, req, rep, latest>>
WriteNum(p) ==
    /\ At(p, "w_num")
    /\ StoreTemp(p, [temp[p] EXCEPT !.page_num = idx[p]],
                    [recv[p] EXCEPT !.page_num = idx[p]])
    /\ Goto(p, "w_check")
    /\ UNCHANGED <<alive, ops, idx, all, off, message, recvbuf, recv, msi, mem,
                   present, req, rep, latest>>

WriteCheck(p) ==
    /\ At(p, "w_check")
    /\ \E s \in MenuSees(p, idx[p]) :
          Goto(p, IF s.I THEN "w_rdx" ELSE IF s.S THEN "w_upgr" ELSE "w_state")
    /\ UNCHANGED <<alive, ops, idx, all, off, message, recvbuf, spc, recv, temp,
                   msi, mem, present, req, rep, latest>>

\* The bus signal goes up, the page is to be invalidated, not read.
MutRdxRequest(t, k) == [t EXCEPT !.BusRdx = @ \cup {k},
                                 !.invalidate_signal = @ \cup {k}]
RdxRequest(t, k) == [t EXCEPT !.BusRdx = @ \cup {k},
                              !.invalidate_signal = @ \cup {k},
                              !.read_signal = @ \ {k}]
UpgrRequest(t, k) == [t EXCEPT !.BusUpgr = @ \cup {k},
                               !.invalidate_signal = @ \cup {k},
                               !.read_signal = @ \ {k}]

WriteFlags(p) ==
    /\ \/ /\ At(p, "w_rdx")
          /\ StoreTemp(p, RdxRequest(temp[p], idx[p]), RdxRequest(recv[p], idx[p]))
       \/ /\ At(p, "w_upgr")
          /\ StoreTemp(p, UpgrRequest(temp[p], idx[p]), UpgrRequest(recv[p], idx[p]))
    /\ Goto(p, "w_state")
    /\ UNCHANGED <<alive, ops, idx, all, off, message, recvbuf, recv, msi, mem,
                   present, req, rep, latest>>

WriteState(p) ==
    /\ At(p, "w_state")
    /\ StoreState(p, idx[p], Modified)
    /\ Goto(p, "w_off")
    /\ UNCHANGED <<alive, ops, idx, all, off, message, recvbuf, recv, temp, mem,
                   present, req, rep, latest>>

WriteOff(p) == LoadPage(p, "w_off", "w_page")

MutWritePage(p) ==
    /\ At(p, "w_page")
    /\ Goto(p, IF all[p] THEN "w_copy" ELSE "w_type")
    /\ UNCHANGED <<alive, ops, idx, all, off, message, recvbuf, spc, recv, temp,
                   msi, mem, present, req, rep, latest>>
WritePage(p) ==
    /\ At(p, "w_page")
    /\ StoreTemp(p, [temp[p] EXCEPT !.access_page = off[p]],
                    [recv[p] EXCEPT !.access_page = off[p]])
    /\ off' = [off EXCEPT ![p] = 0]
    /\ Goto(p, IF all[p] THEN "w_copy" ELSE "w_type")
    /\ UNCHANGED <<alive, ops, idx, all, message, recvbuf, recv, msi, mem,
                   present, req, rep, latest>>

\* memcpy of strlen(message) bytes; a single page is printed as well, so it
\* is touched even when there is nothing to copy.
WriteCopy(p) ==
    /\ At(p, "w_copy")
    /\ Mapped(p, temp[p].access_page) \/ (all[p] /\ message[p] = <<>>)
    /\ LET k == temp[p].access_page
           b == Overlay(mem[p][k], message[p])
       IN  /\ mem' = [mem EXCEPT ![p][k] = b]
           /\ latest' = [latest EXCEPT ![k] = Text(b)]
    /\ Goto(p, "w_send")
    /\ UNCHANGED <<alive, ops, idx, all, off, message, recvbuf, spc, recv, temp,
                   msi, present, req, rep>>

WriteSend(p) ==
    /\ At(p, "w_send")
    /\ \E m \in Loadable(p) : req' = [req EXCEPT ![p] = Append(@, m)]
    /\ NextPage(p, "w_num")
    /\ UNCHANGED <<alive, ops, off, message, recvbuf, spc, recv, temp, msi, mem,
                   present, rep, latest>>
-----------------------------------------------------------------------------
(* The server.                                                             *)

ServerAt(p, pc) == alive[p] /\ spc[p] = pc

Receive(p) ==
    /\ ServerAt(p, "recv")
    /\ req[Other(p)] # <<>>
    /\ recv' = [recv EXCEPT ![p] = Head(req[Other(p)])]
    /\ req' = [req EXCEPT ![Other(p)] = Tail(@)]
    /\ spc' = [spc EXCEPT ![p] = "copy"]
    /\ UNCHANGED <<alive, ops, mpc, idx, all, off, message, recvbuf, temp, msi,
                   mem, present, rep, latest>>

\* read returned 0 or less: the whole process exits, menu included.
MutPeerGone(p) ==
    /\ ServerAt(p, "recv")
    /\ FALSE
PeerGone(p) ==
    /\ ServerAt(p, "recv")
    /\ ~alive[Other(p)]
    /\ alive' = [alive EXCEPT ![p] = FALSE]
    /\ UNCHANGED <<ops, mpc, idx, all, off, message, recvbuf, spc, recv, temp,
                   msi, mem, present, req, rep, latest>>

\* temp_data = recv_data
CopyIn(p) ==
    /\ ServerAt(p, "copy")
    /\ temp' = [temp EXCEPT ![p] = recv[p]]
    /\ spc' = [spc EXCEPT ![p] = "react"]
    /\ UNCHANGED <<alive, ops, mpc, idx, all, off, message, recvbuf, recv, msi,
                   mem, present, req, rep, latest>>

\* The four-way reaction to a request r; "recv" is no reaction.  The first
\* three tests find the flags s, the last one reads them again and finds u.
MutReaction(s, u, r) ==
    LET k == r.page_num
        reading == k \in r.read_signal
    IN  IF ~s.I /\ (k \in r.BusUpgr \/ k \in r.BusRdx) THEN "toI"
        ELSE IF s.M /\ reading THEN "flush"
        ELSE IF s.I /\ reading THEN "toS_none"
        ELSE IF (u.M \/ u.S) /\ (~reading \/ k \in r.invalidate_signal) THEN "toI"
        ELSE "recv"
Reaction(s, u, r) ==
    LET k == r.page_num
        reading == k \in r.read_signal
    IN  IF s.M /\ reading THEN "flush"
        ELSE IF s.S /\ (k \in r.BusUpgr \/ k \in r.BusRdx) THEN "toI"
        ELSE IF s.I /\ reading THEN "toS_none"
        ELSE IF (u.M \/ u.S) /\ (~reading \/ k \in r.invalidate_signal) THEN "toI"
        ELSE "recv"

React(p) ==
    /\ ServerAt(p, "react")
    /\ \E s, u \in ServerSees(p, recv[p].page_num) :
          spc' = [spc EXCEPT ![p] = Reaction(s, u, recv[p])]
    /\ UNCHANGED <<alive, ops, mpc, idx, all, off, message, recvbuf, recv, temp, msi,
                   mem, present, req, rep, latest>>

\* The page temp_data.access_page names is sent up to its first NUL.
Flush(p) ==
    /\ ServerAt(p, "flush")
    /\ Mapped(p, temp[p].access_page)
    /\ rep' = [rep EXCEPT ![Other(p)] = @ \o Text(mem[p][temp[p].access_page])]
    /\ spc' = [spc EXCEPT ![p] = "toS"]
    /\ UNCHANGED <<alive, ops, mpc, idx, all, off, message, recvbuf, recv, temp,
                   msi, mem, present, req, latest>>

\* The three flags of the page the request names.
ServerStore(p) ==
    /\ alive[p]
    /\ spc[p] \in ServerStores
    /\ msi' = [msi EXCEPT ![p][recv[p].page_num] = ServerState(spc[p])]
    /\ spc' = [spc EXCEPT ![p] = AfterStore(@)]
    /\ UNCHANGED <<alive, ops, mpc, idx, all, off, message, recvbuf, recv, temp,
                   mem, present, req, rep, latest>>

NoData(p) ==
    /\ ServerAt(p, "no_data")
    /\ rep' = [rep EXCEPT ![Other(p)] = Append(@, SPACE)]
    /\ spc' = [spc EXCEPT ![p] = "recv"]
    /\ UNCHANGED <<alive, ops, mpc, idx, all, off, message, recvbuf, recv, temp,
                   msi, mem, present, req, latest>>
-----------------------------------------------------------------------------
(* The kernel.                                                             *)

\* A thread that touches temp_data.access_page: memset, printf, memcpy, strlen.
Touching(p) ==
    \/ mpc[p] \in {"r_memset", "r_local"}
    \/ mpc[p] = "w_copy" /\ ~(all[p] /\ message[p] = <<>>)
    \/ spc[p] = "flush"

\* The fault handler copies its page of zeros to where the fault was.  Its test
\* of temp_data.pagefault_signal[temp_data.page_num] only decides whether that
\* page, which is zero already, is cleared once more, so what it finds is left
\* open; page_num may be the -1 of "all pages" there when it is the server that
\* faults, and then the field before the array is read (see the README).
FaultHandler(p) ==
    /\ alive[p]
    /\ Touching(p)
    /\ temp[p].access_page \in Pages \ present[p]
    /\ present' = [present EXCEPT ![p] = @ \cup {temp[p].access_page}]
    /\ mem' = [mem EXCEPT ![p][temp[p].access_page] = Zeroed]
    /\ UNCHANGED <<alive, ops, mpc, idx, all, off, message, recvbuf, spc, recv,
                   temp, msi, req, rep, latest>>

\* A send on a connection the peer has reset: SIGPIPE is not handled.
SigPipe(p) ==
    /\ alive[p] /\ ~alive[Other(p)]
    /\ mpc[p] \in {"r_send", "w_send"} \/ spc[p] \in {"flush", "no_data"}
    /\ alive' = [alive EXCEPT ![p] = FALSE]
    /\ UNCHANGED <<ops, mpc, idx, all, off, message, recvbuf, spc, recv, temp,
                   msi, mem, present, req, rep, latest>>
-----------------------------------------------------------------------------
(* Specifications.                                                         *)

Commands(p) ==
    \/ \E k \in Pages \cup {-1} : StartRead(p, k) \/ StartWrite(p, k) \/ View(p, k)
    \/ Quit(p)

Menu(p) ==
    \/ ReadOff(p) \/ ReadPage(p) \/ ReadCheck(p) \/ ReadLocal(p) \/ ReadMemset(p)
    \/ ReadFlags(p) \/ ReadState(p) \/ ReadSend(p) \/ ReadReply(p) \/ ReadEOF(p)
    \/ \E t \in Texts : WriteType(p, t)
    \/ WriteNum(p) \/ WriteCheck(p) \/ WriteFlags(p) \/ WriteState(p)
    \/ WriteOff(p) \/ WritePage(p) \/ WriteCopy(p) \/ WriteSend(p)

Server(p) ==
    \/ Receive(p) \/ PeerGone(p) \/ CopyIn(p) \/ React(p) \/ Flush(p)
    \/ ServerStore(p) \/ NoData(p)

Step(p) == Menu(p) \/ Server(p) \/ FaultHandler(p) \/ SigPipe(p)

\* Nothing is under way anywhere.
Quiescent ==
    \A p \in Machines : /\ alive[p]
                        /\ mpc[p] = "prompt"
                        /\ spc[p] = "recv"
                        /\ req[p] = <<>>
                        /\ rep[p] = <<>>

\* Two operators who type whenever their prompt is there.
Next == \E p \in Machines : Commands(p) \/ Step(p)

\* Two operators who take turns: a command is typed when the one before it,
\* at either terminal, has run its course.
SeqNext == \E p \in Machines : (Quiescent /\ Commands(p)) \/ Step(p)

\* Two operators who type at will, and only write.
WriteNext ==
    \E p \in Machines : (\E k \in Pages \cup {-1} : StartWrite(p, k)) \/ Step(p)

\* Every thread of a live process keeps running.
Fairness ==
    \A p \in Machines :
        WF_vars(Menu(p)) /\ WF_vars(Server(p)) /\ WF_vars(FaultHandler(p))

Spec == Init /\ [][Next]_vars
WriteSpec == Init /\ [][WriteNext]_vars
SeqSpec == Init /\ [][SeqNext]_vars
FairSpec == Spec /\ Fairness
SeqFairSpec == SeqSpec /\ Fairness
-----------------------------------------------------------------------------
(* Properties.                                                             *)

\* Every variable has its type.
TypeOK ==
    /\ alive \in [Machines -> BOOLEAN]
    /\ ops \in 0 .. MaxOps
    /\ mpc \in [Machines -> MenuPC]
    /\ idx \in [Machines -> Pages]
    /\ all \in [Machines -> BOOLEAN]
    /\ off \in [Machines -> Pages \cup {-1}]
    /\ message \in [Machines -> Seq(Bytes)]
    /\ recvbuf \in [Machines -> Buf]
    /\ spc \in [Machines -> ServerPC]
    /\ recv \in [Machines -> ProcInfo]
    /\ temp \in [Machines -> ProcInfo]
    /\ msi \in [Machines -> [Pages -> Flags]]
    /\ mem \in [Machines -> [Pages -> Buf]]
    /\ present \in [Machines -> SUBSET Pages]
    /\ req \in [Machines -> Seq(ProcInfo)]
    /\ rep \in [Machines -> Seq(Bytes)]
    /\ latest \in [Pages -> Seq(Bytes)]

\* list_MSI is indexed with recv_data.page_num and, where a read goes to shared,
\* with temp_data.page_num, the mapping with temp_data.access_page, and the -1
\* of "all pages" passes through page_num: it reaches neither those indices nor
\* the peer, also when the server replaces temp_data between a store of the menu
\* and its next load, or while the menu reads it.  (The fault handler's own
\* index, at line 123, is not among them.)
PageNumInRange ==
    \A p \in Machines :
        /\ \A i \in 1 .. Len(req[p]) : req[p][i].page_num \in Pages
                                       /\ req[p][i].access_page \in Pages
        /\ recv[p].page_num \in Pages
        /\ mpc[p] = "r_state" => \A t \in Loadable(p) : t.page_num \in Pages
        /\ Touching(p) => temp[p].access_page \in Pages

\* The state a page's flags stand for; two racing stores can leave none.
StateName(s) == CASE s = Modified -> "M"
                  [] s = Shared -> "S"
                  [] s = Invalid -> "I"
                  [] OTHER -> "torn"

\* p has made page k its own, and its peer has not yet dealt with that.
Served(p, k) == recv[p].page_num = k /\ k \in recv[p].read_signal
Killed(p, k) == recv[p].page_num = k /\ k \notin recv[p].read_signal
WritePending(p, k) ==
    \/ idx[p] = k /\ (\/ mpc[p] \in {"w_off", "w_page", "w_copy", "w_send"}
                      \/ mpc[p] = "w_type" /\ ~all[p])
    \/ \E i \in 1 .. Len(req[p]) : req[p][i].page_num = k /\ k \notin req[p][i].read_signal
    \/ spc[Other(p)] # "recv" /\ Killed(Other(p), k)

\* p has made page k shared, and its peer has not yet dealt with that.
ReadPending(p, k) ==
    \/ mpc[p] = "r_send" /\ idx[p] = k
    \/ \E i \in 1 .. Len(req[p]) : req[p][i].page_num = k /\ k \in req[p][i].read_signal
    \/ spc[Other(p)] \notin {"recv", "no_data"} /\ Served(Other(p), k)

\* The state of page k on machine q as its peer may count on it.
Effective(q, k) ==
    IF WritePending(Other(q), k) THEN "I"
    ELSE IF ReadPending(Other(q), k) THEN "S"
    ELSE StateName(msi[q][k])

\* What list_MSI of the two machines stands for in Coherence.
Promised == [q \in Machines |-> [k \in Pages |-> Effective(q, k)]]

Abs == INSTANCE Coherence WITH st <- Promised

\* With operators who take turns, every command takes effect on both machines
\* at once, where it stores its own list_MSI entry: the requests still on
\* their way change nothing but what was already due.
Coherent == Abs!Spec

\* With operators who take turns, no write is lost: once nothing is under way,
\* a machine whose copy is valid holds the text of the last write, and the
\* only copy if that copy is modified.
LatestSurvives ==
    Quiescent =>
        \A k \in Pages : latest[k] # <<>> =>
            \E p \in Machines : /\ ~msi[p][k].I
                                /\ Text(mem[p][k]) = latest[k]
                                /\ msi[p][k].M <=> msi[Other(p)][k].I

\* With operators who take turns, a read of an invalid page is answered with
\* the text of the last write to that page by either machine, and with the
\* single space if there has been none.
ReadGetsLatest ==
    [][\A p \in Machines : ReadReply(p) =>
          rep[p] = IF latest[idx[p]] = <<>> THEN <<SPACE>> ELSE latest[idx[p]]]_vars

\* A read request is answered, or the process ends.
ReadReturns ==
    \A p \in Machines : (alive[p] /\ mpc[p] = "r_wait") ~> ~(alive[p] /\ mpc[p] = "r_wait")

\* One operator's quit ends both processes.
QuitPropagates ==
    \A p \in Machines : ~alive[p] ~> ~alive[Other(p)]

\* Two machines never both hold page k modified once nothing is under way,
\* also with operators who do not take turns.
OneModified ==
    Quiescent => \A k \in Pages : ~(msi[1][k].M /\ msi[2][k].M)
=============================================================================
