-------------------------------- MODULE Part3 --------------------------------
(***************************************************************************)
(* Project_3/part3/part3.c: two machines find out who is first; the first  *)
(* asks for a page count, maps a region and sends its address; the second  *)
(* maps the same range.  Each serves its own faults with zeroed pages; the *)
(* pages are not exchanged.                                                *)
(***************************************************************************)
EXTENDS Naturals

CONSTANTS P3Pages,   \* bound on the page count
          Addrs      \* addresses mmap may choose

ASSUME Part3Assumption == P3Pages \in Nat /\ Addrs # {}

P3Machines == 1..2
P3Peer(m) == 3 - m
NoStuff == [pg_size |-> 0, addr |-> "null"]

VARIABLES p3order,   \* order
          server,    \* where server_socket is; "exit" when the program ended
          client,    \* where client_socket is
          p3link,    \* m's client is connected to the peer's server
          wire,      \* the struct on the way to m's client
          mch,       \* data or recv_data, and whether mmap kept the address
          ui,        \* the menu: the command and the pages left for it
          mem        \* m's pages that are there, with their contents
p3_vars == <<p3order, server, client, p3link, wire, mch, ui, mem>>

P3Init ==
  /\ p3order = [m \in P3Machines |-> 0]
  /\ server = [m \in P3Machines |-> "start"]
  /\ client = [m \in P3Machines |-> "connect"]
  /\ p3link = [m \in P3Machines |-> FALSE]
  /\ wire = [m \in P3Machines |-> NoStuff]
  /\ mch = [m \in P3Machines |-> [at |-> NoStuff, kept |-> TRUE]]
  /\ ui = [m \in P3Machines |-> [at |-> "no", todo |-> {}]]
  /\ mem = [m \in P3Machines |-> <<>>]

Running(m) == server[m] # "exit"

(* exit: both threads and the handler end, the kernel closes the sockets. *)
P3Exit(m) ==
  /\ server' = [server EXCEPT ![m] = "exit"]
  /\ client' = [client EXCEPT ![m] = "exit"]
  /\ ui' = [ui EXCEPT ![m] = [at |-> "no", todo |-> {}]]
  /\ mem' = [mem EXCEPT ![m] = <<>>]
-----------------------------------------------------------------------------
(* server_socket: socket .. listen. *)
P3Listen(m) ==
  /\ server[m] = "start"
  /\ server' = [server EXCEPT ![m] = "accept"]
  /\ UNCHANGED <<p3order, client, p3link, wire, mch, ui, mem>>

(* accept returns, and order is tested: the other thread may not have      *)
(* written it yet.                                                         *)
P3Accept(m) ==
  /\ server[m] = "accept" /\ p3link[P3Peer(m)]
  /\ server' = [server EXCEPT ![m] = IF p3order[m] = 1 THEN "count" ELSE "done"]
  /\ UNCHANGED <<p3order, client, p3link, wire, mch, ui, mem>>

(* Mutant: the struct is written before mmap has given the address. *)
MutSendRegion(m) ==
  /\ server[m] = "count"
  /\ \E n \in 1..P3Pages, a \in Addrs :
       /\ mch' = [mch EXCEPT ![m] = [at |-> [pg_size |-> n, addr |-> a], kept |-> TRUE]]
       /\ wire' = [wire EXCEPT ![P3Peer(m)] = [pg_size |-> n, addr |-> "null"]]
  /\ server' = [server EXCEPT ![m] = "done"]
  /\ UNCHANGED <<p3order, client, p3link, ui, mem>>

(* The page count, mmap, write, then userfaultfd and UFFDIO_REGISTER,      *)
(* which only this machine notices.  mmap refuses no pages: exit.          *)
SendRegion(m) ==
  /\ server[m] = "count"
  /\ \/ \E n \in 1..P3Pages, a \in Addrs :
          LET data == [pg_size |-> n, addr |-> a]
          IN  /\ mch' = [mch EXCEPT ![m] = [at |-> data, kept |-> TRUE]]
              /\ wire' = [wire EXCEPT ![P3Peer(m)] = data]
              /\ server' = [server EXCEPT ![m] = "done"]
              /\ UNCHANGED <<client, ui, mem>>
     \/ P3Exit(m) /\ UNCHANGED <<mch, wire>>
  /\ UNCHANGED <<p3order, p3link>>
-----------------------------------------------------------------------------
Listening(m) == server[m] \in {"accept", "count", "done"}

(* client_socket: the first connect decides order; a refused one is        *)
(* repeated once a second.                                                 *)
P3Connect(m) ==
  /\ client[m] = "connect"
  /\ LET up == Listening(P3Peer(m))
     IN  /\ p3order' = [p3order EXCEPT ![m] = IF up THEN 2 ELSE 1]
         /\ p3link' = [p3link EXCEPT ![m] = up]
         /\ client' = [client EXCEPT ![m] = IF up THEN "recv" ELSE "again"]
  /\ UNCHANGED <<server, wire, mch, ui, mem>>

ConnectAgain(m) ==
  /\ client[m] = "again" /\ Listening(P3Peer(m))
  /\ p3link' = [p3link EXCEPT ![m] = TRUE]
  /\ client' = [client EXCEPT ![m] = "done"]
  /\ UNCHANGED <<p3order, server, wire, mch, ui, mem>>

(* recv waits for the struct; the address is only a hint for mmap, which   *)
(* takes another one where something is mapped already.  When the peer     *)
(* ends, recv_data stays zero and mmap fails.                              *)
RecvRegion(m) ==
  /\ client[m] = "recv"
  /\ \/ /\ wire[m] # NoStuff
        /\ \E kept \in BOOLEAN : mch' = [mch EXCEPT ![m] = [at |-> wire[m], kept |-> kept]]
        /\ client' = [client EXCEPT ![m] = "done"]
        /\ UNCHANGED <<server, ui, mem>>
     \/ /\ wire[m] = NoStuff /\ ~Running(P3Peer(m))
        /\ P3Exit(m) /\ UNCHANGED mch
  /\ UNCHANGED <<p3order, p3link, wire>>
-----------------------------------------------------------------------------
(* main joins both threads and starts the handler and the menu. *)
P3Main(m) ==
  /\ server[m] = "done" /\ client[m] = "done" /\ ui[m].at = "no"
  /\ ui' = [ui EXCEPT ![m].at = "menu"]
  /\ UNCHANGED <<p3order, server, client, p3link, wire, mch, mem>>

PageNums(m) == {p \in 0..P3Pages : p < mch[m].at.pg_size}

(* A page number in range, or -1 for all; q. *)
P3Menu(m) ==
  /\ ui[m].at = "menu"
  /\ \/ \E op \in {"r", "w"}, todo \in {{p} : p \in PageNums(m)} \union {PageNums(m)} :
          ui' = [ui EXCEPT ![m] = [at |-> op, todo |-> todo]]
        /\ UNCHANGED <<server, client, mem>>
     \/ P3Exit(m)
  /\ UNCHANGED <<p3order, p3link, wire, mch>>

(* mem_read and mem_write, one page after the other; a page that is not    *)
(* there puts the thread to sleep.  Where mmap did not keep the address    *)
(* the access is to other memory, or ends the program.                     *)
FirstOf(S) == CHOOSE p \in S : \A q \in S : p <= q

Access(m, op) ==
  /\ ui[m].at = op
  /\ IF ui[m].todo = {}
     THEN ui' = [ui EXCEPT ![m].at = "menu"] /\ UNCHANGED <<server, client, mem>>
     ELSE LET p == FirstOf(ui[m].todo)
          IN  IF mch[m].kept
              THEN /\ p \in DOMAIN mem[m]
                   /\ ui' = [ui EXCEPT ![m].todo = @ \ {p}]
                   /\ mem' = [mem EXCEPT ![m][p] = IF op = "w" THEN "text" ELSE @]
                   /\ UNCHANGED <<server, client>>
              ELSE \/ ui' = [ui EXCEPT ![m].todo = @ \ {p}] /\ UNCHANGED <<server, client, mem>>
                   \/ P3Exit(m)
  /\ UNCHANGED <<p3order, p3link, wire, mch>>

mem_read(m) == Access(m, "r")
mem_write(m) == Access(m, "w")

(* The handler fills the page with zeros and wakes the thread.  On a first *)
(* machine that did not ask for pages page_size is still 0: mmap refuses   *)
(* the handler's own page, and as soon as the handler runs, in main's      *)
(* second of sleep as a rule, the program ends.                            *)
fault_handler_thread(m) ==
  /\ \/ /\ ui[m].at \in {"r", "w"} /\ mch[m].kept
        /\ \E p \in ui[m].todo \ DOMAIN mem[m] :
             /\ p = FirstOf(ui[m].todo)
             /\ mem' = [mem EXCEPT ![m] = [q \in DOMAIN @ \union {p} |->
                                             IF q = p THEN "zero" ELSE @[q]]]
        /\ UNCHANGED <<server, client, ui>>
     \/ ui[m].at # "no" /\ mch[m].at = NoStuff /\ P3Exit(m)
  /\ UNCHANGED <<p3order, p3link, wire, mch>>

P3Step(m) ==
  \/ P3Listen(m) \/ P3Accept(m) \/ SendRegion(m) \/ P3Connect(m) \/ ConnectAgain(m)
  \/ RecvRegion(m) \/ P3Main(m) \/ P3Menu(m) \/ mem_read(m) \/ mem_write(m)
  \/ fault_handler_thread(m)

P3Next == \E m \in P3Machines : P3Step(m)

P3Spec == P3Init /\ [][P3Next]_p3_vars
-----------------------------------------------------------------------------
(* However the four threads start, a second machine that has come to the   *)
(* menu has the region of its peer, which is the first machine; a first    *)
(* machine has pages unless it tested order too early, and then no machine *)
(* ever comes to the menu as its second.                                   *)
SameRegion ==
  \A m \in P3Machines :
    ui[m].at # "no" =>
      /\ p3order[m] = 2 => /\ p3order[P3Peer(m)] = 1
                           /\ mch[P3Peer(m)].at = mch[m].at
                           /\ mch[m].at # NoStuff
      /\ p3order[m] = 1 /\ mch[m].at = NoStuff => ui[P3Peer(m)].at = "no"
                                                  \/ p3order[P3Peer(m)] = 1
=============================================================================
