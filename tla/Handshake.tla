----------------------------- MODULE Handshake -----------------------------
(***************************************************************************)
(* Start-up of src/Project_3_new/part4/part4.c: two processes find out     *)
(* which of them is machine 1, machine 1's operator chooses the number of  *)
(* pages, and both map them, before either shows its menu.                 *)
(*                                                                         *)
(* A process has a server and a client thread that share mch_num,          *)
(* temp_data, addr, list_MSI and init_uffd and never wait for each other   *)
(* except by time.  timing names what the program takes for granted about  *)
(* that time in a behaviour; what it does not name is left open.           *)
(***************************************************************************)
EXTENDS Naturals, Sequences

CONSTANTS
    Counts,     \* page counts the operators may type
    Timings     \* the sets of assumptions about the schedule to consider

ASSUME CountsAssumption == Counts \subseteq Nat \ {0}

\* "staggered":  the second process is started when the first one listens and
\*               has seen its own connection fail;
\* "role_first": a client thread has set mch_num before the server thread,
\*               back from accept, looks at it;
\* "long_sleep": the one-second sleep of machine 2's client is longer than
\*               what its server does between mmap and the main loop.
AllTiming == {"staggered", "role_first", "long_sleep"}
ASSUME TimingAssumption == Timings \subseteq SUBSET AllTiming

Machines == {1, 2}
Other(p) == 3 - p

VARIABLES
    sv,         \* where the server thread is
    cl,         \* where the client thread is
    conn,       \* conn[p]: p's client socket is connected
    chan,       \* chan[p]: page counts of the structs p sent, not yet read
    mch,        \* mch_num; 0 until the client sets it
    count,      \* temp_data.page_count
    mapped,     \* pages mapped at addr; 0 while addr is NULL
    inited,     \* list_MSI has been set to invalid
    uffd,       \* init_uffd is open and registered; it is 0 before
    handler,    \* what the fault handler thread polls
    timing      \* what is assumed about the schedule; never changes

vars == <<sv, cl, conn, chan, mch, count, mapped, inited, uffd, handler, timing>>

ServerPC == {"off", "start", "accept", "role", "init", "msi", "uffd", "loop"}
ClientPC == {"off", "connect", "one", "two", "retry", "count", "msi", "send",
             "uffd", "wait", "handler", "menu"}
HandlerFd == {"none", "stdin", "uffd"}

Init ==
    /\ sv = [p \in Machines |-> "off"]
    /\ cl = [p \in Machines |-> "off"]
    /\ conn = [p \in Machines |-> FALSE]
    /\ chan = [p \in Machines |-> <<>>]
    /\ mch = [p \in Machines |-> 0]
    /\ count = [p \in Machines |-> 0]
    /\ mapped = [p \in Machines |-> 0]
    /\ inited = [p \in Machines |-> FALSE]
    /\ uffd = [p \in Machines |-> FALSE]
    /\ handler = [p \in Machines |-> "none"]
    /\ timing \in Timings

Assumed(t, cond) == t \in timing => cond

Listening(p) == sv[p] \notin {"off", "start"}

\* main: both threads are created.
Start(p) ==
    /\ sv[p] = "off" /\ cl[p] = "off"
    /\ Assumed("staggered", \/ cl[Other(p)] = "off"
                            \/ mch[Other(p)] = 1 /\ Listening(Other(p)))
    /\ sv' = [sv EXCEPT ![p] = "start"]
    /\ cl' = [cl EXCEPT ![p] = "connect"]
    /\ UNCHANGED <<conn, chan, mch, count, mapped, inited, uffd, handler>>
-----------------------------------------------------------------------------
(* The server thread.                                                      *)

\* socket, setsockopt, bind, listen.
Listen(p) ==
    /\ sv[p] = "start"
    /\ sv' = [sv EXCEPT ![p] = "accept"]
    /\ UNCHANGED <<cl, conn, chan, mch, count, mapped, inited, uffd, handler>>

Accept(p) ==
    /\ sv[p] = "accept"
    /\ conn[Other(p)]
    /\ sv' = [sv EXCEPT ![p] = "role"]
    /\ UNCHANGED <<cl, conn, chan, mch, count, mapped, inited, uffd, handler>>

\* if (mch_num == 2), read once.
ServerRole(p) ==
    /\ sv[p] = "role"
    /\ Assumed("role_first", mch[p] # 0)
    /\ sv' = [sv EXCEPT ![p] = IF mch[p] = 2 THEN "init" ELSE "loop"]
    /\ UNCHANGED <<cl, conn, chan, mch, count, mapped, inited, uffd, handler>>

\* Machine 2 takes the struct over and maps as many pages.
MutReadInit(p) ==
    /\ sv[p] = "init"
    /\ chan[Other(p)] # <<>>
    /\ chan' = [chan EXCEPT ![Other(p)] = Tail(@)]
    /\ mapped' = [mapped EXCEPT ![p] = Head(chan[Other(p)])]
    /\ sv' = [sv EXCEPT ![p] = "msi"]
    /\ UNCHANGED <<cl, conn, mch, count, inited, uffd, handler>>
ReadInit(p) ==
    /\ sv[p] = "init"
    /\ chan[Other(p)] # <<>>
    /\ chan' = [chan EXCEPT ![Other(p)] = Tail(@)]
    /\ count' = [count EXCEPT ![p] = Head(chan[Other(p)])]
    /\ mapped' = [mapped EXCEPT ![p] = Head(chan[Other(p)])]
    /\ sv' = [sv EXCEPT ![p] = "msi"]
    /\ UNCHANGED <<cl, conn, mch, inited, uffd, handler>>

ServerInitMSI(p) ==
    /\ sv[p] = "msi"
    /\ inited' = [inited EXCEPT ![p] = TRUE]
    /\ sv' = [sv EXCEPT ![p] = "uffd"]
    /\ UNCHANGED <<cl, conn, chan, mch, count, mapped, uffd, handler>>

ServerUffd(p) ==
    /\ sv[p] = "uffd"
    /\ uffd' = [uffd EXCEPT ![p] = TRUE]
    /\ sv' = [sv EXCEPT ![p] = "loop"]
    /\ UNCHANGED <<cl, conn, chan, mch, count, mapped, inited, handler>>

\* A first struct that arrives in the main loop is taken for a request: it
\* replaces temp_data, page_count included.
LoopRead(p) ==
    /\ sv[p] = "loop"
    /\ chan[Other(p)] # <<>>
    /\ chan' = [chan EXCEPT ![Other(p)] = Tail(@)]
    /\ count' = [count EXCEPT ![p] = Head(chan[Other(p)])]
    /\ UNCHANGED <<sv, cl, conn, mch, mapped, inited, uffd, handler>>

Server(p) ==
    \/ Listen(p) \/ Accept(p) \/ ServerRole(p) \/ ReadInit(p)
    \/ ServerInitMSI(p) \/ ServerUffd(p) \/ LoopRead(p)
-----------------------------------------------------------------------------
(* The client thread.                                                      *)

\* The first connect decides the role ...
Connect(p) ==
    /\ cl[p] = "connect"
    /\ conn' = [conn EXCEPT ![p] = Listening(Other(p))]
    /\ cl' = [cl EXCEPT ![p] = IF Listening(Other(p)) THEN "two" ELSE "one"]
    /\ UNCHANGED <<sv, chan, mch, count, mapped, inited, uffd, handler>>

\* ... which is stored after it.
MutSetRole(p) ==
    /\ cl[p] \in {"one", "two"}
    /\ mch' = [mch EXCEPT ![p] = 1]
    /\ cl' = [cl EXCEPT ![p] = IF cl[p] = "one" THEN "retry" ELSE "wait"]
    /\ UNCHANGED <<sv, conn, chan, count, mapped, inited, uffd, handler>>
SetRole(p) ==
    /\ cl[p] \in {"one", "two"}
    /\ mch' = [mch EXCEPT ![p] = IF cl[p] = "one" THEN 1 ELSE 2]
    /\ cl' = [cl EXCEPT ![p] = IF cl[p] = "one" THEN "retry" ELSE "wait"]
    /\ UNCHANGED <<sv, conn, chan, count, mapped, inited, uffd, handler>>

\* Machine 1 tries again every second until somebody listens.
Retry(p) ==
    /\ cl[p] = "retry"
    /\ Listening(Other(p))
    /\ conn' = [conn EXCEPT ![p] = TRUE]
    /\ cl' = [cl EXCEPT ![p] = "count"]
    /\ UNCHANGED <<sv, chan, mch, count, mapped, inited, uffd, handler>>

\* Its operator types the page count; the pages are mapped.
TypeCount(p, n) ==
    /\ cl[p] = "count"
    /\ count' = [count EXCEPT ![p] = n]
    /\ mapped' = [mapped EXCEPT ![p] = n]
    /\ cl' = [cl EXCEPT ![p] = "msi"]
    /\ UNCHANGED <<sv, conn, chan, mch, inited, uffd, handler>>

ClientInitMSI(p) ==
    /\ cl[p] = "msi"
    /\ inited' = [inited EXCEPT ![p] = TRUE]
    /\ cl' = [cl EXCEPT ![p] = "send"]
    /\ UNCHANGED <<sv, conn, chan, mch, count, mapped, uffd, handler>>

\* send_data.page_count, a local that nobody else writes, is what was typed.
MutSendInit(p) ==
    /\ cl[p] = "send"
    /\ cl' = [cl EXCEPT ![p] = "uffd"]
    /\ UNCHANGED <<sv, conn, chan, mch, count, mapped, inited, uffd, handler>>
SendInit(p) ==
    /\ cl[p] = "send"
    /\ chan' = [chan EXCEPT ![p] = Append(@, mapped[p])]
    /\ cl' = [cl EXCEPT ![p] = "uffd"]
    /\ UNCHANGED <<sv, conn, mch, count, mapped, inited, uffd, handler>>

ClientUffd(p) ==
    /\ cl[p] = "uffd"
    /\ uffd' = [uffd EXCEPT ![p] = TRUE]
    /\ cl' = [cl EXCEPT ![p] = "handler"]
    /\ UNCHANGED <<sv, conn, chan, mch, count, mapped, inited, handler>>

\* Machine 2 sleeps until addr is not NULL.
MutWaitAddr(p) ==
    /\ cl[p] = "wait"
    /\ cl' = [cl EXCEPT ![p] = "handler"]
    /\ UNCHANGED <<sv, conn, chan, mch, count, mapped, inited, uffd, handler>>
WaitAddr(p) ==
    /\ cl[p] = "wait"
    /\ mapped[p] # 0
    /\ Assumed("long_sleep", sv[p] = "loop")
    /\ cl' = [cl EXCEPT ![p] = "handler"]
    /\ UNCHANGED <<sv, conn, chan, mch, count, mapped, inited, uffd, handler>>

\* The handler thread is given the value init_uffd has now; 0 is stdin.
StartHandler(p) ==
    /\ cl[p] = "handler"
    /\ handler' = [handler EXCEPT ![p] = IF uffd[p] THEN "uffd" ELSE "stdin"]
    /\ cl' = [cl EXCEPT ![p] = "menu"]
    /\ UNCHANGED <<sv, conn, chan, mch, count, mapped, inited, uffd>>

Client(p) ==
    \/ Connect(p) \/ SetRole(p) \/ Retry(p)
    \/ \E n \in Counts : TypeCount(p, n)
    \/ ClientInitMSI(p) \/ SendInit(p) \/ ClientUffd(p) \/ WaitAddr(p)
    \/ StartHandler(p)
-----------------------------------------------------------------------------
Next == (\E p \in Machines : Start(p) \/ Server(p) \/ Client(p)) /\ UNCHANGED timing

Spec == Init /\ [][Next]_vars

\* Both processes are started, and their threads keep running.
Fairness ==
    \A p \in Machines : /\ WF_vars(Start(p) /\ UNCHANGED timing)
                        /\ WF_vars(Server(p) /\ UNCHANGED timing)
                        /\ WF_vars(Client(p) /\ UNCHANGED timing)
FairSpec == Spec /\ Fairness
-----------------------------------------------------------------------------
(* Properties.                                                             *)

\* The first connect that fails makes machine 1, the one that succeeds
\* machine 2 (part4.c:431): the two processes never take the same role.
DifferentRoles ==
    mch[1] # 0 /\ mch[2] # 0 => mch[1] # mch[2]

\* When the second process is started only once the first one listens and has
\* failed to connect, they do not, whatever else happens (part4.c:431).
StaggeredRoles == "staggered" \in timing => DifferentRoles

\* Under all three assumptions, a menu that is shown works on an initialised
\* list_MSI, its faults go to a registered userfaultfd, its page_count is the
\* length of its mapping, and two menus have the same number of pages.
MenuReady ==
    timing = AllTiming => \A p \in Machines : cl[p] = "menu" =>
        /\ inited[p]
        /\ handler[p] = "uffd"
        /\ count[p] = mapped[p]
        /\ cl[Other(p)] = "menu" => mapped[p] = mapped[Other(p)]

\* Whatever the schedule, a machine 2 that shows its menu has a machine 1 as
\* its peer and works on as many pages as that one mapped.
SecondFollowsFirst ==
    \A p \in Machines : cl[p] = "menu" /\ mch[p] = 2 =>
        /\ mch[Other(p)] = 1
        /\ count[p] = mapped[p]
        /\ mapped[p] = mapped[Other(p)]

\* Under them, both processes get to their menus.
BothStart == timing = AllTiming ~> \A p \in Machines : cl[p] = "menu"
=============================================================================
