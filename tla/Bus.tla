--------------------------------- MODULE Bus ---------------------------------
(***************************************************************************)
(* Project_3/part4/part4.c, the first version of the MSI shared memory,    *)
(* from the menus on (the start-up is that of part 3).  A read of an       *)
(* invalid page raises BusRd, which is never taken back; the fault handler *)
(* then writes the bus signals (machine 1) or waits for them (machine 2).  *)
(* M is never set, and only a read of all pages sets S.                    *)
(***************************************************************************)
EXTENDS Naturals, FiniteSets

CONSTANT BusPages   \* pg_size

ASSUME BusAssumption == BusPages \in Nat \ {0}

AllPages == 0..BusPages - 1
BusMachines == 1..2

VARIABLES bus_signal,    \* per machine: BusRd, BusRdX
          states_list,   \* per machine and page: "I" or "S"
          addr,          \* per machine: the pages there, with their contents
          menu,          \* per machine: the command and the pages left for it
          bushandler,    \* per machine: where fault_handler_thread is
          signals        \* signals machine 1 wrote that machine 2 has not read
bus_vars == <<bus_signal, states_list, addr, menu, bushandler, signals>>

Idle == [at |-> "menu", todo |-> {}]

BusInit ==
  /\ bus_signal = [m \in BusMachines |-> [BusRd |-> 0, BusRdX |-> 0]]
  /\ states_list = [m \in BusMachines |-> [p \in AllPages |-> "I"]]
  /\ addr = [m \in BusMachines |-> <<>>]
  /\ menu = [m \in BusMachines |-> Idle]
  /\ bushandler = [m \in BusMachines |-> "poll"]
  /\ signals = 0

BusExit(m) ==
  /\ menu' = [menu EXCEPT ![m] = [at |-> "exit", todo |-> {}]]
  /\ bushandler' = [bushandler EXCEPT ![m] = "exit"]

BusFault(m) == menu[m].todo \ DOMAIN addr[m]
LowestPage(S) == CHOOSE p \in S : \A q \in S : p <= q
Faulting(m) == menu[m].todo # {} /\ LowestPage(menu[m].todo) \in BusFault(m)
-----------------------------------------------------------------------------
(* What lies before states_list[0] is tested for page -1: the outcome is   *)
(* any of the four.  Only with all three flags off it is all the pages;    *)
(* else an address below the region is used, which may end the program.    *)
Neighbour == {"M", "S", "I", "none"}

BelowRegion(m) ==
  \/ BusExit(m)
  \/ UNCHANGED <<menu, bushandler>>

(* r: a page that is not invalid is read; an invalid one raises BusRd; all *)
(* pages become shared, and only machine 1 raises BusRd.                   *)
ReadPage(m, p) ==
  /\ bus_signal' = IF states_list[m][p] = "I"
                   THEN [bus_signal EXCEPT ![m].BusRd = 1] ELSE bus_signal
  /\ menu' = [menu EXCEPT ![m] = [at |-> "r", todo |-> {p}]]
  /\ UNCHANGED <<states_list, bushandler>>

ReadAll(m, raises) ==
  \E nb \in Neighbour :
    /\ bus_signal' = IF nb = "I" \/ (nb = "none" /\ raises)
                     THEN [bus_signal EXCEPT ![m].BusRd = 1] ELSE bus_signal
    /\ IF nb = "none"
       THEN /\ states_list' = [states_list EXCEPT ![m] = [p \in AllPages |-> "S"]]
            /\ menu' = [menu EXCEPT ![m] = [at |-> "r", todo |-> AllPages]]
            /\ UNCHANGED bushandler
       ELSE BelowRegion(m) /\ UNCHANGED states_list

(* w: to one page only BusRdX is raised, M being off.  All pages are       *)
(* zeroed at their start in a first loop and get the text in a second, of  *)
(* which machine 2 does nothing: data.length is 0 there.                   *)
WritePage(m) ==
  /\ bus_signal' = [bus_signal EXCEPT ![m].BusRdX = 1]
  /\ UNCHANGED <<states_list, menu, bushandler>>

WriteAll(m) ==
  \E nb \in Neighbour :
    /\ bus_signal' = IF nb \in {"S", "I"}
                     THEN [bus_signal EXCEPT ![m].BusRdX = 1] ELSE bus_signal
    /\ CASE nb = "none" -> /\ menu' = [menu EXCEPT ![m] = [at |-> "w", todo |-> AllPages]]
                           /\ UNCHANGED bushandler
         [] nb = "M" -> BelowRegion(m)
         [] OTHER -> UNCHANGED <<menu, bushandler>>
    /\ UNCHANGED states_list

Quit(m) == BusExit(m) /\ UNCHANGED <<bus_signal, states_list>>

Menu(m, raises) ==
  /\ menu[m].at = "menu"
  /\ (\E p \in AllPages : ReadPage(m, p)) \/ ReadAll(m, raises)
     \/ WritePage(m) \/ WriteAll(m) \/ Quit(m)
  /\ UNCHANGED <<addr, signals>>

MenuOne == Menu(1, TRUE)
MenuTwo == Menu(2, FALSE)

(* The next loop of a command, or the menu again. *)
AfterLoop(m) ==
  IF m = 1 /\ menu[m].at = "w" THEN [at |-> "copy", todo |-> AllPages] ELSE Idle

(* c = addr[l], memset or memcpy: the thread sleeps where the page is not  *)
(* there yet.                                                              *)
Touch(m) ==
  /\ menu[m].at \in {"r", "w", "copy"} /\ ~Faulting(m)
  /\ IF menu[m].todo = {}
     THEN menu' = [menu EXCEPT ![m] = AfterLoop(m)] /\ UNCHANGED addr
     ELSE LET p == LowestPage(menu[m].todo)
          IN  /\ menu' = [menu EXCEPT ![m].todo = @ \ {p}]
              /\ addr' = [addr EXCEPT ![m][p] = CASE menu[m].at = "r" -> @
                                                 [] menu[m].at = "w" -> "zero"
                                                 [] menu[m].at = "copy" -> "text"]
  /\ UNCHANGED <<bus_signal, states_list, bushandler, signals>>
-----------------------------------------------------------------------------
(* poll reports the fault; update_bus is entered. *)
Poll(m) ==
  /\ bushandler[m] = "poll" /\ Faulting(m)
  /\ bushandler' = [bushandler EXCEPT ![m] = "bus"]
  /\ UNCHANGED <<bus_signal, states_list, addr, menu, signals>>

Gone(m) == menu[m].at = "exit"

(* Mutant: machine 1, too, waits for an answer. *)
Mutupdate_bus_one ==
  /\ bushandler[1] = "bus"
  /\ bus_signal[1].BusRd = 1 => Gone(2)
  /\ bushandler' = [bushandler EXCEPT ![1] = "read"]
  /\ UNCHANGED <<menu, bus_signal, states_list, addr, signals>>

(* Machine 1 with BusRd writes the signals; when machine 2 has gone that   *)
(* may end the program (SIGPIPE).  BusRdX alone writes nothing.            *)
update_bus_one ==
  /\ bushandler[1] = "bus"
  /\ \/ /\ bushandler' = [bushandler EXCEPT ![1] = "read"]
        /\ signals' = IF bus_signal[1].BusRd = 1 /\ ~Gone(2) THEN signals + 1 ELSE signals
        /\ UNCHANGED menu
     \/ /\ bus_signal[1].BusRd = 1 /\ Gone(2)
        /\ BusExit(1) /\ UNCHANGED signals
  /\ UNCHANGED <<bus_signal, states_list, addr>>

(* Machine 2 with BusRd waits for a whole bus_info.  Its uffd, never set,  *)
(* is 0, and becomes the descriptor to read from; at the end of the stream *)
(* recv leaves the descriptor as it was.                                   *)
update_bus_two ==
  /\ bushandler[2] = "bus"
  /\ \/ /\ bus_signal[2].BusRd = 0 \/ (signals = 0 /\ Gone(1))
        /\ bushandler' = [bushandler EXCEPT ![2] = "read"] /\ UNCHANGED signals
     \/ /\ bus_signal[2].BusRd = 1 /\ signals > 0
        /\ bushandler' = [bushandler EXCEPT ![2] = "stdin"] /\ signals' = signals - 1
  /\ UNCHANGED <<bus_signal, states_list, addr, menu>>

(* Mutant: the thread is woken although UFFDIO_COPY failed. *)
MutCopyPage(m) ==
  /\ bushandler[m] = "read"
  /\ bushandler' = [bushandler EXCEPT ![m] = "poll"]
  /\ UNCHANGED <<bus_signal, states_list, addr, menu, signals>>

(* The message is read and the page is filled with zeros. *)
CopyPage(m) ==
  /\ bushandler[m] = "read"
  /\ addr' = [addr EXCEPT ![m] = [p \in DOMAIN @ \union {LowestPage(BusFault(m))} |->
                                    IF p \in DOMAIN @ THEN @[p] ELSE "zero"]]
  /\ bushandler' = [bushandler EXCEPT ![m] = "poll"]
  /\ UNCHANGED <<bus_signal, states_list, menu, signals>>

(* From descriptor 0 a line of the user is read, should one come: nothing  *)
(* asks for it.  It is no fault event.                                     *)
ReadStdin(m) ==
  /\ bushandler[m] = "stdin"
  /\ BusExit(m)
  /\ UNCHANGED <<bus_signal, states_list, addr, signals>>

update_bus == update_bus_one \/ update_bus_two

BusNext ==
  \/ MenuOne \/ MenuTwo \/ update_bus
  \/ \E m \in BusMachines : Touch(m) \/ Poll(m) \/ CopyPage(m) \/ ReadStdin(m)

(* The threads; neither a command nor a line at ReadStdin is sure to come. *)
Thread(m) ==
  Touch(m) \/ Poll(m) \/ CopyPage(m) \/ (update_bus /\ bushandler'[m] # bushandler[m])

BusFairness == \A m \in BusMachines : WF_bus_vars(Thread(m))
BusSpec == BusInit /\ [][BusNext]_bus_vars
BusFairSpec == BusSpec /\ BusFairness
-----------------------------------------------------------------------------
(* A command of machine 1 comes back to its menu whatever machine 2 does,  *)
(* or ends the program when machine 2 has ended; one of machine 2 does     *)
(* once machine 1 has ended and left no signal in the stream.              *)
FaultEnds ==
  /\ menu[1].at \in {"r", "w", "copy"} ~> menu[1].at = "menu" \/ (Gone(1) /\ Gone(2))
  /\ (menu[2].at \in {"r", "w"} /\ Gone(1) /\ signals = 0 /\ bushandler[2] # "stdin")
       ~> menu[2].at = "menu"

(* Machine 1 never blocks in write, whether or not machine 2 reads: no     *)
(* more signals are under way than it has had faults, one per page.        *)
BusHolds ==
  signals <= Cardinality(DOMAIN addr[1]) + (IF bushandler[1] = "read" THEN 1 ELSE 0)

(* The comment in the menu: a read of machine 2 gets the data of the peer  *)
(* or, without data, returns empty.  At least it returns, or the program   *)
(* ends.                                                                   *)
ReadComesBack == menu[2].at = "r" ~> menu[2].at \in {"menu", "exit"}
=============================================================================
