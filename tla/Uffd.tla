-------------------------------- MODULE Uffd ---------------------------------
(***************************************************************************)
(* Project_3_new/part1/uffd.c: main reads a region three times, in steps   *)
(* of half, half and a quarter of a page; a second thread fills each       *)
(* missing page.  Addresses count in quarters of a page.                   *)
(***************************************************************************)
EXTENDS Naturals, Sequences, FiniteSets

CONSTANTS Pages,     \* bound on num-pages
          Letters    \* 20 in the code: the letters are reused after these

ASSUME UffdAssumption == Pages \in Nat /\ Letters \in Nat \ {0}

VARIABLES len,       \* length of the region, in quarters
          resident,  \* the pages that are there, with their letter
          main,      \* main: loop, l, and whether it waits for a page
          handler,   \* the handler: fault_cnt, and the message it works on
          seen       \* what main printed: loop, address, letter
uf_vars == <<len, resident, main, handler, seen>>

PageOf(l) == l \div 4

(* num-pages may be 0: mmap refuses that, and the program ends. *)
UfInit ==
  /\ len = 0
  /\ resident = <<>>
  /\ main = [at |-> "start", loop |-> 0, l |-> 0]
  /\ handler = [at |-> "poll", fault_cnt |-> 0, dst |-> 0]
  /\ seen = {}

(* userfaultfd, mmap, UFFDIO_REGISTER, pthread_create. *)
UfStart ==
  /\ main.at = "start"
  /\ \E n \in 1..Pages : len' = 4 * n
  /\ main' = [at |-> "read", loop |-> 1, l |-> 0]
  /\ UNCHANGED <<resident, handler, seen>>

Step(loop) == IF loop = 3 THEN 1 ELSE 2

(* c = addr[l], printed; without the page the thread sleeps in the fault. *)
UfRead ==
  /\ main.at = "read" /\ main.l < len
  /\ IF PageOf(main.l) \in DOMAIN resident
     THEN /\ seen' = seen \union {<<main.loop, main.l, resident[PageOf(main.l)]>>}
          /\ main' = [main EXCEPT !.l = @ + Step(main.loop)]
     ELSE main' = [main EXCEPT !.at = "fault"] /\ UNCHANGED seen
  /\ UNCHANGED <<len, resident, handler>>

(* The next loop, or exit, which also ends the handler. *)
UfLoop ==
  /\ main.at = "read" /\ main.l >= len
  /\ main' = IF main.loop = 3 THEN [main EXCEPT !.at = "exit"]
             ELSE [main EXCEPT !.loop = @ + 1, !.l = 0]
  /\ UNCHANGED <<len, resident, handler, seen>>

(* poll returns and the message is read. *)
UfPoll ==
  /\ handler.at = "poll" /\ main.at = "fault"
  /\ handler' = [handler EXCEPT !.at = "copy", !.dst = PageOf(main.l)]
  /\ UNCHANGED <<len, resident, main, seen>>

(* Mutant: the count goes up before the page is filled. *)
MutUfCopy ==
  /\ handler.at = "copy"
  /\ LET letter == (handler.fault_cnt + 1) % Letters
     IN  resident' = [p \in DOMAIN resident \union {handler.dst} |->
                        IF p = handler.dst THEN letter ELSE resident[p]]
  /\ handler' = [handler EXCEPT !.at = "poll", !.fault_cnt = @ + 1]
  /\ main' = [main EXCEPT !.at = "read"]
  /\ UNCHANGED <<len, seen>>

(* The page gets the letter of this fault; UFFDIO_COPY wakes main. *)
UfCopy ==
  /\ handler.at = "copy"
  /\ resident' = [p \in DOMAIN resident \union {handler.dst} |->
                    IF p = handler.dst THEN handler.fault_cnt % Letters ELSE resident[p]]
  /\ handler' = [handler EXCEPT !.at = "poll", !.fault_cnt = @ + 1]
  /\ main' = [main EXCEPT !.at = "read"]
  /\ UNCHANGED <<len, seen>>

UfNext == UfStart \/ UfRead \/ UfLoop \/ UfPoll \/ UfCopy

UfSpec == UfInit /\ [][UfNext]_uf_vars
-----------------------------------------------------------------------------
(* In all three loops, at every address, main reads the letter of the      *)
(* page's first fault, the pages in order; no page faults twice and the    *)
(* second loop faults nowhere ([U2] in the source).  Nor does the third:   *)
(* the madvise that [U3] speaks of is commented out (ThirdLoopChanges).    *)
ReadsAgree ==
  /\ \A s \in seen : s[3] = PageOf(s[2]) % Letters
  /\ handler.fault_cnt = Cardinality(DOMAIN resident)
  /\ main.at = "fault" => main.loop = 1

(* [U3]: what the third loop reads at an address is not what the second    *)
(* read there, the pages having been given back and filled anew.           *)
ThirdLoopChanges ==
  \A s, t \in seen : s[1] = 2 /\ t[1] = 3 /\ s[2] = t[2] => s[3] # t[3]
=============================================================================
