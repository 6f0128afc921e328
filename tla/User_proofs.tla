----------------------------- MODULE User_proofs -----------------------------
(***************************************************************************)
(* Proofs about the programs that run without MSI: the client and server   *)
(* exercises, the userfaultfd demonstration, the shared memory of part 3   *)
(* and the first MSI version.                                              *)
(***************************************************************************)
EXTENDS Greeting, Uffd, Part3, Bus, FiniteSetTheorems, WellFoundedInduction, TLAPS

-----------------------------------------------------------------------------
(* Greeting. *)

GrInv ==
  /\ kind \in {"none", "code-socket", "once", "part22"}
  /\ DOMAIN cli = {"at", "got"}
  /\ DOMAIN net = {"up", "reset", "asked", "came", "taken", "sent", "there"}
  /\ net.reset \in BOOLEAN
  /\ net.sent \in {0, AnswerLen} /\ net.there \in Nat /\ net.there <= net.sent
  /\ kind = "none" => srv = "down" /\ cli.at = "connect"
  /\ net.asked \in {0, QuestionLen} /\ net.came \in Nat /\ net.came <= net.asked
  /\ net.taken \in Nat /\ net.taken <= net.came
  /\ cli.at \in {"connect", "key"} => net.asked = 0
  /\ srv \notin {"sent", "exit"} => net.sent = 0
  /\ kind = "code-socket" /\ srv = "exit" => net.sent = AnswerLen
  /\ kind = "code-socket" /\ srv = "sent" => net.sent = AnswerLen
  /\ kind = "part22" => net.sent = 0
  /\ net.reset => srv = "exit" /\ net.taken < QuestionLen
  /\ cli.at = "exit" /\ kind = "code-socket" =>
       cli.got = AnswerLen \/ (srv = "exit" /\ net.taken < QuestionLen)
  /\ AnswerWhole

LEMMA GrInductive ==
  ASSUME GrInv, [GrNext]_gr_vars
  PROVE  GrInv'
<1> USE GreetingAssumption
<1>1. CASE GrChoose
  <2>1. kind = "none" /\ kind' \in {"code-socket", "once", "part22"}
        /\ UNCHANGED <<srv, cli, net>>
    BY <1>1 DEF GrChoose
  <2>2. srv = "down" /\ cli.at = "connect" /\ net.sent = 0
    BY <2>1 DEF GrInv
  <2> QED
    BY <2>1, <2>2 DEF GrInv, AnswerWhole
<1>2. CASE GrListen
  BY <1>2 DEF GrListen, GrInv, AnswerWhole
<1>3. CASE GrAccept
  BY <1>3 DEF GrAccept, GrInv, AnswerWhole
<1>4. ASSUME NEW k \in {"code-socket", "once"}, GreetServer(k)
      PROVE  GrInv'
  <2>1. CASE srv = "key" /\ srv' = "read" /\ UNCHANGED net
    BY <1>4, <2>1 DEF GreetServer, GrInv, AnswerWhole
  <2>2. CASE /\ srv = "read" /\ srv' = "send"
             /\ net' = [net EXCEPT !.taken = net.came]
    <3>1. /\ net'.taken = net.came /\ DOMAIN net' = DOMAIN net /\ UNCHANGED <<kind, cli>>
          /\ net'.sent = net.sent /\ net'.there = net.there /\ net'.reset = net.reset
          /\ net'.asked = net.asked /\ net'.came = net.came /\ kind = k
      BY <1>4, <2>2 DEF GreetServer, GrInv
    <3> QED
      BY <1>4, <2>2, <3>1 DEF GrInv, AnswerWhole
  <2>3. CASE /\ srv = "send" /\ srv' = "sent"
             /\ net' = [net EXCEPT !.sent = AnswerLen]
    <3>1. /\ net'.sent = AnswerLen /\ DOMAIN net' = DOMAIN net /\ UNCHANGED <<kind, cli>>
          /\ net'.taken = net.taken /\ net'.there = net.there /\ net'.reset = net.reset
          /\ net'.asked = net.asked /\ net'.came = net.came /\ kind = k
      BY <1>4, <2>3 DEF GreetServer, GrInv
    <3>2. net.there = 0
      BY <2>3 DEF GrInv
    <3> QED
      BY <1>4, <2>3, <3>1, <3>2 DEF GrInv, AnswerWhole
  <2>4. CASE /\ srv = "sent" /\ srv' = "exit"
             /\ net' = [net EXCEPT !.reset = net.came > net.taken]
    <3>1. /\ net'.reset = (net.came > net.taken)
          /\ DOMAIN net' = DOMAIN net /\ UNCHANGED <<kind, cli>>
          /\ net'.taken = net.taken /\ net'.there = net.there /\ net'.sent = net.sent
          /\ net'.asked = net.asked /\ net'.came = net.came /\ kind = k
      BY <1>4, <2>4 DEF GreetServer, GrInv
    <3>2. net.came > net.taken => net.taken < QuestionLen
      BY DEF GrInv
    <3>3. net'.reset \in BOOLEAN
      BY <3>1
    <3> QED
      BY <1>4, <2>4, <3>1, <3>2, <3>3 DEF GrInv, AnswerWhole
  <2> QED
    BY <1>4, <2>1, <2>2, <2>3, <2>4 DEF GreetServer
<1>5. CASE Part22Server
  BY <1>5 DEF Part22Server, GrInv, AnswerWhole
<1>6. ASSUME NEW k, k # "none", Connect(k) PROVE GrInv'
  <2>1. /\ net'.sent = net.sent /\ net'.there = net.there /\ net'.reset = net.reset
        /\ net'.asked = net.asked /\ net'.came = net.came /\ net'.taken = net.taken
        /\ DOMAIN net' = DOMAIN net /\ DOMAIN cli' = DOMAIN cli
        /\ cli'.at = "key" /\ cli.at = "connect" /\ UNCHANGED <<kind, srv>> /\ kind = k
    BY <1>6 DEF Connect, GrInv
  <2> QED
    BY <1>6, <2>1 DEF GrInv, AnswerWhole
<1>7. ASSUME NEW k, k # "none", Refused(k) PROVE GrInv'
  <2>1. /\ DOMAIN cli' = DOMAIN cli /\ cli'.at = "refused"
        /\ UNCHANGED <<kind, srv, net>> /\ kind = k
    BY <1>7 DEF Refused, GrInv
  <2> QED
    BY <1>7, <2>1 DEF GrInv, AnswerWhole
<1>8. ASSUME NEW k, k # "none", Ask(k) PROVE GrInv'
  <2>1. /\ net'.sent = net.sent /\ net'.there = net.there /\ net'.reset = net.reset
        /\ net'.asked \in {0, QuestionLen} /\ net'.came = net.came
        /\ net'.taken = net.taken
        /\ DOMAIN net' = DOMAIN net /\ DOMAIN cli' = DOMAIN cli
        /\ cli'.at = "recv" /\ UNCHANGED <<kind, srv>> /\ kind = k /\ cli.at = "key"
    BY <1>8 DEF Ask, GrInv
  <2>2. net.came = 0 /\ net.taken = 0
    BY <2>1 DEF GrInv
  <2>3. net'.came <= net'.asked
    BY <2>1, <2>2
  <2> QED
    BY <1>8, <2>1, <2>2, <2>3 DEF GrInv, AnswerWhole
<1>9. ASSUME NEW k, NEW w \in BOOLEAN, k # "none", k = "code-socket" => w,
             Receive(k, w)
      PROVE  GrInv'
  <2>1. /\ DOMAIN cli' = {"at", "got"} /\ cli'.at = "exit"
        /\ cli'.got = net.there
        /\ UNCHANGED <<kind, srv, net>> /\ kind = k
    BY <1>9 DEF Receive
  <2>2. k = "code-socket" =>
          net.there = AnswerLen \/ (srv = "exit" /\ net.taken < QuestionLen)
    BY <1>9, <2>1 DEF Receive, Over, GrInv
  <2>3. k = "part22" => net.there = 0
    BY <2>1 DEF GrInv
  <2> QED
    BY <1>9, <2>1, <2>2, <2>3 DEF GrInv, AnswerWhole
<1>10. CASE Deliver
  <2>1. PICK n \in (net.there + 1)..net.sent :
          net' = [net EXCEPT !.there = n]
    BY <1>10 DEF Deliver
  <2>2. /\ net'.sent = net.sent /\ net'.there = n /\ net'.reset = net.reset
        /\ net'.asked = net.asked /\ net'.came = net.came /\ net'.taken = net.taken
        /\ DOMAIN net' = DOMAIN net /\ UNCHANGED <<kind, srv, cli>>
    BY <1>10, <2>1 DEF Deliver, GrInv
  <2>3. n \in Nat /\ n <= net.sent
    BY <2>1 DEF GrInv
  <2> QED
    BY <2>2, <2>3 DEF GrInv, AnswerWhole
<1>11. CASE UNCHANGED gr_vars
  BY <1>11 DEF gr_vars, GrInv, AnswerWhole
<1>12. CASE CodeSocketServer \/ OnceServer
  BY <1>4, <1>12 DEF CodeSocketServer, OnceServer
<1>13. CASE CodeSocketClient
  BY <1>6, <1>8, <1>9, <1>13 DEF CodeSocketClient
<1>14. CASE OnceClient
  BY <1>6, <1>7, <1>8, <1>9, <1>14 DEF OnceClient
<1>15. CASE Part22Client
  BY <1>6, <1>7, <1>8, <1>9, <1>15 DEF Part22Client
<1>16. CASE DeliverQuestion
  <2>1. PICK n \in (net.came + 1)..net.asked :
          net' = [net EXCEPT !.came = n, !.reset = srv = "exit"]
    BY <1>16 DEF DeliverQuestion
  <2>2. /\ net'.sent = net.sent /\ net'.there = net.there
        /\ net'.reset = (srv = "exit")
        /\ net'.asked = net.asked /\ net'.came = n /\ net'.taken = net.taken
        /\ DOMAIN net' = DOMAIN net /\ UNCHANGED <<kind, srv, cli>>
    BY <1>16, <2>1 DEF DeliverQuestion, GrInv
  <2>3. n \in Nat /\ n <= net.asked /\ net.taken <= n /\ net.taken < QuestionLen
    BY <2>1 DEF GrInv
  <2>4. net'.reset \in BOOLEAN
    BY <2>2
  <2> QED
    BY <2>2, <2>3, <2>4 DEF GrInv, AnswerWhole
<1> QED
  BY <1>1, <1>2, <1>3, <1>5, <1>10, <1>11, <1>12, <1>13, <1>14, <1>15, <1>16
  DEF GrNext

(* The client of code-socket ends with the whole struct however TCP cuts   *)
(* the answer, unless the server read a part of the question only, and the *)
(* one of part22 with nothing: for any lengths.                            *)
THEOREM ClientGetsAll == GrSpec => []AnswerWhole
<1>1. GrInit => GrInv
  BY GreetingAssumption DEF GrInit, GrInv, AnswerWhole
<1>2. GrInv /\ [GrNext]_gr_vars => GrInv'
  BY GrInductive
<1>3. GrInv => AnswerWhole
  BY DEF GrInv
<1> QED
  BY <1>1, <1>2, <1>3, PTL DEF GrSpec

-----------------------------------------------------------------------------
(* Uffd: the pages fault in order, one fault each, all in the first loop.  *)

FirstLoop ==
  \/ main.at = "read" /\ \/ main.l = 4 * handler.fault_cnt
                         \/ main.l + 2 = 4 * handler.fault_cnt
                         \/ main.l + 4 = 4 * handler.fault_cnt
  \/ main.at = "fault" /\ main.l = 4 * handler.fault_cnt /\ main.l < len

UfInv ==
  /\ DOMAIN main = {"at", "loop", "l"}
  /\ DOMAIN handler = {"at", "fault_cnt", "dst"}
  /\ \E n \in Nat : len = 4 * n
  /\ main.l \in Nat /\ handler.fault_cnt \in Nat /\ 4 * handler.fault_cnt <= len
  /\ DOMAIN resident = 0..handler.fault_cnt - 1
  /\ \A p \in DOMAIN resident : resident[p] = p % Letters
  /\ \A s \in seen : s[3] = PageOf(s[2]) % Letters
  /\ \/ main.at = "start" /\ main.loop = 0 /\ handler.fault_cnt = 0
     \/ main.loop = 1 /\ FirstLoop
     \/ main.loop \in {2, 3} /\ main.at \in {"read", "exit"}
        /\ 4 * handler.fault_cnt = len
  /\ handler.at = "copy" => main.at = "fault" /\ handler.dst = handler.fault_cnt

LEMMA UfInductive ==
  ASSUME UfInv, [UfNext]_uf_vars
  PROVE  UfInv'
<1> USE UffdAssumption
<1> DEFINE fc == handler.fault_cnt
<1>1. PICK n \in Nat : len = 4 * n
  BY DEF UfInv
<1>2. fc \in Nat /\ main.l \in Nat /\ fc <= n
  BY <1>1 DEF UfInv
<1>3. CASE UfStart
  <2>1. PICK k \in 1..Pages : len' = 4 * k
    BY <1>3 DEF UfStart
  <2>2. /\ DOMAIN main' = {"at", "loop", "l"} /\ main'.at = "read"
        /\ main'.loop = 1 /\ main'.l = 0 /\ UNCHANGED <<resident, handler, seen>>
    BY <1>3 DEF UfStart
  <2>3. fc = 0 /\ main.at = "start"
    BY <1>3 DEF UfStart, UfInv, FirstLoop
  <2>4. k \in Nat
    BY <2>1
  <2> QED
    BY <2>1, <2>2, <2>3, <2>4 DEF UfInv, FirstLoop, PageOf
<1>4. CASE UfRead
  <2>1. /\ main.at = "read" /\ main.l < len /\ UNCHANGED <<len, resident, handler>>
        /\ handler.at # "copy"
        /\ main.loop \in {1, 2, 3}
    BY <1>4 DEF UfRead, UfInv
  <2>2. CASE PageOf(main.l) \in DOMAIN resident
    <3>1. /\ seen' = seen \union {<<main.loop, main.l, resident[PageOf(main.l)]>>}
          /\ main' = [main EXCEPT !.l = @ + Step(main.loop)]
      BY <1>4, <2>2 DEF UfRead
    <3>2. /\ DOMAIN main' = {"at", "loop", "l"} /\ main'.at = "read"
          /\ main'.loop = main.loop /\ main'.l = main.l + Step(main.loop)
      BY <2>1, <3>1 DEF UfInv
    <3>3. \A s \in seen' : s[3] = PageOf(s[2]) % Letters
      BY <2>2, <3>1 DEF UfInv
    <3>4. main'.l \in Nat
      BY <1>2, <3>2 DEF Step
    <3>5. ASSUME main.loop = 1 PROVE FirstLoop'
      <4>1. PageOf(main.l) < fc
        BY <1>2, <2>2 DEF UfInv, PageOf
      <4>2. \/ main.l = 4 * fc \/ main.l + 2 = 4 * fc \/ main.l + 4 = 4 * fc
        BY <2>1, <3>5 DEF UfInv, FirstLoop
      <4>3. main.l # 4 * fc
        BY <1>2, <4>1 DEF PageOf
      <4>4. main'.l = main.l + 2
        BY <3>2, <3>5 DEF Step
      <4> QED
        BY <1>2, <2>1, <3>2, <4>2, <4>3, <4>4 DEF FirstLoop
    <3> QED
      BY <2>1, <3>2, <3>3, <3>4, <3>5 DEF UfInv, PageOf
  <2>3. CASE PageOf(main.l) \notin DOMAIN resident
    <3>1. main' = [main EXCEPT !.at = "fault"] /\ UNCHANGED seen
      BY <1>4, <2>3 DEF UfRead
    <3>2. /\ DOMAIN main' = {"at", "loop", "l"} /\ main'.at = "fault"
          /\ main'.loop = main.loop /\ main'.l = main.l
      BY <3>1 DEF UfInv
    <3>3. PageOf(main.l) >= fc /\ PageOf(main.l) \in Nat
      BY <1>2, <2>3 DEF UfInv, PageOf
    <3>4. main.l >= 4 * fc
      BY <1>2, <3>3 DEF PageOf
    <3>5. main.loop = 1
      BY <1>1, <1>2, <2>1, <3>4 DEF UfInv
    <3>6. main.l = 4 * fc
      BY <1>2, <2>1, <3>4, <3>5 DEF UfInv, FirstLoop
    <3> QED
      BY <1>2, <2>1, <3>1, <3>2, <3>5, <3>6 DEF UfInv, FirstLoop, PageOf
  <2> QED
    BY <2>2, <2>3
<1>5. CASE UfLoop
  <2>1. /\ main.at = "read" /\ main.l >= len
        /\ UNCHANGED <<len, resident, handler, seen>> /\ handler.at # "copy"
        /\ main.loop \in {1, 2, 3}
    BY <1>5 DEF UfLoop, UfInv
  <2>2. 4 * fc = len
    BY <1>1, <1>2, <2>1 DEF UfInv, FirstLoop
  <2>3. /\ DOMAIN main' = {"at", "loop", "l"} /\ main'.at \in {"read", "exit"}
        /\ main'.loop \in {2, 3} /\ main'.l \in Nat
    <3>1. CASE main.loop = 3
      BY <1>5, <2>1, <3>1 DEF UfLoop, UfInv
    <3>2. CASE main.loop # 3
      BY <1>5, <2>1, <3>2 DEF UfLoop, UfInv
    <3> QED
      BY <3>1, <3>2
  <2> QED
    BY <2>1, <2>2, <2>3 DEF UfInv, PageOf
<1>6. CASE UfPoll
  <2>1. /\ handler'.at = "copy" /\ handler'.dst = PageOf(main.l)
        /\ handler'.fault_cnt = fc /\ DOMAIN handler' = DOMAIN handler
        /\ main.at = "fault" /\ UNCHANGED <<len, resident, main, seen>>
    BY <1>6 DEF UfPoll, UfInv
  <2>2. main.l = 4 * fc /\ main.loop = 1
    BY <2>1 DEF UfInv, FirstLoop
  <2>3. PageOf(main.l) = fc
    BY <1>2, <2>2 DEF PageOf
  <2> QED
    BY <2>1, <2>2, <2>3 DEF UfInv, FirstLoop, PageOf
<1>7. CASE UfCopy
  <2>1. /\ handler.dst = fc /\ main.at = "fault" /\ main.l = 4 * fc
        /\ main.l < len /\ main.loop = 1
    BY <1>7 DEF UfCopy, UfInv, FirstLoop
  <2>2. /\ handler'.at = "poll" /\ handler'.fault_cnt = fc + 1
        /\ DOMAIN handler' = DOMAIN handler /\ DOMAIN main' = DOMAIN main
        /\ main'.at = "read" /\ main'.l = main.l /\ main'.loop = 1
        /\ UNCHANGED <<len, seen>>
    BY <1>7, <2>1 DEF UfCopy, UfInv
  <2>3. DOMAIN resident' = (0..fc - 1) \union {fc}
    BY <1>7, <2>1 DEF UfCopy, UfInv
  <2>4. (0..fc - 1) \union {fc} = 0..(fc + 1) - 1
    BY <1>2
  <2>5. \A p \in DOMAIN resident' : resident'[p] = p % Letters
    BY <1>7, <2>1, <2>3 DEF UfCopy, UfInv
  <2>6. 4 * (fc + 1) <= len
    BY <1>1, <1>2, <2>1
  <2>7. main'.l + 4 = 4 * handler'.fault_cnt
    BY <1>2, <2>1, <2>2
  <2>8. /\ handler'.fault_cnt \in Nat /\ 4 * handler'.fault_cnt <= len'
        /\ DOMAIN resident' = 0..handler'.fault_cnt - 1 /\ main'.l \in Nat
    BY <1>2, <2>2, <2>3, <2>4, <2>6
  <2>9. \E k \in Nat : len' = 4 * k
    BY <1>1, <2>2
  <2>10. FirstLoop'
    BY <2>2, <2>7 DEF FirstLoop
  <2> QED
    BY <2>2, <2>5, <2>8, <2>9, <2>10 DEF UfInv, PageOf
<1>8. CASE UNCHANGED uf_vars
  BY <1>8 DEF uf_vars, UfInv, FirstLoop, PageOf
<1> QED
  BY <1>3, <1>4, <1>5, <1>6, <1>7, <1>8 DEF UfNext

LEMMA UfShown ==
  ASSUME UfInv
  PROVE  ReadsAgree
<1>1. \A s \in seen : s[3] = PageOf(s[2]) % Letters
  BY DEF UfInv
<1>2. main.at = "fault" => main.loop = 1
  BY DEF UfInv
<1>3. handler.fault_cnt = Cardinality(DOMAIN resident)
  <2>1. /\ handler.fault_cnt \in Nat
        /\ DOMAIN resident = 0..handler.fault_cnt - 1
    BY DEF UfInv
  <2>2. 0 \in Int /\ handler.fault_cnt - 1 \in Int
    BY <2>1
  <2>3. Cardinality(0..handler.fault_cnt - 1) =
          IF 0 > handler.fault_cnt - 1 THEN 0 ELSE (handler.fault_cnt - 1) - 0 + 1
    BY <2>2, FS_Interval
  <2> QED
    BY <2>1, <2>3
<1> QED
  BY <1>1, <1>2, <1>3 DEF ReadsAgree

(* In every loop main reads at every address the letter of the first fault *)
(* of its page; no page faults twice, and the later loops fault nowhere:   *)
(* for any number of pages and of letters.                                 *)
THEOREM FaultsAreOnce == UfSpec => []ReadsAgree
<1>1. UfInit => UfInv
  <2>1. UfInit => DOMAIN resident = 0..-1 /\ seen = {}
    BY DEF UfInit
  <2> QED
    BY <2>1 DEF UfInit, UfInv
<1>2. UfInv /\ [UfNext]_uf_vars => UfInv'
  BY UfInductive
<1>3. UfInv => ReadsAgree
  BY UfShown
<1> QED
  BY <1>1, <1>2, <1>3, PTL DEF UfSpec

-----------------------------------------------------------------------------
(* Part3: what a machine's place says about its order and its region.      *)

P3Shape ==
  /\ DOMAIN p3order = P3Machines /\ DOMAIN server = P3Machines
  /\ DOMAIN client = P3Machines /\ DOMAIN wire = P3Machines
  /\ DOMAIN mch = P3Machines /\ DOMAIN ui = P3Machines
  /\ \A m \in P3Machines : DOMAIN ui[m] = {"at", "todo"}

(* The order is decided by the first connect and asked by the server.      *)
P3Places(m) ==
  /\ client[m] = "connect" => p3order[m] = 0
  /\ client[m] = "recv" => p3order[m] = 2
  /\ client[m] = "again" => p3order[m] = 1
  /\ client[m] = "done" => p3order[m] \in {1, 2}
  /\ server[m] = "count" => p3order[m] = 1
  /\ ui[m].at # "no" => client[m] = "done"

(* A struct under way is the region of the first machine, which stays.     *)
P3Region(m) ==
  /\ wire[m] # NoStuff => /\ p3order[P3Peer(m)] = 1
                          /\ mch[P3Peer(m)].at = wire[m]
                          /\ server[P3Peer(m)] \in {"done", "exit"}
  /\ p3order[m] = 2 /\ client[m] = "done" => /\ wire[m] # NoStuff
                                             /\ mch[m].at = wire[m]

P3Inv == P3Shape /\ \A m \in P3Machines : P3Places(m) /\ P3Region(m)

LEMMA P3Peers ==
  ASSUME NEW m \in P3Machines
  PROVE  /\ P3Peer(m) \in P3Machines /\ P3Peer(m) # m /\ P3Peer(P3Peer(m)) = m
         /\ \A k \in P3Machines : k # m => k = P3Peer(m)
  BY DEF P3Machines, P3Peer

(* A step that leaves the region and the order alone. *)
LEMMA P3ExitKeeps ==
  ASSUME P3Inv, NEW m \in P3Machines, P3Exit(m), UNCHANGED <<p3order, wire, mch>>
  PROVE  P3Inv'
<1>1. P3Shape'
  BY DEF P3Inv, P3Shape, P3Exit
<1>2. /\ server'[m] = "exit" /\ client'[m] = "exit" /\ ui'[m].at = "no"
      /\ \A k \in P3Machines : k # m => /\ server'[k] = server[k]
                                        /\ client'[k] = client[k]
                                        /\ ui'[k] = ui[k]
  BY DEF P3Inv, P3Shape, P3Exit
<1>3. ASSUME NEW k \in P3Machines PROVE P3Places(k)' /\ P3Region(k)'
  <2>1. P3Places(k) /\ P3Region(k) /\ P3Peer(k) \in P3Machines
    BY P3Peers DEF P3Inv
  <2> QED
    BY <1>2, <2>1 DEF P3Places, P3Region
<1> QED
  BY <1>1, <1>3 DEF P3Inv

LEMMA P3MenuKeeps ==
  ASSUME P3Inv, NEW m \in P3Machines, client[m] = "done",
         NEW u, ui' = [ui EXCEPT ![m] = u], DOMAIN u = {"at", "todo"},
         UNCHANGED <<p3order, server, client, wire, mch>>
  PROVE  P3Inv'
<1>1. P3Shape'
  BY DEF P3Inv, P3Shape
<1>2. \A k \in P3Machines : k # m => ui'[k] = ui[k]
  BY DEF P3Inv, P3Shape
<1>3. ASSUME NEW k \in P3Machines PROVE P3Places(k)' /\ P3Region(k)'
  BY <1>2 DEF P3Inv, P3Places, P3Region
<1> QED
  BY <1>1, <1>3 DEF P3Inv

LEMMA P3AccessKeeps ==
  ASSUME P3Inv, NEW m \in P3Machines, NEW op \in {"r", "w"}, Access(m, op)
  PROVE  P3Inv'
<1>1. /\ client[m] = "done" /\ UNCHANGED <<p3order, wire, mch>>
      /\ DOMAIN ui[m] = {"at", "todo"} /\ DOMAIN ui = P3Machines
  BY DEF Access, P3Inv, P3Shape, P3Places
<1>2. CASE P3Exit(m)
  BY <1>1, <1>2, P3ExitKeeps
<1>3. CASE /\ UNCHANGED <<server, client>>
           /\ \E u : DOMAIN u = {"at", "todo"} /\ ui' = [ui EXCEPT ![m] = u]
  BY <1>1, <1>3, P3MenuKeeps
<1>4. ASSUME ui' = [ui EXCEPT ![m].at = "menu"], UNCHANGED <<server, client>>
      PROVE  P3Inv'
  BY <1>1, <1>3, <1>4
<1>5. ASSUME NEW p, ui' = [ui EXCEPT ![m].todo = @ \ {p}], UNCHANGED <<server, client>>
      PROVE  P3Inv'
  BY <1>1, <1>3, <1>5
<1> QED
  BY <1>2, <1>4, <1>5 DEF Access

LEMMA P3Inductive ==
  ASSUME P3Inv, [P3Next]_p3_vars
  PROVE  P3Inv'
<1>1. ASSUME NEW m \in P3Machines, P3Listen(m) PROVE P3Inv'
  <2>1. P3Shape' /\ server[m] = "start"
    BY <1>1 DEF P3Inv, P3Shape, P3Listen
  <2>2. \A k \in P3Machines : server'[k] = IF k = m THEN "accept" ELSE server[k]
    BY <1>1 DEF P3Inv, P3Shape, P3Listen
  <2>3. ASSUME NEW k \in P3Machines PROVE P3Places(k)' /\ P3Region(k)'
    BY <1>1, <2>1, <2>2, P3Peers DEF P3Inv, P3Places, P3Region, P3Listen
  <2> QED
    BY <2>1, <2>3 DEF P3Inv
<1>2. ASSUME NEW m \in P3Machines, P3Accept(m) PROVE P3Inv'
  <2>1. P3Shape' /\ server[m] = "accept"
    BY <1>2 DEF P3Inv, P3Shape, P3Accept
  <2>2. /\ \A k \in P3Machines : k # m => server'[k] = server[k]
        /\ server'[m] \in {"count", "done"}
        /\ server'[m] = "count" => p3order[m] = 1
    BY <1>2 DEF P3Inv, P3Shape, P3Accept
  <2>3. ASSUME NEW k \in P3Machines PROVE P3Places(k)' /\ P3Region(k)'
    BY <1>2, <2>1, <2>2, P3Peers DEF P3Inv, P3Places, P3Region, P3Accept
  <2> QED
    BY <2>1, <2>3 DEF P3Inv
<1>3. ASSUME NEW m \in P3Machines, SendRegion(m) PROVE P3Inv'
  <2>1. CASE P3Exit(m) /\ UNCHANGED <<mch, wire>>
    BY <1>3, <2>1, P3ExitKeeps DEF SendRegion
  <2>2. ASSUME NEW n \in 1..P3Pages, NEW a \in Addrs, NEW data,
               data = [pg_size |-> n, addr |-> a],
               mch' = [mch EXCEPT ![m] = [at |-> data, kept |-> TRUE]],
               wire' = [wire EXCEPT ![P3Peer(m)] = data],
               server' = [server EXCEPT ![m] = "done"],
               UNCHANGED <<p3order, client, ui>>
        PROVE  P3Inv'
    <3>1. data # NoStuff
      <4>1. n # 0
        BY Part3Assumption
      <4>2. data.pg_size = n /\ NoStuff.pg_size = 0
        BY <2>2 DEF NoStuff
      <4> QED
        BY <4>1, <4>2
    <3>2. P3Shape' /\ server[m] = "count" /\ p3order[m] = 1
      BY <1>3, <2>2 DEF P3Inv, P3Shape, SendRegion, P3Places
    <3>3. /\ mch'[m].at = data /\ wire'[P3Peer(m)] = data /\ server'[m] = "done"
          /\ wire'[m] = wire[m]
          /\ \A k \in P3Machines : k # m => mch'[k] = mch[k] /\ server'[k] = server[k]
      BY <2>2, P3Peers DEF P3Inv, P3Shape
    <3>4. P3Places(m)' /\ P3Places(P3Peer(m))'
      BY <2>2, <3>2, <3>3, P3Peers DEF P3Inv, P3Places
    <3>5. wire[P3Peer(m)] = NoStuff
      BY <3>2, P3Peers DEF P3Inv, P3Region
    <3>6. P3Region(P3Peer(m))'
      BY <2>2, <3>1, <3>2, <3>3, <3>5, P3Peers DEF P3Inv, P3Region
    <3>7. P3Region(m)'
      BY <2>2, <3>1, <3>2, <3>3, P3Peers DEF P3Inv, P3Region
    <3> QED
      BY <3>2, <3>4, <3>6, <3>7, P3Peers DEF P3Inv
  <2> QED
    BY <1>3, <2>1, <2>2 DEF SendRegion
<1>4. ASSUME NEW m \in P3Machines, P3Connect(m) PROVE P3Inv'
  <2>1. /\ P3Shape' /\ client[m] = "connect" /\ p3order[m] = 0
        /\ UNCHANGED <<server, wire, mch, ui>>
    BY <1>4 DEF P3Inv, P3Shape, P3Connect, P3Places
  <2>2. /\ \A k \in P3Machines : k # m => client'[k] = client[k] /\ p3order'[k] = p3order[k]
        /\ \/ client'[m] = "recv" /\ p3order'[m] = 2
           \/ client'[m] = "again" /\ p3order'[m] = 1
    BY <1>4 DEF P3Inv, P3Shape, P3Connect
  <2>3. P3Places(m) /\ P3Places(P3Peer(m)) /\ P3Region(m) /\ P3Region(P3Peer(m))
    BY P3Peers DEF P3Inv
  <2>4. P3Places(m)' /\ P3Places(P3Peer(m))'
    BY <2>1, <2>2, <2>3, P3Peers DEF P3Places
  <2>5. P3Region(m)' /\ P3Region(P3Peer(m))'
    BY <2>1, <2>2, <2>3, P3Peers DEF P3Region
  <2> QED
    BY <2>1, <2>4, <2>5, P3Peers DEF P3Inv
<1>5. ASSUME NEW m \in P3Machines, ConnectAgain(m) PROVE P3Inv'
  <2>1. /\ P3Shape' /\ client[m] = "again" /\ client'[m] = "done"
        /\ UNCHANGED <<p3order, server, wire, mch, ui>>
        /\ \A k \in P3Machines : k # m => client'[k] = client[k]
    BY <1>5 DEF P3Inv, P3Shape, ConnectAgain
  <2>2. ASSUME NEW k \in P3Machines PROVE P3Places(k)' /\ P3Region(k)'
    BY <2>1 DEF P3Inv, P3Places, P3Region
  <2> QED
    BY <2>1, <2>2 DEF P3Inv
<1>6. ASSUME NEW m \in P3Machines, RecvRegion(m) PROVE P3Inv'
  <2>1. CASE P3Exit(m) /\ UNCHANGED mch
    BY <1>6, <2>1, P3ExitKeeps DEF RecvRegion
  <2>2. ASSUME NEW kept, wire[m] # NoStuff,
               mch' = [mch EXCEPT ![m] = [at |-> wire[m], kept |-> kept]],
               client' = [client EXCEPT ![m] = "done"],
               UNCHANGED <<server, ui, p3order, wire>>
        PROVE  P3Inv'
    <3>1. /\ P3Shape' /\ p3order[m] = 2
      BY <1>6, <2>2 DEF P3Inv, P3Shape, RecvRegion, P3Places
    <3>2. /\ mch'[m].at = wire[m] /\ client'[m] = "done"
          /\ \A k \in P3Machines : k # m => mch'[k] = mch[k] /\ client'[k] = client[k]
      BY <2>2 DEF P3Inv, P3Shape
    <3>3. P3Places(m) /\ P3Places(P3Peer(m)) /\ P3Region(m) /\ P3Region(P3Peer(m))
      BY P3Peers DEF P3Inv
    <3>4. P3Places(m)' /\ P3Places(P3Peer(m))'
      BY <2>2, <3>1, <3>2, <3>3, P3Peers DEF P3Places
    <3>5. wire[P3Peer(m)] = NoStuff
      BY <3>1, <3>3, P3Peers DEF P3Region
    <3>6. P3Region(m)' /\ P3Region(P3Peer(m))'
      BY <2>2, <3>1, <3>2, <3>3, <3>5, P3Peers DEF P3Region
    <3> QED
      BY <3>1, <3>4, <3>6, P3Peers DEF P3Inv
  <2> QED
    BY <1>6, <2>1, <2>2 DEF RecvRegion
<1>7. ASSUME NEW m \in P3Machines, P3Main(m) PROVE P3Inv'
  <2>1. PICK u : u = [ui[m] EXCEPT !.at = "menu"]
    OBVIOUS
  <2>2. DOMAIN u = {"at", "todo"} /\ ui' = [ui EXCEPT ![m] = u]
    BY <1>7, <2>1 DEF P3Main, P3Inv, P3Shape
  <2> QED
    BY <1>7, <2>2, P3MenuKeeps DEF P3Main
<1>8. ASSUME NEW m \in P3Machines, P3Menu(m) PROVE P3Inv'
  <2>1. client[m] = "done" /\ UNCHANGED <<p3order, wire, mch>>
    BY <1>8 DEF P3Menu, P3Inv, P3Places
  <2>2. CASE P3Exit(m)
    BY <2>1, <2>2, P3ExitKeeps
  <2>3. ASSUME NEW op \in {"r", "w"}, NEW todo,
               ui' = [ui EXCEPT ![m] = [at |-> op, todo |-> todo]],
               UNCHANGED <<server, client>>
        PROVE  P3Inv'
    <3>1. PICK u : u = [at |-> op, todo |-> todo]
      OBVIOUS
    <3> QED
      BY <2>1, <2>3, <3>1, P3MenuKeeps
  <2> QED
    BY <1>8, <2>2, <2>3 DEF P3Menu
<1>9. ASSUME NEW m \in P3Machines, fault_handler_thread(m) PROVE P3Inv'
  <2>1. CASE P3Exit(m)
    BY <1>9, <2>1, P3ExitKeeps DEF fault_handler_thread
  <2>2. CASE UNCHANGED <<server, client, ui>>
    BY <1>9, <2>2
    DEF fault_handler_thread, P3Inv, P3Shape, P3Places, P3Region
  <2> QED
    BY <1>9, <2>1, <2>2 DEF fault_handler_thread
<1>10. CASE UNCHANGED p3_vars
  BY <1>10 DEF p3_vars, P3Inv, P3Shape, P3Places, P3Region
<1> QED
  BY <1>1, <1>2, <1>3, <1>4, <1>5, <1>6, <1>7, <1>8, <1>9, <1>10, P3AccessKeeps
  DEF P3Next, P3Step, mem_read, mem_write

(* However the threads of the two machines interleave, a second machine at *)
(* its menu has the region that its peer, the first machine, mapped.       *)
THEOREM SecondHasRegion == P3Spec => []SameRegion
<1>1. P3Init => P3Inv
  BY P3Peers DEF P3Init, P3Inv, P3Shape, P3Places, P3Region
<1>2. P3Inv /\ [P3Next]_p3_vars => P3Inv'
  BY P3Inductive
<1>3. P3Inv => SameRegion
  BY P3Peers DEF P3Inv, P3Places, P3Region, SameRegion
<1> QED
  BY <1>1, <1>2, <1>3, PTL DEF P3Spec

-----------------------------------------------------------------------------
(* Bus: a handler that left poll has a thread asleep in a fault.           *)

BusShape ==
  /\ DOMAIN bus_signal = BusMachines /\ DOMAIN addr = BusMachines
  /\ DOMAIN menu = BusMachines /\ DOMAIN bushandler = BusMachines
  /\ signals \in Nat
  /\ \A m \in BusMachines :
       /\ DOMAIN bus_signal[m] = {"BusRd", "BusRdX"}
       /\ DOMAIN menu[m] = {"at", "todo"}
       /\ menu[m].todo \subseteq AllPages /\ DOMAIN addr[m] \subseteq AllPages

AtWork(m) == bushandler[m] \in {"bus", "read", "stdin"}

BusPlaces(m) ==
  /\ menu[m].at \in {"menu", "exit"} => menu[m].todo = {}
  /\ AtWork(m) => Faulting(m)

BusInv ==
  /\ BusShape
  /\ \A m \in BusMachines : BusPlaces(m)
  /\ bushandler[1] # "stdin"
  /\ BusHolds

LEMMA LowestPageIn ==
  ASSUME NEW S, S \subseteq AllPages, S # {}
  PROVE  LowestPage(S) \in S
<1>1. S \subseteq Nat
  BY BusAssumption DEF AllPages
<1>2. PICK x \in S : \A y \in S : ~(<<y, x>> \in OpToRel(<, Nat))
  BY <1>1, NatLessThanWellFounded, WFMin
<1>3. ASSUME NEW y \in S PROVE x <= y
  <2>1. x \in Nat /\ y \in Nat
    BY <1>1
  <2>2. ~(y < x)
    BY <1>2, <2>1 DEF OpToRel
  <2> QED
    BY <2>1, <2>2
<1> QED
  BY <1>3 DEF LowestPage

LEMMA PagesFinite ==
  ASSUME NEW S, S \subseteq AllPages
  PROVE  IsFiniteSet(S) /\ Cardinality(S) \in Nat
<1>1. IsFiniteSet(AllPages)
  BY BusAssumption, FS_Interval DEF AllPages
<1>2. IsFiniteSet(S)
  BY <1>1, FS_Subset
<1> QED
  BY <1>2, FS_CardinalityType

(* A command of machine m: what it may do to the menu and the signals.     *)
CommandOf(m) ==
  /\ BusShape'
  /\ \A k \in BusMachines : k # m => /\ menu'[k] = menu[k]
                                     /\ bushandler'[k] = bushandler[k]
                                     /\ bus_signal'[k] = bus_signal[k]
  /\ bushandler'[m] \in {bushandler[m], "exit"}
  /\ menu'[m].at \in {"menu", "exit"} => menu'[m].todo = {}
  /\ UNCHANGED <<addr, signals>>

Signals(m) ==
  /\ DOMAIN bus_signal' = BusMachines
  /\ \A k \in BusMachines : DOMAIN bus_signal'[k] = {"BusRd", "BusRdX"}
  /\ \A k \in BusMachines : k # m => bus_signal'[k] = bus_signal[k]

LEMMA MenuCommands ==
  ASSUME BusInv, NEW m \in BusMachines, NEW raises \in BOOLEAN, Menu(m, raises)
  PROVE  menu[m].at = "menu" /\ menu[m].todo = {} /\ CommandOf(m)
<1>1. menu[m].at = "menu" /\ menu[m].todo = {} /\ UNCHANGED <<addr, signals>>
  BY DEF Menu, BusInv, BusPlaces
<1> SUFFICES CommandOf(m)
  BY <1>1
<1>2. ASSUME NEW u, menu' = [menu EXCEPT ![m] = u], DOMAIN u = {"at", "todo"},
             u.todo \subseteq AllPages, u.at \in {"menu", "exit"} => u.todo = {},
             Signals(m),
             \/ UNCHANGED bushandler
             \/ bushandler' = [bushandler EXCEPT ![m] = "exit"]
      PROVE  CommandOf(m)
  <2>1. /\ DOMAIN menu' = BusMachines /\ menu'[m] = u
        /\ \A k \in BusMachines : k # m => menu'[k] = menu[k]
    BY <1>2 DEF BusInv, BusShape
  <2>2. /\ DOMAIN bushandler' = BusMachines
        /\ \A k \in BusMachines : k # m => bushandler'[k] = bushandler[k]
        /\ bushandler'[m] \in {bushandler[m], "exit"}
    BY <1>2 DEF BusInv, BusShape
  <2>3. BusShape'
    BY <1>1, <1>2, <2>1, <2>2 DEF BusInv, BusShape, AllPages, Signals
  <2> QED
    BY <1>1, <1>2, <2>1, <2>2, <2>3 DEF CommandOf, Signals
<1>3. ASSUME BusExit(m), Signals(m) PROVE CommandOf(m)
  <2>1. PICK u : u = [at |-> "exit", todo |-> {}]
    OBVIOUS
  <2>2. DOMAIN u = {"at", "todo"} /\ u.todo = {} /\ u.at = "exit"
    BY <2>1
  <2>3. /\ menu' = [menu EXCEPT ![m] = u]
        /\ bushandler' = [bushandler EXCEPT ![m] = "exit"]
    BY <1>3, <2>1 DEF BusExit
  <2>4. u.todo \subseteq AllPages /\ (u.at \in {"menu", "exit"} => u.todo = {})
    BY <2>2
  <2> QED
    BY <1>2, <1>3, <2>2, <2>3, <2>4
<1>4. ASSUME UNCHANGED <<menu, bushandler>>, Signals(m) PROVE CommandOf(m)
  <2>1. BusShape'
    BY <1>1, <1>4 DEF BusInv, BusShape, AllPages, Signals
  <2> QED
    BY <1>1, <1>4, <2>1 DEF CommandOf, Signals
<1>5. UNCHANGED bus_signal => Signals(m)
  BY DEF BusInv, BusShape, Signals
<1>6. bus_signal' = [bus_signal EXCEPT ![m].BusRd = 1] => Signals(m)
  <2>1. ASSUME bus_signal' = [bus_signal EXCEPT ![m].BusRd = 1] PROVE Signals(m)
    BY <2>1 DEF BusInv, BusShape, Signals
  <2> QED
    BY <2>1
<1>7. bus_signal' = [bus_signal EXCEPT ![m].BusRdX = 1] => Signals(m)
  <2>1. ASSUME bus_signal' = [bus_signal EXCEPT ![m].BusRdX = 1] PROVE Signals(m)
    BY <2>1 DEF BusInv, BusShape, Signals
  <2> QED
    BY <2>1
<1>8. ASSUME NEW op \in {"r", "w"}, NEW S, S \subseteq AllPages,
             menu' = [menu EXCEPT ![m] = [at |-> op, todo |-> S]],
             UNCHANGED bushandler, Signals(m)
      PROVE  CommandOf(m)
  <2>1. PICK u : u = [at |-> op, todo |-> S]
    OBVIOUS
  <2>2. DOMAIN u = {"at", "todo"} /\ u.todo = S /\ u.at \notin {"menu", "exit"}
    BY <1>8, <2>1
  <2>3. menu' = [menu EXCEPT ![m] = u]
    BY <1>8, <2>1
  <2> QED
    BY <1>2, <1>8, <2>2, <2>3
<1>9. ASSUME NEW p \in AllPages, ReadPage(m, p) PROVE CommandOf(m)
  <2>1. Signals(m)
    BY <1>5, <1>6, <1>9 DEF ReadPage
  <2>2. {p} \subseteq AllPages
    BY <1>9
  <2> QED
    BY <1>8, <1>9, <2>1, <2>2 DEF ReadPage
<1>10. CASE ReadAll(m, raises)
  <2>1. PICK nb \in Neighbour :
          /\ bus_signal' = IF nb = "I" \/ (nb = "none" /\ raises)
                           THEN [bus_signal EXCEPT ![m].BusRd = 1] ELSE bus_signal
          /\ IF nb = "none"
             THEN /\ menu' = [menu EXCEPT ![m] = [at |-> "r", todo |-> AllPages]]
                  /\ UNCHANGED bushandler
             ELSE BelowRegion(m)
    BY <1>10 DEF ReadAll
  <2>2. Signals(m)
    BY <1>5, <1>6, <2>1
  <2>3. CASE nb = "none"
    <3>1. /\ menu' = [menu EXCEPT ![m] = [at |-> "r", todo |-> AllPages]]
          /\ UNCHANGED bushandler
      BY <2>1, <2>3
    <3> QED
      BY <1>8, <2>2, <3>1
  <2>4. CASE nb # "none"
    <3>1. BelowRegion(m)
      BY <2>1, <2>4
    <3> QED
      BY <1>3, <1>4, <2>2, <3>1 DEF BelowRegion
  <2> QED
    BY <2>3, <2>4
<1>11. CASE WritePage(m)
  <2>1. Signals(m)
    BY <1>7, <1>11 DEF WritePage
  <2>2. UNCHANGED <<menu, bushandler>>
    BY <1>11 DEF WritePage
  <2> QED
    BY <1>4, <2>1, <2>2
<1>12. CASE WriteAll(m)
  <2>1. PICK nb \in Neighbour :
          /\ bus_signal' = IF nb \in {"S", "I"}
                           THEN [bus_signal EXCEPT ![m].BusRdX = 1] ELSE bus_signal
          /\ CASE nb = "none" ->
                    /\ menu' = [menu EXCEPT ![m] = [at |-> "w", todo |-> AllPages]]
                    /\ UNCHANGED bushandler
               [] nb = "M" -> BelowRegion(m)
               [] OTHER -> UNCHANGED <<menu, bushandler>>
    BY <1>12 DEF WriteAll
  <2>2. Signals(m)
    BY <1>5, <1>7, <2>1
  <2>3. CASE nb = "none"
    <3>1. /\ menu' = [menu EXCEPT ![m] = [at |-> "w", todo |-> AllPages]]
          /\ UNCHANGED bushandler
      BY <2>1, <2>3
    <3> QED
      BY <1>8, <2>2, <3>1
  <2>4. CASE nb = "M"
    <3>1. BelowRegion(m)
      BY <2>1, <2>4
    <3> QED
      BY <1>3, <1>4, <2>2, <3>1 DEF BelowRegion
  <2>5. CASE nb \notin {"none", "M"}
    <3>1. UNCHANGED <<menu, bushandler>>
      BY <2>1, <2>5
    <3> QED
      BY <1>4, <2>2, <3>1
  <2> QED
    BY <2>3, <2>4, <2>5
<1>13. CASE Quit(m)
  <2>1. BusExit(m) /\ UNCHANGED bus_signal
    BY <1>13 DEF Quit
  <2> QED
    BY <1>3, <1>5, <2>1
<1> QED
  BY <1>1, <1>9, <1>10, <1>11, <1>12, <1>13 DEF Menu

LEMMA BusInductive ==
  ASSUME BusInv, [BusNext]_bus_vars
  PROVE  BusInv'
<1>1. ASSUME NEW k \in BusMachines, menu'[k].todo = menu[k].todo,
             DOMAIN addr'[k] = DOMAIN addr[k]
      PROVE  Faulting(k)' <=> Faulting(k)
  BY <1>1 DEF Faulting, BusFault
<1>2. /\ 1 \in BusMachines /\ 2 \in BusMachines
      /\ \A k \in BusMachines : k = 1 \/ k = 2
  BY DEF BusMachines
<1>3. /\ BusShape /\ BusHolds /\ signals \in Nat /\ bushandler[1] # "stdin"
      /\ \A k \in BusMachines : /\ BusPlaces(k)
                                /\ Cardinality(DOMAIN addr[k]) \in Nat
  BY PagesFinite DEF BusInv, BusShape
<1>4. ASSUME NEW m \in BusMachines, NEW raises \in BOOLEAN, Menu(m, raises)
      PROVE  BusInv'
  <2>1. menu[m].at = "menu" /\ menu[m].todo = {} /\ CommandOf(m)
    BY <1>4, MenuCommands
  <2>2. ~AtWork(m) /\ ~AtWork(m)'
    BY <1>3, <2>1 DEF BusPlaces, AtWork, Faulting, CommandOf
  <2>3. ASSUME NEW k \in BusMachines PROVE BusPlaces(k)'
    <3>1. CASE k = m
      BY <2>1, <2>2, <3>1 DEF BusPlaces, CommandOf
    <3>2. CASE k # m
      BY <1>1, <1>3, <2>1, <3>2 DEF BusPlaces, CommandOf, AtWork
    <3> QED
      BY <3>1, <3>2
  <2>4. BusHolds'
    <3>1. CASE m = 1
      BY <1>2, <1>3, <2>1, <2>2, <3>1 DEF BusHolds, CommandOf, AtWork
    <3>2. CASE m = 2
      BY <1>2, <1>3, <2>1, <2>2, <3>2 DEF BusHolds, CommandOf, AtWork
    <3> QED
      BY <1>2, <3>1, <3>2
  <2>5. bushandler'[1] # "stdin"
    BY <1>2, <1>3, <2>1 DEF CommandOf
  <2> QED
    BY <2>1, <2>3, <2>4, <2>5 DEF BusInv, CommandOf
<1>5. ASSUME NEW m \in BusMachines, Touch(m) PROVE BusInv'
  <2>1. /\ menu[m].at \in {"r", "w", "copy"} /\ ~Faulting(m) /\ ~AtWork(m)
        /\ UNCHANGED <<bus_signal, bushandler, signals>>
    BY <1>3, <1>5 DEF Touch, BusPlaces
  <2>2. /\ DOMAIN menu' = BusMachines /\ DOMAIN addr' = BusMachines
        /\ \A k \in BusMachines : /\ k # m => menu'[k] = menu[k]
                                  /\ DOMAIN addr'[k] = DOMAIN addr[k]
        /\ DOMAIN menu'[m] = {"at", "todo"} /\ menu'[m].todo \subseteq AllPages
        /\ menu'[m].at # "exit"
        /\ menu'[m].at = "menu" => menu'[m].todo = {}
    <3>1. CASE menu[m].todo = {}
      <4>1. PICK u : u = AfterLoop(m)
        OBVIOUS
      <4>2. /\ DOMAIN u = {"at", "todo"} /\ u.todo \subseteq AllPages /\ u.at # "exit"
            /\ u.at = "menu" => u.todo = {}
        BY <4>1 DEF AfterLoop, Idle
      <4>3. menu' = [menu EXCEPT ![m] = u] /\ UNCHANGED addr
        BY <1>5, <3>1, <4>1 DEF Touch
      <4> QED
        BY <1>3, <4>2, <4>3 DEF BusShape
    <3>2. CASE menu[m].todo # {}
      <4>1. /\ menu' = [menu EXCEPT ![m].todo = @ \ {LowestPage(menu[m].todo)}]
            /\ addr' = [addr EXCEPT ![m][LowestPage(menu[m].todo)] =
                          CASE menu[m].at = "r" -> @
                            [] menu[m].at = "w" -> "zero"
                            [] menu[m].at = "copy" -> "text"]
        BY <1>5, <3>2 DEF Touch
      <4>2. /\ DOMAIN menu' = BusMachines
            /\ \A k \in BusMachines : k # m => menu'[k] = menu[k]
            /\ DOMAIN menu'[m] = {"at", "todo"} /\ menu'[m].at = menu[m].at
            /\ menu'[m].todo \subseteq menu[m].todo
        BY <1>3, <4>1 DEF BusShape
      <4>3. /\ DOMAIN addr' = BusMachines
            /\ \A k \in BusMachines : DOMAIN addr'[k] = DOMAIN addr[k]
        BY <1>3, <4>1 DEF BusShape
      <4> QED
        BY <1>3, <2>1, <4>2, <4>3 DEF BusShape
    <3> QED
      BY <3>1, <3>2
  <2>3. BusShape'
    BY <1>3, <2>1, <2>2 DEF BusShape, AllPages
  <2>4. ASSUME NEW k \in BusMachines PROVE BusPlaces(k)'
    <3>1. CASE k = m
      BY <2>1, <2>2, <3>1 DEF BusPlaces, AtWork
    <3>2. CASE k # m
      BY <1>1, <1>3, <2>1, <2>2, <3>2 DEF BusPlaces, AtWork
    <3> QED
      BY <3>1, <3>2
  <2>5. BusHolds'
    BY <1>2, <1>3, <2>1, <2>2 DEF BusHolds
  <2> QED
    BY <1>3, <2>1, <2>3, <2>4, <2>5 DEF BusInv
<1>6. ASSUME NEW m \in BusMachines, bushandler' = [bushandler EXCEPT ![m] = "exit"],
             menu' = [menu EXCEPT ![m] = [at |-> "exit", todo |-> {}]],
             UNCHANGED <<bus_signal, addr, signals>>, m = 1 => bushandler[1] # "read"
      PROVE  BusInv'
  <2>1. /\ DOMAIN menu' = BusMachines /\ DOMAIN bushandler' = BusMachines
        /\ \A k \in BusMachines : k # m => /\ menu'[k] = menu[k]
                                           /\ bushandler'[k] = bushandler[k]
        /\ bushandler'[m] = "exit" /\ DOMAIN menu'[m] = {"at", "todo"}
        /\ menu'[m].at = "exit" /\ menu'[m].todo = {}
    BY <1>3, <1>6 DEF BusShape
  <2>2. BusShape'
    BY <1>3, <1>6, <2>1 DEF BusShape, AllPages
  <2>3. ASSUME NEW k \in BusMachines PROVE BusPlaces(k)'
    <3>1. CASE k = m
      BY <2>1, <3>1 DEF BusPlaces, AtWork
    <3>2. CASE k # m
      BY <1>1, <1>3, <1>6, <2>1, <3>2 DEF BusPlaces, AtWork
    <3> QED
      BY <3>1, <3>2
  <2>4. BusHolds'
    <3>1. CASE m = 1
      BY <1>2, <1>3, <1>6, <2>1, <3>1 DEF BusHolds
    <3>2. CASE m = 2
      BY <1>2, <1>3, <1>6, <2>1, <3>2 DEF BusHolds
    <3> QED
      BY <1>2, <3>1, <3>2
  <2>5. bushandler'[1] # "stdin"
    BY <1>2, <1>3, <2>1
  <2> QED
    BY <2>2, <2>3, <2>4, <2>5 DEF BusInv
<1>7. ASSUME NEW m \in BusMachines, NEW w, bushandler' = [bushandler EXCEPT ![m] = w],
             UNCHANGED <<bus_signal, addr, menu>>, Faulting(m), signals' \in Nat, BusHolds',
             m = 1 => w # "stdin"
      PROVE  BusInv'
  <2>1. /\ DOMAIN bushandler' = BusMachines /\ bushandler'[m] = w
        /\ \A k \in BusMachines : k # m => bushandler'[k] = bushandler[k]
    BY <1>3, <1>7 DEF BusShape
  <2>2. BusShape'
    BY <1>3, <1>7, <2>1 DEF BusShape, AllPages
  <2>3. ASSUME NEW k \in BusMachines PROVE BusPlaces(k)'
    BY <1>1, <1>3, <1>7, <2>1 DEF BusPlaces, AtWork
  <2>4. bushandler'[1] # "stdin"
    BY <1>2, <1>3, <1>7, <2>1
  <2> QED
    BY <1>7, <2>2, <2>3, <2>4 DEF BusInv
<1>8. ASSUME NEW m \in BusMachines, Poll(m) PROVE BusInv'
  <2>1. /\ bushandler' = [bushandler EXCEPT ![m] = "bus"] /\ Faulting(m)
        /\ UNCHANGED <<bus_signal, addr, menu, signals>> /\ bushandler[m] = "poll"
    BY <1>8 DEF Poll
  <2>2. BusHolds'
    <3>1. /\ bushandler'[m] = "bus"
          /\ \A k \in BusMachines : k # m => bushandler'[k] = bushandler[k]
      BY <1>3, <2>1 DEF BusShape
    <3> QED
      BY <1>2, <1>3, <2>1, <3>1 DEF BusHolds
  <2> QED
    BY <1>3, <1>7, <2>1, <2>2
<1>9. CASE update_bus_one
  <2>1. bushandler[1] = "bus" /\ Faulting(1) /\ UNCHANGED <<bus_signal, addr>>
    BY <1>2, <1>3, <1>9 DEF update_bus_one, BusPlaces, AtWork
  <2>2. CASE BusExit(1) /\ UNCHANGED signals
    BY <1>2, <1>6, <2>1, <2>2 DEF BusExit
  <2>3. CASE /\ bushandler' = [bushandler EXCEPT ![1] = "read"]
             /\ signals' = IF bus_signal[1].BusRd = 1 /\ ~Gone(2) THEN signals + 1 ELSE signals
             /\ UNCHANGED menu
    <3>1. signals' \in Nat /\ signals' <= signals + 1
      BY <1>3, <2>3
    <3>2. /\ bushandler'[1] = "read" /\ bushandler'[2] = bushandler[2]
      BY <1>2, <1>3, <2>3 DEF BusShape
    <3>3. BusHolds'
      BY <1>2, <1>3, <2>1, <2>3, <3>1, <3>2 DEF BusHolds
    <3> QED
      BY <1>2, <1>7, <2>1, <2>3, <3>1, <3>3
  <2> QED
    BY <1>9, <2>2, <2>3 DEF update_bus_one
<1>10. CASE update_bus_two
  <2>1. /\ bushandler[2] = "bus" /\ Faulting(2) /\ UNCHANGED <<bus_signal, addr, menu>>
    BY <1>2, <1>3, <1>10 DEF update_bus_two, BusPlaces, AtWork
  <2>2. CASE /\ bus_signal[2].BusRd = 0 \/ (signals = 0 /\ Gone(1))
             /\ bushandler' = [bushandler EXCEPT ![2] = "read"] /\ UNCHANGED signals
    <3>1. /\ bushandler'[2] = "read" /\ bushandler'[1] = bushandler[1]
      BY <1>2, <1>3, <2>2 DEF BusShape
    <3>2. BusHolds'
      BY <1>2, <1>3, <2>1, <2>2, <3>1 DEF BusHolds
    <3> QED
      BY <1>2, <1>3, <1>7, <2>1, <2>2, <3>2
  <2>3. CASE /\ bus_signal[2].BusRd = 1 /\ signals > 0
             /\ bushandler' = [bushandler EXCEPT ![2] = "stdin"] /\ signals' = signals - 1
    <3>1. /\ bushandler'[2] = "stdin" /\ bushandler'[1] = bushandler[1]
      BY <1>2, <1>3, <2>3 DEF BusShape
    <3>2. signals' \in Nat /\ signals' <= signals
      BY <1>3, <2>3
    <3>3. BusHolds'
      BY <1>2, <1>3, <2>1, <2>3, <3>1, <3>2 DEF BusHolds
    <3>4. 2 = 1 => "stdin" # "stdin"
      OBVIOUS
    <3>5. bushandler' = [bushandler EXCEPT ![2] = "stdin"]
      BY <2>3
    <3> QED
      BY <1>2, <1>7, <2>1, <3>2, <3>3, <3>4, <3>5
  <2> QED
    BY <1>10, <2>2, <2>3 DEF update_bus_two
<1>11. ASSUME NEW m \in BusMachines, CopyPage(m) PROVE BusInv'
  <2>1. PICK q : q = LowestPage(BusFault(m))
    OBVIOUS
  <2>2. bushandler[m] = "read" /\ UNCHANGED <<bus_signal, menu, signals>>
    BY <1>11 DEF CopyPage
  <2>3. q \in BusFault(m)
    <3>1. BusFault(m) \subseteq AllPages /\ BusFault(m) # {}
      BY <1>3, <2>2 DEF BusPlaces, AtWork, Faulting, BusFault, BusShape
    <3> QED
      BY <2>1, <3>1, LowestPageIn
  <2>4. q \in AllPages /\ q \notin DOMAIN addr[m]
    BY <1>3, <2>3 DEF BusFault, BusShape
  <2>5. /\ DOMAIN addr' = BusMachines /\ DOMAIN addr'[m] = DOMAIN addr[m] \union {q}
        /\ \A k \in BusMachines : k # m => addr'[k] = addr[k]
    BY <1>3, <1>11, <2>1 DEF CopyPage, BusShape
  <2>6. /\ DOMAIN bushandler' = BusMachines /\ bushandler'[m] = "poll"
        /\ \A k \in BusMachines : k # m => bushandler'[k] = bushandler[k]
    BY <1>3, <1>11 DEF CopyPage, BusShape
  <2>7. BusShape'
    BY <1>3, <2>2, <2>4, <2>5, <2>6 DEF BusShape, AllPages
  <2>8. ASSUME NEW k \in BusMachines PROVE BusPlaces(k)'
    <3>1. CASE k = m
      BY <1>3, <2>2, <2>6, <3>1 DEF BusPlaces, AtWork
    <3>2. CASE k # m
      BY <1>1, <1>3, <2>2, <2>5, <2>6, <3>2 DEF BusPlaces, AtWork
    <3> QED
      BY <3>1, <3>2
  <2>9. Cardinality(DOMAIN addr'[m]) = Cardinality(DOMAIN addr[m]) + 1
    <3>1. IsFiniteSet(DOMAIN addr[m])
      BY <1>3, PagesFinite DEF BusShape
    <3> QED
      BY <2>4, <2>5, <3>1, FS_AddElement
  <2>10. BusHolds'
    <3>1. CASE m = 1
      BY <1>2, <1>3, <2>2, <2>6, <2>9, <3>1 DEF BusHolds
    <3>2. CASE m = 2
      BY <1>2, <1>3, <2>2, <2>5, <2>6, <3>2 DEF BusHolds
    <3> QED
      BY <1>2, <3>1, <3>2
  <2>11. bushandler'[1] # "stdin"
    BY <1>2, <1>3, <2>6
  <2> QED
    BY <2>7, <2>8, <2>10, <2>11 DEF BusInv
<1>12. ASSUME NEW m \in BusMachines, ReadStdin(m) PROVE BusInv'
  BY <1>3, <1>6, <1>12 DEF ReadStdin, BusExit
<1>13. CASE UNCHANGED bus_vars
  <2>1. BusShape'
    BY <1>3, <1>13 DEF bus_vars, BusShape, AllPages
  <2>2. \A k \in BusMachines : BusPlaces(k)'
    BY <1>1, <1>3, <1>13 DEF bus_vars, BusPlaces, AtWork
  <2> QED
    BY <1>3, <1>13, <2>1, <2>2 DEF bus_vars, BusInv, BusHolds
<1> QED
  BY <1>2, <1>4, <1>5, <1>8, <1>9, <1>10, <1>11, <1>12, <1>13
  DEF BusNext, MenuOne, MenuTwo, update_bus

(* Machine 1 never has more signals under way than it had faults, so its   *)
(* write never blocks, for any number of pages.                            *)
THEOREM SignalsAreFew == BusSpec => []BusHolds
<1>1. BusInit => BusInv
  <2> SUFFICES ASSUME BusInit PROVE BusInv
    OBVIOUS
  <2>1. 1 \in BusMachines /\ 2 \in BusMachines
    BY DEF BusMachines
  <2>2. /\ bus_signal[2].BusRd = 0 /\ bushandler[1] = "poll" /\ bushandler[2] = "poll"
        /\ signals = 0
    BY <2>1 DEF BusInit
  <2>3. BusShape
    BY DEF BusInit, BusShape, Idle
  <2>4. \A m \in BusMachines : BusPlaces(m)
    BY DEF BusInit, BusPlaces, AtWork, Idle
  <2>5. Cardinality(DOMAIN addr[1]) \in Nat
    BY <2>1, <2>3, PagesFinite DEF BusShape
  <2> QED
    BY <2>2, <2>3, <2>4, <2>5 DEF BusInv, BusHolds
<1>2. BusInv /\ [BusNext]_bus_vars => BusInv'
  BY BusInductive
<1>3. BusInv => BusHolds
  BY DEF BusInv
<1> QED
  BY <1>1, <1>2, <1>3, PTL DEF BusSpec
=============================================================================
