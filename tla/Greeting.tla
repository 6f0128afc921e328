------------------------------ MODULE Greeting -------------------------------
(***************************************************************************)
(* The client and server exercises: Project_1/code-socket (the client      *)
(* tries again, the answer is a struct), Project_1/server.c and client.c   *)
(* (one try, a string) and Project_3/part2/part22.c (the server only       *)
(* sends).  TCP delivers what is sent in pieces, either way.  The server   *)
(* of code-socket is modelled without the initialiser at server.c:14,      *)
(* which is not C; the member is assigned at 125 again.                    *)
(***************************************************************************)
EXTENDS Naturals

CONSTANTS QuestionLen,   \* length of the client's question
          AnswerLen      \* length of the server's answer

ASSUME GreetingAssumption == QuestionLen \in Nat \ {0} /\ AnswerLen \in Nat \ {0}

VARIABLES kind,   \* which of the exercises runs
          srv,    \* where the server is
          cli,    \* where the client is, and how much of the answer it has
          net     \* the connection: made, reset; of the question what was
                  \* sent, came and was read; of the answer sent and there
gr_vars == <<kind, srv, cli, net>>

GrInit ==
  /\ kind = "none"
  /\ srv = "down"
  /\ cli = [at |-> "connect", got |-> 0]
  /\ net = [up |-> FALSE, reset |-> FALSE, asked |-> 0, came |-> 0, taken |-> 0,
             sent |-> 0, there |-> 0]

GrChoose ==
  /\ kind = "none"
  /\ kind' \in {"code-socket", "once", "part22"}
  /\ UNCHANGED <<srv, cli, net>>
-----------------------------------------------------------------------------
(* The server: socket .. listen, then accept. *)
GrListen ==
  /\ kind # "none" /\ srv = "down"
  /\ srv' = "accept"
  /\ UNCHANGED <<kind, cli, net>>

GrAccept ==
  /\ srv = "accept" /\ net.up
  /\ srv' = "key"
  /\ UNCHANGED <<kind, cli, net>>

(* After a key one read takes what has come of the question, the answer is *)
(* sent and main ends.  Input that came since then and is not read makes   *)
(* the kernel reset the connection instead of closing it.                  *)
GreetServer(k) ==
  /\ kind = k
  /\ \/ srv = "key" /\ srv' = "read" /\ UNCHANGED net
     \/ /\ srv = "read" /\ net.came > 0
        /\ srv' = "send" /\ net' = [net EXCEPT !.taken = net.came]
     \/ srv = "send" /\ srv' = "sent" /\ net' = [net EXCEPT !.sent = AnswerLen]
     \/ /\ srv = "sent" /\ srv' = "exit"
        /\ net' = [net EXCEPT !.reset = net.came > net.taken]
  /\ UNCHANGED <<kind, cli>>

CodeSocketServer == GreetServer("code-socket")
OnceServer == GreetServer("once")

(* new_socket is the result of a comparison, 0: send goes to stdin, which  *)
(* is no socket, and the server ends without having sent anything.         *)
Part22Server ==
  /\ kind = "part22" /\ srv = "key"
  /\ srv' = "exit"
  /\ UNCHANGED <<kind, cli, net>>
-----------------------------------------------------------------------------
(* connect succeeds while the server listens; the kernel accepts for it.   *)
Connect(k) ==
  /\ kind = k /\ cli.at = "connect"
  /\ srv = "accept" /\ ~net.up
  /\ net' = [net EXCEPT !.up = TRUE]
  /\ cli' = [cli EXCEPT !.at = "key"]
  /\ UNCHANGED <<kind, srv>>

(* Before that it is refused, and the client ends; the one of code-socket  *)
(* tries again after a second.                                             *)
Refused(k) ==
  /\ kind = k /\ cli.at = "connect" /\ srv = "down"
  /\ cli' = [cli EXCEPT !.at = "refused"]
  /\ UNCHANGED <<kind, srv, net>>

(* After a key the question is sent, in the exercises that have one. *)
Ask(k) ==
  /\ kind = k /\ cli.at = "key"
  /\ cli' = [cli EXCEPT !.at = "recv"]
  /\ net' = [net EXCEPT !.asked = IF k = "part22" THEN 0 ELSE QuestionLen]
  /\ UNCHANGED <<kind, srv>>

(* The end of the stream, or of the connection: recv waits no longer.  *)
Over == net.reset \/ (srv = "exit" /\ net.there = net.sent)

(* Mutant: recv without MSG_WAITALL. *)
MutReceive(k, waitall) ==
  /\ kind = k /\ cli.at = "recv"
  /\ net.there > 0 \/ Over
  /\ cli' = [at |-> "exit", got |-> net.there]
  /\ UNCHANGED <<kind, srv, net>>

(* With MSG_WAITALL all of the answer, without it what is there; at the    *)
(* end of the stream or after a reset what had come until then.            *)
Receive(k, waitall) ==
  /\ kind = k /\ cli.at = "recv"
  /\ (IF waitall THEN net.there = AnswerLen ELSE net.there > 0) \/ Over
  /\ cli' = [at |-> "exit", got |-> net.there]
  /\ UNCHANGED <<kind, srv, net>>

CodeSocketClient ==
  Connect("code-socket") \/ Ask("code-socket") \/ Receive("code-socket", TRUE)
OnceClient ==
  Connect("once") \/ Refused("once") \/ Ask("once") \/ Receive("once", FALSE)
Part22Client ==
  Connect("part22") \/ Refused("part22") \/ Ask("part22") \/ Receive("part22", FALSE)

(* TCP brings the next piece of the answer, however long, until a reset.   *)
Deliver ==
  /\ ~net.reset
  /\ \E n \in net.there + 1..net.sent : net' = [net EXCEPT !.there = n]
  /\ UNCHANGED <<kind, srv, cli>>

(* Or of the question; when nobody is there any more, it is answered by a  *)
(* reset.                                                                  *)
DeliverQuestion ==
  /\ ~net.reset
  /\ \E n \in net.came + 1..net.asked :
       net' = [net EXCEPT !.came = n, !.reset = srv = "exit"]
  /\ UNCHANGED <<kind, srv, cli>>

GrNext ==
  \/ GrChoose \/ GrListen \/ GrAccept \/ CodeSocketServer \/ OnceServer
  \/ Part22Server \/ CodeSocketClient \/ OnceClient \/ Part22Client \/ Deliver
  \/ DeliverQuestion

GrSpec == GrInit /\ [][GrNext]_gr_vars
-----------------------------------------------------------------------------
(* A client of code-socket that is done has the whole struct, in however   *)
(* many pieces it came, unless the server's one read took only a part of   *)
(* the question; the client of part22 never gets anything.                 *)
AnswerWhole ==
  cli.at = "exit" =>
    /\ kind = "code-socket" => cli.got = AnswerLen \/ net.taken < QuestionLen
    /\ kind = "part22" => cli.got = 0
=============================================================================
