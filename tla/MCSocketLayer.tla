---- MODULE MCSocketLayer ----
(* Two tasks, one descriptor open on a terminal and three more numbers,    *)
(* three inodes: enough for a socketpair against an accept, a close or a   *)
(* create, and few enough for both tables to fill up.                      *)
EXTENDS SocketLayer

MCThreads == {"a", "b"}
MCFds == 0..3
MCSocks == 1..3
====
