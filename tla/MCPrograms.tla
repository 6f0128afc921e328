----------------------------- MODULE MCPrograms ------------------------------
(* The programs that share nothing side by side: Init picks the one a      *)
(* behaviour runs, and the variables of the others keep their values.      *)
(* sendmmsg and recvmmsg share nothing either.                             *)
EXTENDS Messages, UserCopy, RxStamp, FirstFs, ProcTree, Ex4, Encrypt, Proj2,
        Uffd, Greeting, Part3, Bus

VARIABLE program
kernel_vars == <<msg_vars, io_vars, ts_vars, ff_vars, pt_vars, ex4_vars, enc_vars, p2_vars>>
user_vars == <<uf_vars, gr_vars, p3_vars, bus_vars>>
vars == <<program, kernel_vars, user_vars>>

MCVals == {-1, 0, 9}

(* Selected computes what the standard operator does. *)
ASSUME SelectedIsSelectSeq ==
  \A n \in 0..3 : \A s \in [1..n -> 1..3] :
    Selected(s, {1, 3})[n] = SelectSeq(s, LAMBDA x : x # 2)

Init ==
  /\ program \in {"send", "recv", "copy", "stamp", "fs", "tree", "ex4", "encrypt",
                  "proj2", "uffd", "greeting", "part3", "bus"}
  /\ MsgInit /\ IoInit /\ TsInit /\ FfInit /\ PtInit /\ Ex4Init /\ EncInit /\ P2Init
  /\ UfInit /\ GrInit /\ P3Init /\ BusInit

KernelNext ==
  \/ /\ program = "send" /\ sys_sendmmsg
     /\ UNCHANGED <<io_vars, ts_vars, ff_vars, pt_vars, ex4_vars, enc_vars, p2_vars>>
  \/ /\ program = "recv" /\ (sys_recvmmsg \/ Network)
     /\ UNCHANGED <<io_vars, ts_vars, ff_vars, pt_vars, ex4_vars, enc_vars, p2_vars>>
  \/ /\ program = "copy" /\ IoNext
     /\ UNCHANGED <<msg_vars, ts_vars, ff_vars, pt_vars, ex4_vars, enc_vars, p2_vars>>
  \/ /\ program = "stamp" /\ TsNext
     /\ UNCHANGED <<msg_vars, io_vars, ff_vars, pt_vars, ex4_vars, enc_vars, p2_vars>>
  \/ /\ program = "fs" /\ FfNext
     /\ UNCHANGED <<msg_vars, io_vars, ts_vars, pt_vars, ex4_vars, enc_vars, p2_vars>>
  \/ /\ program = "tree" /\ PtNext
     /\ UNCHANGED <<msg_vars, io_vars, ts_vars, ff_vars, ex4_vars, enc_vars, p2_vars>>
  \/ /\ program = "ex4" /\ Ex4Next
     /\ UNCHANGED <<msg_vars, io_vars, ts_vars, ff_vars, pt_vars, enc_vars, p2_vars>>
  \/ /\ program = "encrypt" /\ EncNext
     /\ UNCHANGED <<msg_vars, io_vars, ts_vars, ff_vars, pt_vars, ex4_vars, p2_vars>>
  \/ /\ program = "proj2" /\ P2Next
     /\ UNCHANGED <<msg_vars, io_vars, ts_vars, ff_vars, pt_vars, ex4_vars, enc_vars>>

UserNext ==
  \/ program = "uffd" /\ UfNext /\ UNCHANGED <<gr_vars, p3_vars, bus_vars>>
  \/ program = "greeting" /\ GrNext /\ UNCHANGED <<uf_vars, p3_vars, bus_vars>>
  \/ program = "part3" /\ P3Next /\ UNCHANGED <<uf_vars, gr_vars, bus_vars>>
  \/ program = "bus" /\ BusNext /\ UNCHANGED <<uf_vars, gr_vars, p3_vars>>

Next ==
  /\ \/ KernelNext /\ UNCHANGED user_vars
     \/ UserNext /\ UNCHANGED kernel_vars
  /\ UNCHANGED program

(* Nothing that is fair is enabled in a program that does not run. *)
Spec == Init /\ [][Next]_vars /\ MsgFairness /\ BusFairness

=============================================================================
