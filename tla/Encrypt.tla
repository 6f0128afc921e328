------------------------------- MODULE Encrypt -------------------------------
(***************************************************************************)
(* The system call s2_encrypt (Project_1/syscall.patch) and its caller     *)
(* (Project_1/syscall/question2.c), which has one thread: the string does  *)
(* not change during the call.  bad: the pointer leads nowhere.            *)
(***************************************************************************)
EXTENDS Integers, Sequences

CONSTANTS Byte,      \* 256 in the code: values of a char
          MaxKey,    \* 5 in the code
          Limit,     \* 1024 in the code: what strnlen_user looks at
          MaxStr     \* bound on the strings tried

ASSUME EncryptAssumption ==
  {Byte, MaxKey, Limit, MaxStr} \subseteq Nat \ {0} /\ MaxKey < Byte

VARIABLES enc   \* the call
enc_vars == <<enc>>

EncIdle == [at |-> "user", str |-> <<>>, bad |-> FALSE, key |-> 0, buf |-> <<>>, i |-> 0,
            live |-> FALSE, ret |-> "none"]

EncInit == enc = EncIdle

(* question2.c: -s and -k, with 0 when -k is missing.  Without -s the      *)
(* string is what malloc returned, which may be NULL.                      *)
Question2 ==
  /\ enc.at = "user"
  /\ \E k \in 0..MaxKey + 1 :
       \/ \E n \in 0..MaxStr : \E s \in [1..n -> 1..Byte - 1] :
            enc' = [EncIdle EXCEPT !.at = "kmalloc", !.str = s, !.key = k]
       \/ enc' = [EncIdle EXCEPT !.at = "kmalloc", !.bad = TRUE, !.key = k]

(* strnlen_user counts the NUL, and one more than the limit when it finds  *)
(* none; a pointer it cannot read gives 0.                                 *)
strnlen_user(s, bad) == IF bad THEN 0 ELSE IF Len(s) < Limit THEN Len(s) + 1 ELSE Limit + 1

(* The buffer is made before the key is looked at, and is not freed on the *)
(* two error paths; copy_from_user may fault, also because kmalloc failed. *)
(* Of length 0 the buffer is ZERO_SIZE_PTR, and a copy of nothing succeeds. *)
SysAlloc ==
  /\ enc.at = "kmalloc"
  /\ \/ /\ enc.key \in 1..MaxKey
        /\ LET z == Append(enc.str, 0)
           IN  enc' = [enc EXCEPT !.at = "loop", !.live = TRUE, !.i = 1,
                         !.buf = SubSeq(z, 1, strnlen_user(enc.str, enc.bad))]
     \/ enc.key \in 1..MaxKey /\ ~enc.bad
        /\ enc' = [enc EXCEPT !.at = "done", !.live = TRUE, !.ret = "EFAULT"]
     \/ enc.key \notin 1..MaxKey
        /\ enc' = [enc EXCEPT !.at = "done", !.live = TRUE, !.ret = "EINVAL"]

Shifted(c, k) == (c + k) % Byte

(* Mutant: the character is tested after it was changed. *)
MutSysLoop ==
  /\ enc.at = "loop"
  /\ IF enc.i \notin DOMAIN enc.buf THEN enc' = [enc EXCEPT !.at = "lost"]
     ELSE LET c == Shifted(enc.buf[enc.i], enc.key)
          IN  enc' = [enc EXCEPT !.buf[enc.i] = c, !.i = @ + 1,
                                 !.at = IF c = 0 THEN "print" ELSE "loop"]

(* while (user_data[i] != 0): user_data[i++] += key.  Past the buffer the  *)
(* call is lost.                                                           *)
SysLoop ==
  /\ enc.at = "loop"
  /\ CASE enc.i \notin DOMAIN enc.buf -> enc' = [enc EXCEPT !.at = "lost"]
       [] enc.buf[enc.i] = 0          -> enc' = [enc EXCEPT !.at = "print"]
       [] OTHER -> enc' = [enc EXCEPT !.buf[enc.i] = Shifted(@, enc.key), !.i = @ + 1]

(* printk, which stops at the first zero, then kfree. *)
SysPrint ==
  /\ enc.at = "print"
  /\ enc' = [enc EXCEPT !.at = "done", !.live = FALSE, !.ret = "0"]

SysReturn ==
  /\ enc.at = "done"
  /\ enc' = EncIdle

EncNext == Question2 \/ SysAlloc \/ SysLoop \/ SysPrint \/ SysReturn

EncSpec == EncInit /\ [][EncNext]_enc_vars
-----------------------------------------------------------------------------
Measured == ~enc.bad /\ Len(enc.str) <= Limit

(* For every string strnlen_user can measure, also one with characters     *)
(* that the shift wraps to zero, the loop stays in the buffer and shifts   *)
(* each character exactly once, and a call that returns 0 keeps no memory. *)
(* A string that is longer, or that cannot be read, is lost in the loop.   *)
EncryptsWhole ==
  Measured =>
    /\ enc.at # "lost"
    /\ enc.ret = "0" =>
         /\ ~enc.live
         /\ enc.buf = Append([k \in DOMAIN enc.str |-> Shifted(enc.str[k], enc.key)], 0)
=============================================================================
