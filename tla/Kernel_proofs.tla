---------------------------- MODULE Kernel_proofs ----------------------------
(***************************************************************************)
(* The small components of the kernel side, for every value of their       *)
(* bounds: timestamps, the first file systems, s2_encrypt, the calls that  *)
(* cross the user boundary, the process tree and the modules that read a   *)
(* list of numbers.                                                        *)
(***************************************************************************)
EXTENDS UserCopy, RxStamp, FirstFs, Encrypt, ProcTree, Ex4, Proj2,
        FiniteSetTheorems, SequenceTheorems, WellFoundedInduction, TLAPS

-----------------------------------------------------------------------------
(* Timestamps. *)

Skb == [pkt : Nat, err_queue : BOOLEAN, tstamp : BOOLEAN]

(* A clone on the error queue without a software stamp is the one of the   *)
(* hardware stamp, which is stored before the clone is queued and stays.   *)
ClonesStamped ==
  \A i \in 1..Len(skbs) : skbs[i].err_queue /\ ~skbs[i].tstamp => skbs[i].pkt \in hw

TsInv ==
  /\ skbs \in Seq(Skb)
  /\ sent \in Seq(SUBSET {"hw", "sw", "sched"})
  /\ ClonesStamped
  /\ StampsApart

(* A packet at the end of the queue. *)
LEMMA QueueSkb ==
  ASSUME TsInv, NEW skb \in Skb, skbs' = Append(skbs, skb), hw \subseteq hw',
         skb.err_queue /\ ~skb.tstamp => skb.pkt \in hw'
  PROVE  skbs' \in Seq(Skb) /\ ClonesStamped'
<1>1. skbs \in Seq(Skb) /\ Len(skbs) \in Nat
  BY DEF TsInv
<1>2. /\ skbs' \in Seq(Skb) /\ Len(skbs') = Len(skbs) + 1
      /\ \A i \in 1..Len(skbs) : skbs'[i] = skbs[i]
      /\ skbs'[Len(skbs) + 1] = skb
  BY <1>1, AppendProperties
<1>3. ASSUME NEW i \in 1..Len(skbs'), skbs'[i].err_queue, ~skbs'[i].tstamp
      PROVE  skbs'[i].pkt \in hw'
  <2>1. CASE i = Len(skbs) + 1
    BY <1>2, <1>3, <2>1
  <2>2. CASE i \in 1..Len(skbs)
    BY <1>2, <1>3, <2>2 DEF TsInv, ClonesStamped
  <2> QED
    BY <1>1, <1>2, <2>1, <2>2
<1> QED
  BY <1>2, <1>3 DEF ClonesStamped

(* What sock_recv_timestamp reports of a packet of the queue. *)
LEMMA ReportApart ==
  ASSUME NEW skb \in Skb, skb.err_queue /\ ~skb.tstamp => skb.pkt \in hw
  PROVE  LET m == sock_recv_timestamp(skb)
         IN  skb_is_err_queue(m.skb) => m.hw = (m.asked /\ ~m.skb.tstamp)
<1> DEFINE need == "rcvtstamp" \in opts
           raw  == "raw_hardware" \in opts
           m    == sock_recv_timestamp(skb)
<1>1. skb.err_queue \in BOOLEAN /\ skb.tstamp \in BOOLEAN
  BY DEF Skb
<1>2. /\ m.skb = skb
      /\ m.asked = raw
      /\ m.hw = (/\ raw
                 /\ ~skb_is_swtx_tstamp(skb, skb.tstamp \/ need, need /\ ~skb.tstamp)
                 /\ skb.pkt \in hw)
  BY DEF sock_recv_timestamp
<1>3. ASSUME skb.err_queue PROVE m.hw = (raw /\ ~skb.tstamp)
  <2>1. CASE skb.tstamp = TRUE
    BY <1>2, <1>3, <2>1 DEF skb_is_swtx_tstamp, skb_is_err_queue
  <2>2. CASE skb.tstamp = FALSE
    BY <1>2, <1>3, <2>2 DEF skb_is_swtx_tstamp, skb_is_err_queue
  <2> QED
    BY <1>1, <2>1, <2>2
<1> QED
  BY <1>2, <1>3 DEF skb_is_err_queue

(* On transmit the hardware stamp comes with its own clone and never with  *)
(* the clone of the software stamp (sock_recv_timestamp), for any number   *)
(* of packets in any order of stamps, reads and changes of the options.    *)
THEOREM HardwareStampOnce == TsSpec => []StampsApart
<1>1. TsInit => TsInv
  BY DEF TsInit, TsInv, ClonesStamped, StampsApart
<1>2. TsInv /\ [TsNext]_ts_vars => TsInv'
  <2> SUFFICES ASSUME TsInv, [TsNext]_ts_vars PROVE TsInv'
    OBVIOUS
  <2>1. CASE SetOption
    BY <2>1 DEF SetOption, TsInv, ClonesStamped, StampsApart
  <2>2. CASE Send
    <3>1. sock_tx_timestamp \in SUBSET {"hw", "sw", "sched"}
      BY DEF sock_tx_timestamp, TxOption
    <3>2. sent' \in Seq(SUBSET {"hw", "sw", "sched"})
      BY <2>2, <3>1, AppendProperties DEF Send, TsInv
    <3> QED
      BY <2>2, <3>2 DEF Send, TsInv, ClonesStamped, StampsApart
  <2>3. CASE Complete
    <3>1. PICK n \in DOMAIN sent : \E t \in sent[n] :
            /\ sent' = [sent EXCEPT ![n] = @ \ {t}]
            /\ hw' = IF t = "hw" THEN hw \union {n} ELSE hw
            /\ skbs' = Append(skbs, [pkt |-> n, err_queue |-> TRUE, tstamp |-> t # "hw"])
      BY <2>3 DEF Complete
    <3>2. PICK t \in sent[n] :
            /\ sent' = [sent EXCEPT ![n] = @ \ {t}]
            /\ hw' = IF t = "hw" THEN hw \union {n} ELSE hw
            /\ skbs' = Append(skbs, [pkt |-> n, err_queue |-> TRUE, tstamp |-> t # "hw"])
      BY <3>1
    <3>3. n \in Nat /\ sent[n] \in SUBSET {"hw", "sw", "sched"} /\ t \in {"hw", "sw", "sched"}
      BY DEF TsInv
    <3>4. sent' \in Seq(SUBSET {"hw", "sw", "sched"})
      <4>1. sent[n] \ {t} \in SUBSET {"hw", "sw", "sched"}
        BY <3>3
      <4> QED
        BY <3>2, <4>1 DEF TsInv
    <3>5. skbs' \in Seq(Skb) /\ ClonesStamped'
      <4> DEFINE skb == [pkt |-> n, err_queue |-> TRUE, tstamp |-> t # "hw"]
      <4>1. skb \in Skb
        BY <3>3 DEF Skb
      <4>2. hw \subseteq hw' /\ (~skb.tstamp => skb.pkt \in hw')
        BY <3>2, <3>3
      <4>3. skbs' = Append(skbs, skb)
        BY <3>2
      <4> HIDE DEF skb
      <4> QED
        BY <4>1, <4>2, <4>3, QueueSkb
    <3> QED
      BY <2>3, <3>4, <3>5 DEF Complete, TsInv, StampsApart
  <2>4. CASE Arrive
    <3>1. sent' \in Seq(SUBSET {"hw", "sw", "sched"}) /\ Len(sent) \in Nat
      BY <2>4, AppendProperties DEF Arrive, TsInv
    <3>2. PICK sw \in BOOLEAN :
            skbs' = Append(skbs, [pkt |-> Len(sent) + 1, err_queue |-> FALSE, tstamp |-> sw])
      BY <2>4 DEF Arrive
    <3>3. skbs' \in Seq(Skb) /\ ClonesStamped'
      <4> DEFINE skb == [pkt |-> Len(sent) + 1, err_queue |-> FALSE, tstamp |-> sw]
      <4>1. skb \in Skb /\ ~skb.err_queue
        BY <3>1 DEF Skb
      <4>2. hw \subseteq hw'
        BY <2>4 DEF Arrive
      <4>3. skbs' = Append(skbs, skb)
        BY <3>2
      <4> HIDE DEF skb
      <4> QED
        BY <4>1, <4>2, <4>3, QueueSkb
    <3> QED
      BY <2>4, <3>1, <3>3 DEF Arrive, TsInv, StampsApart
  <2>5. CASE Recv
    <3> DEFINE skb == Head(skbs)
    <3>1. skbs \in Seq(Skb) /\ skbs # <<>> /\ Len(skbs) \in Nat /\ skbs' = Tail(skbs)
          /\ told' = {sock_recv_timestamp(skb)}
      BY <2>5 DEF Recv, TsInv
    <3>2. skb \in Skb /\ skb = skbs[1] /\ 1 \in 1..Len(skbs)
      BY <3>1
    <3>3. /\ skbs' \in Seq(Skb) /\ Len(skbs') = Len(skbs) - 1
          /\ \A i \in 1..Len(skbs') : skbs'[i] = skbs[i + 1] /\ i + 1 \in 1..Len(skbs)
      BY <3>1
    <3>4. ClonesStamped'
      BY <2>5, <3>3 DEF Recv, TsInv, ClonesStamped
    <3>5. skb.err_queue /\ ~skb.tstamp => skb.pkt \in hw
      BY <3>2 DEF TsInv, ClonesStamped
    <3> HIDE DEF skb
    <3>6. LET m == sock_recv_timestamp(skb)
          IN  skb_is_err_queue(m.skb) => m.hw = (m.asked /\ ~m.skb.tstamp)
      BY <3>2, <3>5, ReportApart
    <3>7. StampsApart'
      BY <3>1, <3>6 DEF StampsApart, skb_is_err_queue
    <3> QED
      BY <2>5, <3>3, <3>4, <3>7 DEF Recv, TsInv
  <2>6. CASE UNCHANGED ts_vars
    BY <2>6 DEF ts_vars, TsInv, ClonesStamped, StampsApart
  <2> QED
    BY <2>1, <2>2, <2>3, <2>4, <2>5, <2>6 DEF TsNext
<1>3. TsInv => StampsApart
  BY DEF TsInv
<1> QED
  BY <1>1, <1>2, <1>3, PTL DEF TsSpec
-----------------------------------------------------------------------------
(* The first file systems. *)

(* What is allocated is what the tree reaches, and before a mount and      *)
(* after one that failed there is no tree.                                 *)
MountInv ==
  /\ sb \in [at : {"none", "dir", "file", "mounted", "failed"},
             tree : SUBSET {"root", "foo", "bar"}]
  /\ sb.at \in {"none", "failed"} => sb.tree = {}
  /\ NothingLeft

FilpType == [open : BOOLEAN, offset : 0..TextLen, got : Seq(Nat), eof : BOOLEAN]

FfInv == MountInv /\ filp \in [Openers -> FilpType] /\ ReadsText

(* An entry more in the tree, with its inode and its dentry. *)
LEMMA EntryMore ==
  ASSUME NEW T, NEW name
  PROVE  ({"inode", "dentry"} \X T) \union ({<<"dentry", name>>} \union {<<"inode", name>>})
         = {"inode", "dentry"} \X (T \union {name})
OBVIOUS

LEMMA CreateStep ==
  ASSUME MountInv, NEW name \in {"foo", "bar"}, NEW next \in {"file", "mounted"},
         sb.at \in {"dir", "file"}, Create(name, next)
  PROVE  MountInv'
<1>1. PICK d \in {{}, {<<"dentry", name>>}}, i \in {{}, {<<"inode", name>>}} :
        /\ heap' = heap \union (IF d = {} THEN {} ELSE dput(d, i))
        /\ sb' = IF d = {} \/ i = {}
                 THEN [sb EXCEPT !.at = "mounted"]
                 ELSE [at |-> next, tree |-> sb.tree \union {name}]
  BY DEF Create, s2fs_make_inode
<1>2. CASE d = {} \/ i = {}
  <2>1. heap' = heap
    BY <1>1, <1>2 DEF dput
  <2>2. sb' = [sb EXCEPT !.at = "mounted"]
    BY <1>1, <1>2
  <2> QED
    BY <2>1, <2>2 DEF MountInv, NothingLeft
<1>3. CASE d # {} /\ i # {}
  <2>1. d = {<<"dentry", name>>} /\ i = {<<"inode", name>>}
    BY <1>3
  <2>2. heap' = heap \union ({<<"dentry", name>>} \union {<<"inode", name>>})
    BY <1>1, <1>3, <2>1 DEF dput
  <2>3. sb' = [at |-> next, tree |-> sb.tree \union {name}]
    BY <1>1, <1>3
  <2>4. sb'.tree = sb.tree \union {name} /\ sb'.at = next
    BY <2>3
  <2>5. NothingLeft'
    BY <2>2, <2>4, EntryMore DEF MountInv, NothingLeft
  <2> QED
    BY <2>3, <2>4, <2>5 DEF MountInv
<1> QED
  BY <1>2, <1>3

LEMMA FillStep ==
  ASSUME MountInv, NEW next \in {"dir", "mounted"},
         FillRoot({{}, {<<"inode", "root">>}}, next)
  PROVE  MountInv'
<1>1. sb.at = "none" /\ sb.tree = {} /\ heap = {}
  BY DEF FillRoot, MountInv, NothingLeft
<1>2. CASE sb' = [sb EXCEPT !.at = "failed"] /\ UNCHANGED heap
  BY <1>1, <1>2 DEF MountInv, NothingLeft
<1>3. CASE /\ heap' = heap \union {<<"inode", "root">>} \union {<<"dentry", "root">>}
           /\ sb' = [at |-> next, tree |-> {"root"}]
  <2>1. sb'.tree = {"root"} /\ sb'.at = next
    BY <1>3
  <2>2. heap' = {"inode", "dentry"} \X {"root"}
    BY <1>1, <1>3
  <2> QED
    BY <1>3, <2>1, <2>2 DEF MountInv, NothingLeft
<1> QED
  BY <1>2, <1>3 DEF FillRoot

(* Two pieces of the text that follow each other. *)
LEMMA BytesJoin ==
  ASSUME NEW o \in Nat, NEW c \in Nat
  PROVE  Bytes(0, o) \o Bytes(o, c) = Bytes(0, o + c)
<1> DEFINE a == Bytes(0, o)
           b == Bytes(o, c)
           z == Bytes(0, o + c)
<1>1. a \in Seq(Nat) /\ Len(a) = o /\ \A k \in 1..o : a[k] = k
  BY DEF Bytes
<1>2. b \in Seq(Nat) /\ Len(b) = c /\ \A k \in 1..c : b[k] = o + k
  BY DEF Bytes
<1>3. z \in Seq(Nat) /\ Len(z) = o + c /\ \A k \in 1..o + c : z[k] = k
  BY DEF Bytes
<1> HIDE DEF a, b, z
<1>4. /\ a \o b \in Seq(Nat) /\ Len(a \o b) = o + c
      /\ \A k \in 1..o + c : (a \o b)[k] = IF k <= o THEN a[k] ELSE b[k - o]
  BY <1>1, <1>2, ConcatProperties
<1>5. ASSUME NEW k \in 1..o + c PROVE (a \o b)[k] = z[k]
  <2>1. CASE k <= o
    BY <1>1, <1>3, <1>4, <2>1
  <2>2. CASE ~(k <= o)
    <3>1. k - o \in 1..c /\ o + (k - o) = k
      BY <2>2
    <3> QED
      BY <1>2, <1>3, <1>4, <2>2, <3>1
  <2> QED
    BY <2>1, <2>2
<1>6. a \o b = z
  BY <1>3, <1>4, <1>5, SeqEqual
<1> QED
  BY <1>6 DEF a, b, z

(* A read of one file: the next bytes of the text, and the end only there. *)
LEMMA ReadStep ==
  ASSUME FfInv, NEW f \in Openers, s2fs_read_file(f)
  PROVE  filp' \in [Openers -> FilpType] /\ ReadsText'
<1> USE FirstFsAssumption
<1> DEFINE o == filp[f].offset
<1>1. filp[f] \in FilpType /\ o \in 0..TextLen /\ filp[f].got = Bytes(0, o)
      /\ (filp[f].eof => o = TextLen)
  BY DEF FfInv, FilpType, ReadsText
<1>2. PICK count \in 1..TextLen + 1 :
        LET c == IF o > TextLen THEN 0 ELSE Clip(count, o)
        IN  filp' = [filp EXCEPT ![f].offset = @ + c,
                                 ![f].got = @ \o Bytes(o, c),
                                 ![f].eof = @ \/ c = 0]
  BY DEF s2fs_read_file
<1> DEFINE c == IF o > TextLen THEN 0 ELSE Clip(count, o)
<1>3. c \in Nat /\ o + c \in 0..TextLen /\ (c = 0 => o = TextLen)
  BY <1>1 DEF Clip
<1>5. filp' = [filp EXCEPT ![f].offset = @ + c, ![f].got = @ \o Bytes(o, c),
                           ![f].eof = @ \/ c = 0]
  BY <1>2
<1> HIDE DEF c
<1>4. filp[f].got \o Bytes(o, c) = Bytes(0, o + c)
  <2>1. o \in Nat /\ c \in Nat
    BY <1>1, <1>3
  <2> QED
    BY <1>1, <2>1, BytesJoin
<1>6. /\ filp'[f].offset = o + c
      /\ filp'[f].got = filp[f].got \o Bytes(o, c)
      /\ filp'[f].eof = (filp[f].eof \/ c = 0)
      /\ filp'[f] = [filp[f] EXCEPT !.offset = o + c, !.got = filp[f].got \o Bytes(o, c),
                                    !.eof = (filp[f].eof \/ c = 0)]
      /\ filp' = [filp EXCEPT ![f] = filp'[f]]
  BY <1>1, <1>5 DEF FfInv, FilpType
<1>7. Bytes(0, o + c) \in Seq(Nat)
  BY <1>3 DEF Bytes
<1>8. filp'[f] \in FilpType
  <2>1. (filp[f].eof \/ c = 0) \in BOOLEAN
    OBVIOUS
  <2> QED
    BY <1>1, <1>3, <1>4, <1>6, <1>7, <2>1 DEF FilpType
<1>9. filp' \in [Openers -> FilpType] /\ \A g \in Openers \ {f} : filp'[g] = filp[g]
  BY <1>6, <1>8 DEF FfInv
<1>10. /\ filp'[f].got = Bytes(0, filp'[f].offset)
       /\ filp'[f].offset <= TextLen
       /\ filp'[f].eof => filp'[f].offset = TextLen
  <2>1. o + c <= TextLen /\ (c = 0 => o + c = TextLen) /\ (o = TextLen => o + c = TextLen)
    BY <1>1, <1>3
  <2>2. filp'[f].got = Bytes(0, filp'[f].offset) /\ filp'[f].offset <= TextLen
    BY <1>4, <1>6, <2>1
  <2>3. filp'[f].eof => filp[f].eof \/ c = 0
    BY <1>6
  <2> QED
    BY <1>1, <1>6, <2>1, <2>2, <2>3
<1> QED
  BY <1>9, <1>10 DEF FfInv, ReadsText

(* A file that is opened or closed is at the start of the text. *)
LEMMA FreshFile ==
  ASSUME FfInv, NEW f \in Openers, NEW r \in FilpType,
         r.offset = 0, r.got = <<>>, r.eof = FALSE, filp' = [filp EXCEPT ![f] = r]
  PROVE  filp' \in [Openers -> FilpType] /\ ReadsText'
<1>1. Bytes(0, 0) = <<>>
  BY DEF Bytes
<1>2. /\ filp' \in [Openers -> FilpType] /\ \A g \in Openers \ {f} : filp'[g] = filp[g]
      /\ filp'[f] = r
  BY DEF FfInv
<1> QED
  BY <1>1, <1>2, FirstFsAssumption DEF FfInv, ReadsText

(* A file that is closed, and one that has just been opened. *)
LEMMA FreshFacts ==
  /\ Closed \in FilpType
  /\ Closed.offset = 0 /\ Closed.got = <<>> /\ Closed.eof = FALSE
  /\ LET r == [Closed EXCEPT !.open = TRUE]
     IN  r \in FilpType /\ r.offset = 0 /\ r.got = <<>> /\ r.eof = FALSE
<1>1. Closed \in FilpType
  BY FirstFsAssumption DEF Closed, FilpType
<1>2. Closed.offset = 0 /\ Closed.got = <<>> /\ Closed.eof = FALSE
  BY DEF Closed
<1>3. [Closed EXCEPT !.open = TRUE] \in FilpType
  BY <1>1 DEF FilpType
<1>4. LET r == [Closed EXCEPT !.open = TRUE]
      IN  r.offset = 0 /\ r.got = <<>> /\ r.eof = FALSE
  BY DEF Closed
<1> QED
  BY <1>1, <1>2, <1>3, <1>4

LEMMA FfInvariant == FfSpec => []FfInv
<1> USE FirstFsAssumption
<1>1. FfInit => FfInv
  <2> SUFFICES ASSUME FfInit PROVE FfInv
    OBVIOUS
  <2>1. MountInv
    BY DEF FfInit, MountInv, NothingLeft
  <2>2. Bytes(0, 0) = <<>> /\ Closed \in FilpType
    BY DEF Bytes, Closed, FilpType
  <2>3. ReadsText
    BY <2>2 DEF FfInit, Closed, ReadsText
  <2> QED
    BY <2>1, <2>2, <2>3 DEF FfInit, FfInv
<1>2. FfInv /\ [FfNext]_ff_vars => FfInv'
  <2> SUFFICES ASSUME FfInv, [FfNext]_ff_vars PROVE FfInv'
    OBVIOUS
  <2>1. ASSUME MountInv', UNCHANGED filp PROVE FfInv'
    BY <2>1 DEF FfInv, ReadsText
  <2>2. ASSUME UNCHANGED <<sb, heap>>, filp' \in [Openers -> FilpType], ReadsText'
        PROVE  FfInv'
    BY <2>2 DEF FfInv, MountInv, NothingLeft
  <2>3. CASE s2fs_fill_super \/ part2_fill_super
    <3>1. MountInv'
      BY <2>3, FillStep DEF s2fs_fill_super, part2_fill_super, s2fs_get_inode,
                            s2fs_make_inode, FfInv
    <3> QED
      BY <2>1, <2>3, <3>1 DEF s2fs_fill_super, part2_fill_super, FillRoot
  <2>4. CASE s2fs_create_dir \/ s2fs_create_file
    <3>1. MountInv'
      BY <2>4, CreateStep DEF s2fs_create_dir, s2fs_create_file, FfInv
    <3> QED
      BY <2>1, <2>4, <3>1 DEF s2fs_create_dir, s2fs_create_file, Create
  <2>5. CASE kill_litter_super
    <3>1. heap' = {} /\ sb' = [at |-> "none", tree |-> {}] /\ UNCHANGED filp
      BY <2>5 DEF kill_litter_super, FfInv, MountInv, NothingLeft
    <3>2. MountInv'
      BY <3>1 DEF MountInv, NothingLeft
    <3> QED
      BY <2>1, <3>1, <3>2
  <2>6. ASSUME NEW f \in Openers,
               s2fs_open(f) \/ s2fs_read_file(f) \/ s2fs_write_file(f) \/ s2fs_close(f)
        PROVE  FfInv'
    <3>0. UNCHANGED <<sb, heap>>
      BY <2>6 DEF s2fs_open, s2fs_read_file, s2fs_write_file, s2fs_close
    <3>1. CASE s2fs_open(f)
      <4> DEFINE r == [Closed EXCEPT !.open = TRUE]
      <4>1. filp' = [filp EXCEPT ![f] = r]
        BY <3>1 DEF s2fs_open
      <4>2. r \in FilpType /\ r.offset = 0 /\ r.got = <<>> /\ r.eof = FALSE
        BY FreshFacts
      <4> HIDE DEF r
      <4> QED
        BY <2>2, <3>0, <4>1, <4>2, FreshFile
    <3>2. CASE s2fs_read_file(f)
      BY <2>2, <3>0, <3>2, ReadStep
    <3>3. CASE s2fs_write_file(f) \/ s2fs_close(f)
      <4>1. filp' = [filp EXCEPT ![f] = Closed]
        BY <3>3 DEF s2fs_write_file, s2fs_close
      <4> QED
        BY <2>2, <3>0, <4>1, FreshFile, FreshFacts
    <3> QED
      BY <2>6, <3>1, <3>2, <3>3
  <2>7. CASE UNCHANGED ff_vars
    BY <2>7 DEF ff_vars, FfInv, MountInv, NothingLeft, ReadsText
  <2> QED
    BY <2>3, <2>4, <2>5, <2>6, <2>7 DEF FfNext
<1> QED
  BY <1>1, <1>2, PTL DEF FfSpec

(* Whichever allocations fail, a mount of part 2 or 3 loses no inode and   *)
(* no dentry (the out_dput paths and kill_litter_super).                   *)
THEOREM MountsLoseNothing == FfSpec => []NothingLeft
<1>1. FfInv => NothingLeft
  BY DEF FfInv, MountInv
<1> QED
  BY <1>1, FfInvariant, PTL

(* Every reader of bar gets the text from its start, byte for byte, for    *)
(* every length of the text and every way to cut the reads.                *)
THEOREM ReadersGetText == FfSpec => []ReadsText
<1>1. FfInv => ReadsText
  BY DEF FfInv
<1> QED
  BY <1>1, FfInvariant, PTL
-----------------------------------------------------------------------------
(* s2_encrypt. *)

Chars == 0..Byte - 1

EncTypes ==
  /\ enc.at \in {"user", "kmalloc", "loop", "lost", "print", "done"}
  /\ enc.str \in Seq(1..Byte - 1) /\ enc.key \in Nat
  /\ enc.at \in {"user", "kmalloc", "loop", "lost", "print"} => enc.ret = "none"
  /\ DOMAIN enc = DOMAIN EncIdle

(* The buffer before the position is shifted, from it on it is the string, *)
(* and it ends with the zero the loop stops at.                            *)
Half(str, key, i) ==
  [k \in 1..Len(str) + 1 |->
     IF k = Len(str) + 1 THEN 0 ELSE IF k < i THEN Shifted(str[k], key) ELSE str[k]]

LoopHalf ==
  Measured =>
    /\ enc.at # "lost"
    /\ enc.at = "loop" => /\ enc.i \in 1..Len(enc.str) + 1
                          /\ enc.buf = Half(enc.str, enc.key, enc.i)
    /\ enc.at = "print" \/ enc.ret = "0" => enc.buf = Half(enc.str, enc.key, Len(enc.str) + 1)
    /\ enc.ret = "0" => enc.live = FALSE

EncInv == EncTypes /\ LoopHalf

(* What the caller sees at the end. *)
LEMMA HalfDone ==
  ASSUME NEW str \in Seq(1..Byte - 1), NEW key \in Nat
  PROVE  Half(str, key, Len(str) + 1)
         = Append([k \in DOMAIN str |-> Shifted(str[k], key)], 0)
<1> DEFINE z == [k \in DOMAIN str |-> Shifted(str[k], key)]
           n == Len(str)
<1>1. n \in Nat /\ DOMAIN str = 1..n /\ \A k \in 1..n : str[k] \in Nat
  BY EncryptAssumption
<1>2. \A k \in 1..n : Shifted(str[k], key) \in Nat
  BY <1>1, EncryptAssumption DEF Shifted
<1>3. z \in Seq(Nat) /\ Len(z) = n /\ \A k \in 1..n : z[k] = Shifted(str[k], key)
  BY <1>1, <1>2
<1> HIDE DEF z
<1>4. /\ Append(z, 0) \in Seq(Nat) /\ Len(Append(z, 0)) = n + 1
      /\ \A k \in 1..n : Append(z, 0)[k] = z[k]
      /\ Append(z, 0)[n + 1] = 0
  BY <1>1, <1>3, AppendProperties
<1> DEFINE h == Half(str, key, n + 1)
<1>5. /\ h \in Seq(Nat) /\ Len(h) = n + 1
      /\ \A k \in 1..n : h[k] = Shifted(str[k], key)
      /\ h[n + 1] = 0
  BY <1>1, <1>2 DEF Half
<1> HIDE DEF h
<1>6. \A k \in 1..n + 1 : h[k] = Append(z, 0)[k]
  BY <1>1, <1>3, <1>4, <1>5
<1>7. h = Append(z, 0)
  BY <1>4, <1>5, <1>6, SeqEqual
<1> QED
  BY <1>7 DEF h, z

(* The buffer SysAlloc makes holds the string and its zero, all of it when *)
(* strnlen_user can measure the string.                                    *)
LEMMA CopiedIn ==
  ASSUME NEW str \in Seq(1..Byte - 1), NEW key \in Nat, NEW bad, ~bad, Len(str) <= Limit
  PROVE  SubSeq(Append(str, 0), 1, strnlen_user(str, bad)) = Half(str, key, 1)
<1> DEFINE z == Append(str, 0)
           n == Len(str)
<1>1. n \in Nat /\ \A k \in 1..n : str[k] \in Nat
  BY EncryptAssumption
<1>2. strnlen_user(str, bad) = n + 1
  BY <1>1, EncryptAssumption DEF strnlen_user
<1>3. str \in Seq(Nat)
  BY <1>1
<1>4. /\ z \in Seq(Nat) /\ Len(z) = n + 1 /\ \A k \in 1..n : z[k] = str[k]
      /\ z[n + 1] = 0
  BY <1>1, <1>3, AppendProperties
<1> HIDE DEF z
<1> DEFINE u == SubSeq(z, 1, n + 1)
           h == Half(str, key, 1)
<1>5. u \in Seq(Nat) /\ Len(u) = n + 1 /\ \A k \in 1..n + 1 : u[k] = z[k]
  BY <1>1, <1>4
<1>6. h \in Seq(Nat) /\ Len(h) = n + 1 /\ (\A k \in 1..n : h[k] = str[k]) /\ h[n + 1] = 0
  BY <1>1 DEF Half
<1> HIDE DEF u, h
<1>7. ASSUME NEW k \in 1..n + 1 PROVE u[k] = h[k]
  <2>1. k \in 1..n \/ k = n + 1
    BY <1>1
  <2> HIDE DEF n
  <2> QED
    BY <1>4, <1>5, <1>6, <2>1
<1>8. u = h
  BY <1>5, <1>6, <1>7, SeqEqual
<1> QED
  BY <1>2, <1>8 DEF u, h, z

(* One turn of the loop. *)
LEMMA HalfStep ==
  ASSUME NEW str \in Seq(1..Byte - 1), NEW key \in Nat, NEW i \in 1..Len(str)
  PROVE  [Half(str, key, i) EXCEPT ![i] = Shifted(@, key)] = Half(str, key, i + 1)
<1>1. Len(str) \in Nat
  OBVIOUS
<1> DEFINE n == Len(str)
           h == Half(str, key, i)
           g == [h EXCEPT ![i] = Shifted(@, key)]
           z == Half(str, key, i + 1)
<1>2. h = [k \in 1..n + 1 |-> h[k]] /\ DOMAIN h = 1..n + 1 /\ DOMAIN z = 1..n + 1
      /\ z = [k \in 1..n + 1 |-> z[k]]
  BY DEF Half
<1>3. h[i] = str[i]
  BY <1>1 DEF Half
<1>4. DOMAIN g = 1..n + 1 /\ g = [k \in 1..n + 1 |-> g[k]]
      /\ g[i] = Shifted(str[i], key) /\ \A k \in 1..n + 1 : k # i => g[k] = h[k]
  <2>1. i \in 1..n + 1
    BY <1>1
  <2> HIDE DEF h, n
  <2> QED
    BY <1>2, <1>3, <2>1
<1> HIDE DEF g
<1>5. ASSUME NEW k \in 1..n + 1 PROVE g[k] = z[k]
  <2>1. CASE k = i
    BY <1>1, <1>4, <2>1 DEF Half
  <2>2. CASE k # i
    <3>1. k < i + 1 <=> k < i
      BY <1>1, <2>2
    <3> QED
      BY <1>1, <1>4, <2>2, <3>1 DEF Half
  <2> QED
    BY <2>1, <2>2
<1> HIDE DEF z
<1>6. g = z
  BY <1>2, <1>4, <1>5
<1> QED
  BY <1>6 DEF g, z

(* The loop of s2_encrypt stays in its buffer and shifts every character   *)
(* of the string once, for every string strnlen_user can measure, every    *)
(* key and every size of a char, also where the shift wraps to zero.       *)
THEOREM EncryptsEvery == EncSpec => []EncryptsWhole
<1>1. EncInit => EncInv
  BY DEF EncInit, EncInv, EncTypes, LoopHalf, EncIdle
<1>2. EncInv /\ [EncNext]_enc_vars => EncInv'
  <2> SUFFICES ASSUME EncInv, [EncNext]_enc_vars PROVE EncInv'
    OBVIOUS
  <2> USE EncryptAssumption
  <2>0. DOMAIN enc = {"at", "str", "bad", "key", "buf", "i", "live", "ret"}
    BY DEF EncInv, EncTypes, EncIdle
  <2>1. CASE Question2
    <3>1. PICK k \in 0..MaxKey + 1 :
            \/ \E n \in 0..MaxStr : \E s \in [1..n -> 1..Byte - 1] :
                 enc' = [EncIdle EXCEPT !.at = "kmalloc", !.str = s, !.key = k]
            \/ enc' = [EncIdle EXCEPT !.at = "kmalloc", !.bad = TRUE, !.key = k]
      BY <2>1 DEF Question2
    <3>2. k \in Nat
      OBVIOUS
    <3>3. enc'.at = "kmalloc" /\ enc'.key = k /\ enc'.ret = "none" /\ DOMAIN enc' = DOMAIN EncIdle
      BY <3>1 DEF EncIdle
    <3>4. enc'.str \in Seq(1..Byte - 1)
      <4>1. CASE enc' = [EncIdle EXCEPT !.at = "kmalloc", !.bad = TRUE, !.key = k]
        BY <4>1 DEF EncIdle
      <4>2. ASSUME NEW n \in 0..MaxStr, NEW s \in [1..n -> 1..Byte - 1],
                   enc' = [EncIdle EXCEPT !.at = "kmalloc", !.str = s, !.key = k]
            PROVE  enc'.str \in Seq(1..Byte - 1)
        <5>1. s \in Seq(1..Byte - 1)
          OBVIOUS
        <5> QED
          BY <4>2, <5>1 DEF EncIdle
      <4> QED
        BY <3>1, <4>1, <4>2
    <3> QED
      BY <3>2, <3>3, <3>4 DEF EncInv, EncTypes, LoopHalf, Measured
  <2>2. CASE SysAlloc
    <3>0. enc.at = "kmalloc" /\ enc.ret = "none" /\ enc.str \in Seq(1..Byte - 1)
          /\ enc.key \in Nat
      BY <2>2 DEF SysAlloc, EncInv, EncTypes
    <3>1. CASE enc' = [enc EXCEPT !.at = "loop", !.live = TRUE, !.i = 1,
                         !.buf = SubSeq(Append(enc.str, 0), 1, strnlen_user(enc.str, enc.bad))]
      <4>1. /\ enc'.at = "loop" /\ enc'.i = 1 /\ enc'.ret = "none"
            /\ enc'.buf = SubSeq(Append(enc.str, 0), 1, strnlen_user(enc.str, enc.bad))
            /\ enc'.str = enc.str /\ enc'.bad = enc.bad /\ enc'.key = enc.key /\ DOMAIN enc' = DOMAIN enc
        BY <2>0, <3>0, <3>1
      <4>2. Measured => enc'.buf = Half(enc.str, enc.key, 1)
        BY <3>0, <4>1, CopiedIn DEF Measured
      <4>3. 1 \in 1..Len(enc.str) + 1
        BY <3>0
      <4> QED
        BY <3>0, <4>1, <4>2, <4>3 DEF EncInv, EncTypes, LoopHalf, Measured
    <3>2. CASE \E r \in {"EFAULT", "EINVAL"} :
                 enc' = [enc EXCEPT !.at = "done", !.live = TRUE, !.ret = r]
      <4>1. /\ enc'.at = "done" /\ enc'.ret \in {"EFAULT", "EINVAL"}
            /\ enc'.str = enc.str /\ enc'.bad = enc.bad /\ enc'.key = enc.key /\ DOMAIN enc' = DOMAIN enc
        BY <2>0, <3>2
      <4> QED
        BY <3>0, <4>1 DEF EncInv, EncTypes, LoopHalf, Measured
    <3> QED
      BY <2>2, <3>1, <3>2 DEF SysAlloc
  <2>3. CASE SysLoop
    <3>0. enc.at = "loop" /\ enc.ret = "none" /\ enc.str \in Seq(1..Byte - 1)
          /\ enc.key \in Nat /\ Len(enc.str) \in Nat
      BY <2>3 DEF SysLoop, EncInv, EncTypes
    <3> DEFINE n == Len(enc.str)
    <3>1. Measured =>
            /\ enc.i \in 1..n + 1 /\ enc.buf = Half(enc.str, enc.key, enc.i)
            /\ DOMAIN enc.buf = 1..n + 1
            /\ enc.buf[enc.i] = 0 <=> enc.i = n + 1
      <4> SUFFICES ASSUME Measured
                   PROVE  /\ enc.i \in 1..n + 1 /\ enc.buf = Half(enc.str, enc.key, enc.i)
                          /\ DOMAIN enc.buf = 1..n + 1
                          /\ enc.buf[enc.i] = 0 <=> enc.i = n + 1
        OBVIOUS
      <4>1. enc.i \in 1..n + 1 /\ enc.buf = Half(enc.str, enc.key, enc.i)
        BY <3>0 DEF EncInv, LoopHalf
      <4>2. DOMAIN enc.buf = 1..n + 1
        BY <4>1 DEF Half
      <4>3. enc.buf[enc.i] = IF enc.i = n + 1 THEN 0 ELSE enc.str[enc.i]
        BY <3>0, <4>1 DEF Half
      <4>4. enc.i # n + 1 => enc.str[enc.i] \in 1..Byte - 1
        BY SMTT(40), <3>0, <4>1
      <4> QED
        BY <4>1, <4>2, <4>3, <4>4
    <3>2. CASE enc' = [enc EXCEPT !.at = "lost"] /\ enc.i \notin DOMAIN enc.buf
      <4>1. /\ enc'.at = "lost" /\ enc'.ret = enc.ret
            /\ enc'.str = enc.str /\ enc'.bad = enc.bad /\ enc'.key = enc.key /\ DOMAIN enc' = DOMAIN enc
        BY <2>0, <3>2
      <4>2. ~(Measured)
        BY <3>1, <3>2
      <4> QED
        BY <3>0, <4>1, <4>2 DEF EncInv, EncTypes, LoopHalf, Measured
    <3>3. CASE enc' = [enc EXCEPT !.at = "print"] /\ enc.buf[enc.i] = 0
      <4>1. /\ enc'.at = "print" /\ enc'.ret = enc.ret /\ enc'.buf = enc.buf
            /\ enc'.str = enc.str /\ enc'.bad = enc.bad /\ enc'.key = enc.key /\ DOMAIN enc' = DOMAIN enc
        BY <2>0, <3>3
      <4>2. Measured => enc.buf = Half(enc.str, enc.key, n + 1)
        BY <3>1, <3>3
      <4> QED
        BY <3>0, <4>1, <4>2 DEF EncInv, EncTypes, LoopHalf, Measured
    <3>4. CASE /\ enc.buf[enc.i] # 0 /\ enc.i \in DOMAIN enc.buf
               /\ enc' = [enc EXCEPT !.buf[enc.i] = Shifted(@, enc.key), !.i = @ + 1]
      <4>1. /\ enc'.at = "loop" /\ enc'.ret = enc.ret /\ enc'.i = enc.i + 1
            /\ enc'.buf = [enc.buf EXCEPT ![enc.i] = Shifted(@, enc.key)]
            /\ enc'.str = enc.str /\ enc'.bad = enc.bad /\ enc'.key = enc.key /\ DOMAIN enc' = DOMAIN enc
        BY <2>0, <3>0, <3>4
      <4>2. ASSUME Measured
            PROVE  enc'.i \in 1..n + 1 /\ enc'.buf = Half(enc.str, enc.key, enc'.i)
        <5>1. enc.i \in 1..n /\ enc.buf = Half(enc.str, enc.key, enc.i)
          BY <3>0, <3>1, <3>4, <4>2
        <5>2. [Half(enc.str, enc.key, enc.i) EXCEPT ![enc.i] = Shifted(@, enc.key)]
              = Half(enc.str, enc.key, enc.i + 1)
          BY <3>0, <5>1, HalfStep, ZenonT(40)
        <5> QED
          BY <3>0, <4>1, <5>1, <5>2
      <4> QED
        BY <3>0, <4>1, <4>2 DEF EncInv, EncTypes, LoopHalf, Measured
    <3> QED
      BY <2>3, <3>2, <3>3, <3>4 DEF SysLoop
  <2>4. CASE SysPrint
    <3>1. /\ enc.at = "print" /\ enc'.at = "done" /\ enc'.ret = "0" /\ enc'.live = FALSE
          /\ enc'.buf = enc.buf /\ enc'.str = enc.str /\ enc'.bad = enc.bad /\ enc'.key = enc.key
          /\ DOMAIN enc' = DOMAIN enc
      BY <2>0, <2>4 DEF SysPrint
    <3> QED
      BY <3>1 DEF EncInv, EncTypes, LoopHalf, Measured
  <2>5. CASE SysReturn
    BY <2>5 DEF SysReturn, EncIdle, EncInv, EncTypes, LoopHalf, Measured
  <2>6. CASE UNCHANGED enc_vars
    BY <2>6 DEF enc_vars, EncInv, EncTypes, LoopHalf, Measured
  <2> QED
    BY <2>1, <2>2, <2>3, <2>4, <2>5, <2>6 DEF EncNext
<1>3. EncInv => EncryptsWhole
  <2> SUFFICES ASSUME EncInv, Measured
               PROVE  /\ enc.at # "lost"
                      /\ enc.ret = "0" =>
                           /\ ~enc.live
                           /\ enc.buf = Append([k \in DOMAIN enc.str |->
                                                  Shifted(enc.str[k], enc.key)], 0)
    BY DEF EncryptsWhole
  <2>1. Half(enc.str, enc.key, Len(enc.str) + 1)
        = Append([k \in DOMAIN enc.str |-> Shifted(enc.str[k], enc.key)], 0)
    BY HalfDone DEF EncInv, EncTypes
  <2> QED
    BY <2>1 DEF EncInv, LoopHalf
<1> QED
  BY <1>1, <1>2, <1>3, PTL DEF EncSpec
-----------------------------------------------------------------------------
(* Calls that cross the user boundary.  The statement a call is at decides *)
(* what it holds: the limit is raised exactly inside the sections that     *)
(* work on an object of the kernel, and the lock is held exactly between   *)
(* rtnl_lock and rtnl_unlock.                                              *)

(* The statements of sock_do_ioctl, which four functions share. *)
SdLabels == {"sd_proto", "sd_ifconf", "sd_lock", "sd_dev_ifconf", "sd_unlock", "sd_ifconf_out",
             "sd_ifreq", "sd_dev", "sd_ifreq_out", "sd_return"}
Raisers == Stamps \union {"routing_ioctl"}
SdCallers == Raisers \union {"sock_do_ioctl"}

(* Where the limit is raised, and where the rtnl lock is held. *)
Raised(f, l) == (f \in Raisers /\ l \in SdLabels) \/ (f \in KernelCalls /\ l \in {"proto", "restore"})
Locked(f, l) == l \in {"sd_dev_ifconf", "sd_unlock"} \/ (f = "compat_dev_ifconf" /\ l \in {"dev", "unlock"})

IoTypes ==
  /\ DOMAIN io = {"fn", "at", "err", "fs", "entry", "old", "rtnl", "size", "copied"}
  /\ io.err \in BOOLEAN /\ io.rtnl \in BOOLEAN /\ io.size \in Int /\ io.copied \in Int
  /\ umem \in Int /\ rxmem \in Int

LimitByLabel ==
  /\ io.at \in SdLabels => io.fn \in SdCallers
  /\ io.fn \notin KernelCalls => io.entry = "user"
  /\ IF Raised(io.fn, io.at) THEN io.fs = "kernel" /\ io.old = io.entry ELSE io.fs = io.entry
  /\ io.rtnl <=> Locked(io.fn, io.at)

(* A call has copied nothing before it has measured. *)
FreshSizes ==
  /\ io.fn \in {"none", "compat_sock_ioctl"} => io.size = 0 /\ io.copied = 0
  /\ io.fn \in EthtoolCmds /\ io.at # "done" => io.copied = 0

IoInv == IoTypes /\ LimitByLabel /\ FreshSizes /\ CopyFits

(* A statement that changes neither the limit nor the lock. *)
LEMMA MoveStep ==
  ASSUME IoInv, NEW l, NEW e \in BOOLEAN,
         io' = [io EXCEPT !.at = l, !.err = e],
         umem' \in Int, rxmem' \in Int,
         l \in SdLabels => io.fn \in SdCallers,
         Raised(io.fn, l) <=> Raised(io.fn, io.at),
         Locked(io.fn, l) <=> Locked(io.fn, io.at),
         io.at # "done"
  PROVE  IoInv'
<1>1. io'.fn = io.fn /\ io'.at = l /\ io'.fs = io.fs /\ io'.entry = io.entry /\ io'.old = io.old
      /\ io'.rtnl = io.rtnl /\ io'.size = io.size /\ io'.copied = io.copied
  BY DEF IoInv, IoTypes
<1>2. IoTypes'
  BY DEF IoInv, IoTypes
<1>3. LimitByLabel'
  BY <1>1 DEF IoInv, LimitByLabel, Raised, Locked
<1>4. FreshSizes' /\ CopyFits'
  BY <1>1 DEF IoInv, FreshSizes, CopyFits
<1> QED BY <1>2, <1>3, <1>4 DEF IoInv

(* The same for a statement that may fail. *)
LEMMA TryStep ==
  ASSUME IoInv, NEW f, NEW l, NEW ok, NEW bad,
         Try(f, l, ok, bad), umem' \in Int, rxmem' \in Int, l # "done",
         \A x \in {ok, bad} : /\ x \in SdLabels => f \in SdCallers
                              /\ Raised(f, x) <=> Raised(f, l)
                              /\ Locked(f, x) <=> Locked(f, l)
  PROVE  IoInv'
<1>1. io.fn = f /\ io.at = l
  BY DEF Try, At
<1>2. io.err \in BOOLEAN
  BY DEF IoInv, IoTypes
<1>3. CASE io' = [io EXCEPT !.at = ok]
  <2>1. io' = [io EXCEPT !.at = ok, !.err = io.err]
    BY <1>3, <1>2 DEF IoInv, IoTypes
  <2> QED BY <2>1, <1>1, <1>2, MoveStep
<1>4. CASE io' = [io EXCEPT !.at = bad, !.err = TRUE]
  BY <1>1, <1>4, MoveStep
<1> QED BY <1>3, <1>4 DEF Try, Goto

(* The same for one that cannot. *)
LEMMA GotoStep ==
  ASSUME IoInv, NEW f, NEW l, NEW ok,
         At(f, l), Goto(ok), umem' \in Int, rxmem' \in Int, l # "done",
         ok \in SdLabels => f \in SdCallers,
         Raised(f, ok) <=> Raised(f, l), Locked(f, ok) <=> Locked(f, l)
  PROVE  IoInv'
<1>1. io.fn = f /\ io.at = l
  BY DEF At
<1>2. io.err \in BOOLEAN /\ io' = [io EXCEPT !.at = ok, !.err = io.err]
  BY DEF IoInv, IoTypes, Goto
<1> QED BY <1>1, <1>2, MoveStep

(* The limit is raised, and the old one noted. *)
LEMMA RaiseStep ==
  ASSUME IoInv, NEW f, NEW l, NEW next,
         RaiseLimit(f, l, next), UNCHANGED <<umem, rxmem>>, l # "done",
         next \in SdLabels => f \in Raisers,
         ~Raised(f, l), Raised(f, next), Locked(f, l) <=> Locked(f, next)
  PROVE  IoInv'
<1>0. io.fn = f /\ io.at = l
  BY DEF RaiseLimit, At
<1>1. io'.fn = io.fn /\ io'.at = next /\ io'.fs = "kernel" /\ io'.entry = io.entry /\ io'.old = io.fs
      /\ io'.rtnl = io.rtnl /\ io'.size = io.size /\ io'.copied = io.copied
  BY DEF IoInv, IoTypes, RaiseLimit
<1>2. IoTypes'
  BY DEF IoInv, IoTypes, RaiseLimit
<1>3. LimitByLabel'
  BY <1>0, <1>1 DEF IoInv, LimitByLabel, Raised, Locked, SdCallers
<1>4. FreshSizes' /\ CopyFits'
  BY <1>0, <1>1 DEF IoInv, FreshSizes, CopyFits
<1> QED BY <1>2, <1>3, <1>4 DEF IoInv

(* The limit is restored from the note. *)
LEMMA RestoreStep ==
  ASSUME IoInv, NEW f, NEW l, NEW next,
         RestoreLimit(f, l, next), UNCHANGED <<umem, rxmem>>, l # "done", next \notin SdLabels,
         Raised(f, l), ~Raised(f, next), Locked(f, l) <=> Locked(f, next)
  PROVE  IoInv'
<1>0. io.fn = f /\ io.at = l
  BY DEF RestoreLimit, At
<1>1. io'.fn = io.fn /\ io'.at = next /\ io'.fs = io.old /\ io'.entry = io.entry /\ io'.old = io.old
      /\ io'.rtnl = io.rtnl /\ io'.size = io.size /\ io'.copied = io.copied
  BY DEF IoInv, IoTypes, RestoreLimit
<1>2. IoTypes'
  BY DEF IoInv, IoTypes, RestoreLimit
<1>3. LimitByLabel'
  BY <1>0, <1>1 DEF IoInv, LimitByLabel, Raised, Locked
<1>4. FreshSizes' /\ CopyFits'
  BY <1>0, <1>1 DEF IoInv, FreshSizes, CopyFits
<1> QED BY <1>2, <1>3, <1>4 DEF IoInv

(* The rtnl lock is taken or released. *)
LEMMA LockStep ==
  ASSUME IoInv, NEW f, NEW l, NEW next,
         rtnl_lock(f, l, next) \/ rtnl_unlock(f, l, next), UNCHANGED <<umem, rxmem>>, l # "done",
         next \in SdLabels => f \in SdCallers,
         Raised(f, next) <=> Raised(f, l),
         rtnl_lock(f, l, next) => Locked(f, next), rtnl_unlock(f, l, next) => ~Locked(f, next)
  PROVE  IoInv'
<1>0. io.fn = f /\ io.at = l
  BY DEF rtnl_lock, rtnl_unlock, At
<1>1. PICK r \in BOOLEAN : io' = [io EXCEPT !.at = next, !.rtnl = r] /\ (r <=> Locked(f, next))
  <2>1. CASE rtnl_lock(f, l, next)
    BY <2>1 DEF rtnl_lock
  <2>2. CASE rtnl_unlock(f, l, next)
    BY <2>2 DEF rtnl_unlock
  <2> QED BY <2>1, <2>2
<1>2. io'.fn = io.fn /\ io'.at = next /\ io'.fs = io.fs /\ io'.entry = io.entry /\ io'.old = io.old
      /\ io'.rtnl = r /\ io'.size = io.size /\ io'.copied = io.copied
  BY <1>1 DEF IoInv, IoTypes
<1>3. IoTypes'
  BY <1>1 DEF IoInv, IoTypes
<1>4. LimitByLabel'
  <2>1. (io'.at \in SdLabels => io'.fn \in SdCallers) /\ (io'.fn \notin KernelCalls => io'.entry = "user")
    BY <1>0, <1>2 DEF IoInv, LimitByLabel
  <2>2. IF Raised(io'.fn, io'.at) THEN io'.fs = "kernel" /\ io'.old = io'.entry ELSE io'.fs = io'.entry
    BY <1>0, <1>2 DEF IoInv, LimitByLabel
  <2>3. io'.rtnl <=> Locked(io'.fn, io'.at)
    BY <1>0, <1>1, <1>2
  <2> QED BY <2>1, <2>2, <2>3 DEF LimitByLabel, Raised, Locked
<1>5. FreshSizes' /\ CopyFits'
  BY <1>0, <1>2 DEF IoInv, FreshSizes, CopyFits
<1> QED BY <1>3, <1>4, <1>5 DEF IoInv

(* A measured copy: new sizes, and the same limit. *)
LEMMA SizeStep ==
  ASSUME IoInv, NEW l, NEW n \in Int, NEW k \in Int,
         io' = [io EXCEPT !.at = l, !.size = n, !.copied = k],
         umem' \in Int, rxmem' \in Int, io.at # "done",
         l \in SdLabels => io.at \in SdLabels,
         Raised(io.fn, l) <=> Raised(io.fn, io.at),
         Locked(io.fn, l) <=> Locked(io.fn, io.at),
         io.fn \notin {"none", "compat_sock_ioctl"},
         io.fn \in EthtoolCmds /\ l # "done" => k = 0,
         io.fn \notin Stamps => 0 <= k /\ k <= n,
         io.fn \in EthtoolCmds => n <= MaxRules,
         io.fn \in {"move_addr_to_kernel", "move_addr_to_user"} => n <= MaxAddr
  PROVE  IoInv'
<1>1. io'.fn = io.fn /\ io'.at = l /\ io'.fs = io.fs /\ io'.entry = io.entry /\ io'.old = io.old
      /\ io'.rtnl = io.rtnl /\ io'.size = n /\ io'.copied = k
  BY DEF IoInv, IoTypes
<1>2. IoTypes'
  BY DEF IoInv, IoTypes
<1>3. LimitByLabel'
  BY <1>1 DEF IoInv, LimitByLabel, Raised, Locked
<1>4. FreshSizes' /\ CopyFits'
  BY <1>1 DEF IoInv, FreshSizes, CopyFits
<1> QED BY <1>2, <1>3, <1>4 DEF IoInv

(* What the statements of sock_do_ioctl hold is a matter of its caller. *)
LEMMA SdFacts ==
  \A f \in SdCallers, l \in SdLabels :
    /\ l # "done" /\ f \in SdCallers
    /\ f \notin {"none", "compat_sock_ioctl"} /\ f \notin EthtoolCmds
    /\ f \notin {"move_addr_to_kernel", "move_addr_to_user"}
    /\ Raised(f, l) <=> f \in Raisers
    /\ Locked(f, l) <=> l \in {"sd_dev_ifconf", "sd_unlock"}
BY DEF SdLabels, Raisers, Stamps, KernelCalls, Raised, Locked, SdCallers, EthtoolCmds

(* A statement of sock_do_ioctl that may fail. *)
LEMMA SdTry ==
  ASSUME IoInv, NEW f \in SdCallers,
         NEW l \in SdLabels, NEW ok \in SdLabels, NEW bad \in SdLabels,
         ok \in {"sd_dev_ifconf", "sd_unlock"} <=> l \in {"sd_dev_ifconf", "sd_unlock"},
         bad \in {"sd_dev_ifconf", "sd_unlock"} <=> l \in {"sd_dev_ifconf", "sd_unlock"},
         Try(f, l, ok, bad), UNCHANGED <<umem, rxmem>>
  PROVE  IoInv'
<1>0. umem' \in Int /\ rxmem' \in Int
  BY DEF IoInv, IoTypes
<1>1. l # "done" /\ f \in SdCallers
  BY SdFacts
<1>2. (Raised(f, ok) <=> Raised(f, l)) /\ (Locked(f, ok) <=> Locked(f, l))
  BY SdFacts
<1>3. (Raised(f, bad) <=> Raised(f, l)) /\ (Locked(f, bad) <=> Locked(f, l))
  BY SdFacts
<1> QED BY <1>0, <1>1, <1>2, <1>3, TryStep

(* The protocol does not know the command. *)
LEMMA SdGoto ==
  ASSUME IoInv, NEW f \in SdCallers, NEW ok \in {"sd_ifconf", "sd_ifreq"},
         At(f, "sd_proto"), Goto(ok), UNCHANGED <<umem, rxmem>>
  PROVE  IoInv'
<1>0. umem' \in Int /\ rxmem' \in Int
  BY DEF IoInv, IoTypes
<1>1. "sd_proto" \in SdLabels /\ ok \in SdLabels
  BY DEF SdLabels
<1>2. /\ Raised(f, ok) <=> Raised(f, "sd_proto")
      /\ Locked(f, ok) <=> Locked(f, "sd_proto")
      /\ "sd_proto" # "done" /\ f \in SdCallers
  BY <1>1, SdFacts
<1> QED BY <1>0, <1>1, <1>2, GotoStep

(* The struct ifreq goes in or out. *)
LEMMA IfreqStep ==
  ASSUME IoInv, NEW f \in SdCallers,
         NEW l \in {"sd_ifreq", "sd_ifreq_out"}, NEW ok \in {"sd_dev", "sd_return"},
         IfreqCopy(f, l, ok), UNCHANGED <<umem, rxmem>>
  PROVE  IoInv'
<1>1. io.fn = f /\ io.at = l /\ umem' \in Int /\ rxmem' \in Int
  BY DEF IfreqCopy, At, IoInv, IoTypes
<1>0. ok \in SdLabels /\ l \in SdLabels /\ "sd_return" \in SdLabels
  BY DEF SdLabels
<1>4. \A x \in {ok, "sd_return"} : 
        /\ Raised(f, x) <=> Raised(f, l)
        /\ Locked(f, x) <=> Locked(f, l)
  BY <1>0, SdFacts
<1>5. /\ l # "done" /\ f \in SdCallers
      /\ f \notin {"none", "compat_sock_ioctl"} /\ f \notin EthtoolCmds
      /\ f \notin {"move_addr_to_kernel", "move_addr_to_user"}
  BY <1>0, SdFacts
<1>2. CASE io' = [io EXCEPT !.at = ok, !.size = Room(f), !.copied = IfreqLen]
  <2>1. Room(f) \in Int /\ IfreqLen \in Int /\ (f \notin Stamps => 0 <= IfreqLen /\ IfreqLen <= Room(f))
    BY DEF Room, IfreqLen
  <2> HIDE DEF IfreqLen, Room
  <2> QED BY <1>0, <1>1, <1>2, <1>4, <1>5, <2>1, SizeStep
<1>3. CASE io' = [io EXCEPT !.at = "sd_return", !.err = TRUE]
  BY <1>0, <1>1, <1>3, <1>4, <1>5, MoveStep
<1> QED BY <1>2, <1>3 DEF IfreqCopy

(* Every statement of sock_do_ioctl, for every caller. *)
LEMMA SockDoStep ==
  ASSUME IoInv, NEW f \in SdCallers, sock_do_ioctl(f), UNCHANGED <<umem, rxmem>>
  PROVE  IoInv'
<1>0. umem' \in Int /\ rxmem' \in Int
  BY DEF IoInv, IoTypes
<1>l. /\ "sd_proto" \in SdLabels /\ "sd_return" \in SdLabels /\ "sd_ifconf" \in SdLabels
      /\ "sd_lock" \in SdLabels /\ "sd_dev_ifconf" \in SdLabels /\ "sd_unlock" \in SdLabels
      /\ "sd_ifconf_out" \in SdLabels /\ "sd_dev" \in SdLabels /\ "sd_ifreq_out" \in SdLabels
  BY DEF SdLabels
<1>1. CASE Try(f, "sd_proto", "sd_return", "sd_return")
  BY <1>l, <1>1, SdTry
<1>2. CASE At(f, "sd_proto") /\ Goto("sd_ifconf")
  BY <1>2, SdGoto
<1>3. CASE Try(f, "sd_ifconf", "sd_lock", "sd_return")
  BY <1>l, <1>3, SdTry
<1>4. CASE rtnl_lock(f, "sd_lock", "sd_dev_ifconf")
  <2>1. ~rtnl_unlock(f, "sd_lock", "sd_dev_ifconf")
    BY <1>4 DEF rtnl_lock, rtnl_unlock, IoInv, IoTypes
  <2>2. /\ Raised(f, "sd_dev_ifconf") <=> Raised(f, "sd_lock")
        /\ Locked(f, "sd_dev_ifconf") /\ f \in SdCallers
    BY <1>l, SdFacts
  <2> QED BY <1>4, <2>1, <2>2, LockStep
<1>5. CASE Try(f, "sd_dev_ifconf", "sd_unlock", "sd_unlock")
  BY <1>l, <1>5, SdTry
<1>6. CASE rtnl_unlock(f, "sd_unlock", IF io.err THEN "sd_return" ELSE "sd_ifconf_out")
  <2>1. PICK l \in {"sd_return", "sd_ifconf_out"} : rtnl_unlock(f, "sd_unlock", l)
    BY <1>6
  <2>2. ~rtnl_lock(f, "sd_unlock", l)
    BY <2>1 DEF rtnl_lock, rtnl_unlock, IoInv, IoTypes
  <2>3. /\ Raised(f, l) <=> Raised(f, "sd_unlock")
        /\ ~Locked(f, l) /\ f \in SdCallers
    BY <1>l, <2>1, SdFacts
  <2> QED BY <2>1, <2>2, <2>3, LockStep
<1>7. CASE Try(f, "sd_ifconf_out", "sd_return", "sd_return")
  BY <1>l, <1>7, SdTry
<1>8. CASE At(f, "sd_proto") /\ Goto("sd_ifreq")
  BY <1>8, SdGoto
<1>9. CASE IfreqCopy(f, "sd_ifreq", "sd_dev")
  BY <1>9, IfreqStep
<1>10. CASE \E out \in {"sd_ifreq_out", "sd_return"} : Try(f, "sd_dev", out, "sd_return")
  <2>1. PICK out \in {"sd_ifreq_out", "sd_return"} : Try(f, "sd_dev", out, "sd_return")
    BY <1>10
  <2> QED BY <1>l, <2>1, SdTry
<1>11. CASE IfreqCopy(f, "sd_ifreq_out", "sd_return")
  BY <1>11, IfreqStep
<1> QED
  BY <1>1, <1>2, <1>3, <1>4, <1>5, <1>6, <1>7, <1>8, <1>9, <1>10, <1>11 DEF sock_do_ioctl

(* Outside the sections that raise the limit or hold the lock. *)
Outside(f, l) == l \notin SdLabels /\ ~Raised(f, l) /\ ~Locked(f, l)

PlainLabels == {"in", "out", "done", "set_fs", "lock", "dev", "count", "name", "refetch", "rules",
                "proto", "getlen", "putlen"}

(* The labels outside the sections, function by function. *)
LEMMA OutsideFacts ==
  /\ \A f, l : l \in PlainLabels /\ f \notin KernelCalls \union {"compat_dev_ifconf"} => Outside(f, l)
  /\ \A f \in KernelCalls : Outside(f, "in") /\ Outside(f, "done")
  /\ \A l \in {"in", "lock", "out", "done"} : Outside("compat_dev_ifconf", l)
BY DEF PlainLabels, KernelCalls, Outside, SdLabels, Raised, Locked

(* A statement outside the sections that may fail. *)
LEMMA OutTry ==
  ASSUME IoInv, NEW f, NEW l, NEW ok, NEW bad, Try(f, l, ok, bad), umem' \in Int, rxmem' \in Int,
         l # "done", Outside(f, l), Outside(f, ok), Outside(f, bad)
  PROVE  IoInv'
<1>1. /\ ok \in SdLabels => f \in SdCallers
      /\ bad \in SdLabels => f \in SdCallers
      /\ Raised(f, ok) <=> Raised(f, l)
      /\ Locked(f, ok) <=> Locked(f, l)
      /\ Raised(f, bad) <=> Raised(f, l)
      /\ Locked(f, bad) <=> Locked(f, l)
  BY DEF Outside
<1> QED BY <1>1, TryStep

(* The functions of which every statement is a plain one. *)
LEMMA PlainTry ==
  ASSUME IoInv, NEW f, NEW l \in PlainLabels \ {"done"}, NEW ok \in PlainLabels, NEW bad \in PlainLabels,
         Try(f, l, ok, bad), umem' \in Int, rxmem' \in Int,
         f \notin KernelCalls \union {"compat_dev_ifconf"}
  PROVE  IoInv'
BY OutsideFacts, OutTry

(* The timestamps, around sock_do_ioctl. *)
LEMMA StampStep ==
  ASSUME IoInv, NEW f \in Stamps, do_siocgstamp(f), UNCHANGED <<umem, rxmem>>
  PROVE  IoInv'
<1>0. umem' \in Int /\ rxmem' \in Int
  BY DEF IoInv, IoTypes
<1>1. f \in SdCallers /\ f \in Raisers /\ f \notin KernelCalls \union {"compat_dev_ifconf"}
  BY DEF SdCallers, Raisers, KernelCalls, Stamps
<1>2. /\ "sd_proto" \in SdLabels /\ "sd_return" \in SdLabels
      /\ "in" \in PlainLabels \ {"done"} /\ "out" \in PlainLabels \ {"done"} /\ "done" \in PlainLabels
  BY DEF SdLabels, PlainLabels
<1>3. /\ Outside(f, "in") /\ Outside(f, "out") /\ Outside(f, "done")
      /\ Raised(f, "sd_proto") /\ Raised(f, "sd_return") /\ ~Locked(f, "sd_proto") /\ ~Locked(f, "sd_return")
  BY <1>1, <1>2, OutsideFacts, SdFacts
<1>4. CASE RaiseLimit(f, "in", "sd_proto")
  <2>1. ~Raised(f, "in") /\ (Locked(f, "in") <=> Locked(f, "sd_proto"))
    BY <1>3 DEF Outside
  <2> QED BY <1>1, <1>3, <1>4, <2>1, RaiseStep
<1>5. CASE sock_do_ioctl(f)
  BY <1>1, <1>5, SockDoStep
<1>6. CASE RestoreLimit(f, "sd_return", IF io.err THEN "done" ELSE "out")
  <2>1. PICK l \in {"done", "out"} : RestoreLimit(f, "sd_return", l)
    BY <1>6
  <2>2. /\ l \notin SdLabels /\ ~Raised(f, l)
        /\ Locked(f, "sd_return") <=> Locked(f, l)
    BY <1>3, <2>1 DEF Outside
  <2> QED BY <1>3, <2>1, <2>2, RestoreStep
<1>7. CASE Try(f, "out", "done", "done")
  BY <1>0, <1>1, <1>2, <1>7, PlainTry
<1> QED BY <1>4, <1>5, <1>6, <1>7 DEF do_siocgstamp

(* The routing entries, around sock_do_ioctl. *)
LEMMA RoutingStep ==
  ASSUME IoInv, routing_ioctl, UNCHANGED <<umem, rxmem>>
  PROVE  IoInv'
<1> DEFINE f == "routing_ioctl"
<1>0. umem' \in Int /\ rxmem' \in Int
  BY DEF IoInv, IoTypes
<1>1. f \in SdCallers /\ f \in Raisers /\ f \notin KernelCalls \union {"compat_dev_ifconf"}
  BY DEF SdCallers, Raisers, KernelCalls, Stamps
<1>2. /\ "sd_proto" \in SdLabels /\ "sd_return" \in SdLabels
      /\ "in" \in PlainLabels \ {"done"} /\ "set_fs" \in PlainLabels \ {"done"} /\ "done" \in PlainLabels
  BY DEF SdLabels, PlainLabels
<1>3. /\ Outside(f, "set_fs") /\ Outside(f, "done")
      /\ Raised(f, "sd_proto") /\ Raised(f, "sd_return") /\ ~Locked(f, "sd_proto") /\ ~Locked(f, "sd_return")
  BY <1>1, <1>2, OutsideFacts, SdFacts
<1>4. CASE RaiseLimit(f, "set_fs", "sd_proto")
  <2>1. ~Raised(f, "set_fs") /\ (Locked(f, "set_fs") <=> Locked(f, "sd_proto"))
    BY <1>3 DEF Outside
  <2> QED BY <1>1, <1>3, <1>4, <2>1, RaiseStep
<1>5. CASE sock_do_ioctl(f)
  BY <1>1, <1>5, SockDoStep
<1>6. CASE RestoreLimit(f, "sd_return", "done")
  <2>2. /\ "done" \notin SdLabels /\ ~Raised(f, "done")
        /\ Locked(f, "sd_return") <=> Locked(f, "done")
    BY <1>3 DEF Outside
  <2> QED BY <1>3, <1>6, <2>2, RestoreStep
<1>7. CASE Try(f, "in", "set_fs", "done")
  BY <1>0, <1>1, <1>2, <1>7, PlainTry
<1> QED BY <1>4, <1>5, <1>6, <1>7 DEF routing_ioctl

(* The calls of the kernel itself. *)
LEMMA KernelCallStep ==
  ASSUME IoInv, NEW f \in KernelCalls, KernelCall(f), UNCHANGED <<umem, rxmem>>
  PROVE  IoInv'
<1>0. umem' \in Int /\ rxmem' \in Int
  BY DEF IoInv, IoTypes
<1>1. /\ "proto" \notin SdLabels /\ "restore" \notin SdLabels
      /\ Raised(f, "proto") /\ Raised(f, "restore") /\ ~Locked(f, "proto") /\ ~Locked(f, "restore")
  BY DEF SdLabels, Raised, Locked, KernelCalls
<1>2. /\ "done" \notin SdLabels /\ ~Raised(f, "in") /\ ~Raised(f, "done")
      /\ ~Locked(f, "in") /\ ~Locked(f, "done")
  BY OutsideFacts DEF Outside
<1>3. CASE RaiseLimit(f, "in", "proto")
  BY <1>1, <1>2, <1>3, RaiseStep
<1>4. CASE Try(f, "proto", "restore", "restore")
  BY <1>0, <1>1, <1>4, TryStep
<1>5. CASE RestoreLimit(f, "restore", "done")
  BY <1>1, <1>2, <1>5, RestoreStep
<1> QED BY <1>3, <1>4, <1>5 DEF KernelCall

(* The interface list, under the rtnl lock. *)
LEMMA IfconfStep ==
  ASSUME IoInv, compat_dev_ifconf, UNCHANGED <<umem, rxmem>>
  PROVE  IoInv'
<1> DEFINE f == "compat_dev_ifconf"
<1>0. umem' \in Int /\ rxmem' \in Int
  BY DEF IoInv, IoTypes
<1>1. Outside(f, "in") /\ Outside(f, "lock") /\ Outside(f, "out") /\ Outside(f, "done")
  BY OutsideFacts
<1>2. /\ "dev" \notin SdLabels /\ "unlock" \notin SdLabels
      /\ ~Raised(f, "dev") /\ ~Raised(f, "unlock") /\ Locked(f, "dev") /\ Locked(f, "unlock")
  BY DEF SdLabels, Raised, Locked, KernelCalls
<1>3. CASE Try(f, "in", "lock", "done")
  BY <1>0, <1>1, <1>3, OutTry
<1>4. CASE rtnl_lock(f, "lock", "dev")
  <2>1. ~rtnl_unlock(f, "lock", "dev")
    BY <1>4 DEF rtnl_lock, rtnl_unlock, IoInv, IoTypes
  <2>2. Raised(f, "dev") <=> Raised(f, "lock")
    BY <1>1, <1>2 DEF Outside
  <2> QED BY <1>2, <1>4, <2>1, <2>2, LockStep
<1>5. CASE Try(f, "dev", "unlock", "unlock")
  BY <1>0, <1>2, <1>5, TryStep
<1>6. CASE rtnl_unlock(f, "unlock", IF io.err THEN "done" ELSE "out")
  <2>1. PICK l \in {"done", "out"} : rtnl_unlock(f, "unlock", l)
    BY <1>6
  <2>2. ~rtnl_lock(f, "unlock", l)
    BY <2>1 DEF rtnl_lock, rtnl_unlock, IoInv, IoTypes
  <2>3. /\ l \notin SdLabels /\ ~Locked(f, l)
        /\ Raised(f, l) <=> Raised(f, "unlock")
    BY <1>1, <1>2, <2>1 DEF Outside
  <2> QED BY <2>1, <2>2, <2>3, LockStep
<1>7. CASE Try(f, "out", "done", "done")
  BY <1>0, <1>1, <1>7, OutTry
<1> QED BY <1>3, <1>4, <1>5, <1>6, <1>7 DEF compat_dev_ifconf

(* The functions that only copy and call a device, and the two that pass   *)
(* the call on.                                                            *)
LEMMA TranslateStep ==
  ASSUME IoInv, UNCHANGED <<umem, rxmem>>,
         compat_siocwandev \/ compat_ifr_data_ioctl \/ compat_sioc_ifmap \/ old_bridge_ioctl
  PROVE  IoInv'
<1>0. umem' \in Int /\ rxmem' \in Int
  BY DEF IoInv, IoTypes
<1>1. PICK f \in {"compat_siocwandev", "compat_ifr_data_ioctl", "compat_sioc_ifmap", "old_bridge_ioctl"},
           l \in {"in", "dev", "out"}, ok \in {"dev", "out", "done"} : Try(f, l, ok, "done")
  BY DEF compat_siocwandev, compat_ifr_data_ioctl, compat_sioc_ifmap, old_bridge_ioctl
<1>2. /\ l \in PlainLabels \ {"done"} /\ ok \in PlainLabels /\ "done" \in PlainLabels
      /\ f \notin KernelCalls \union {"compat_dev_ifconf"}
  BY DEF PlainLabels, KernelCalls
<1> QED BY <1>0, <1>1, <1>2, PlainTry

(* sock_do_ioctl with a pointer of the caller. *)
LEMMA SocketStep ==
  ASSUME IoInv, SockDoIoctl, UNCHANGED <<umem, rxmem>>
  PROVE  IoInv'
<1> DEFINE f == "sock_do_ioctl"
<1>0. umem' \in Int /\ rxmem' \in Int
  BY DEF IoInv, IoTypes
<1>1. f \in SdCallers /\ f \notin Raisers /\ f \notin KernelCalls \union {"compat_dev_ifconf"}
  BY DEF SdCallers, Raisers, KernelCalls, Stamps
<1>2. "sd_return" \in SdLabels /\ "done" \in PlainLabels
  BY DEF SdLabels, PlainLabels
<1>3. Outside(f, "done") /\ ~Raised(f, "sd_return") /\ ~Locked(f, "sd_return")
  BY <1>1, <1>2, OutsideFacts, SdFacts
<1>4. CASE sock_do_ioctl(f)
  BY <1>1, <1>4, SockDoStep
<1>5. CASE At(f, "sd_return") /\ Goto("done")
  <2>1. /\ "done" \notin SdLabels
        /\ Raised(f, "done") <=> Raised(f, "sd_return")
        /\ Locked(f, "done") <=> Locked(f, "sd_return")
    BY <1>3 DEF Outside
  <2> QED BY <1>0, <1>5, <2>1, GotoStep
<1> QED BY <1>4, <1>5 DEF SockDoIoctl

(* The fields of the call. *)
LEMMA IdleFields ==
  DOMAIN IoIdle = {"fn", "at", "err", "fs", "entry", "old", "rtnl", "size", "copied"}
BY DEF IoIdle

(* A call that begins, under its own name or under that of a translation. *)
LEMMA BeginStep ==
  ASSUME NEW f \in Translated \union UserCalls, NEW e \in BOOLEAN, UNCHANGED <<umem, rxmem>>, IoInv,
         io'.fn = f, io'.at = First(f), io'.fs = "user", io'.entry = "user", io'.rtnl = FALSE,
         io'.err = e, io'.size = 0, io'.copied = 0, DOMAIN io' = DOMAIN IoIdle
  PROVE  IoInv'
<1>0. IoInv => umem \in Int /\ rxmem \in Int
  BY DEF IoInv, IoTypes
<1>1. IoTypes'
  <2>1. io'.err \in BOOLEAN /\ io'.rtnl \in BOOLEAN
    BY Zenon
  <2>2. io'.size \in Int /\ io'.copied \in Int /\ umem' \in Int /\ rxmem' \in Int
    BY <1>0
  <2> QED BY <2>1, <2>2, IdleFields DEF IoTypes
<1>2. ~Raised(io'.fn, io'.at) /\ ~Locked(io'.fn, io'.at) /\ (io'.at \in SdLabels => io'.fn = "sock_do_ioctl")
  BY DEF First, Raised, Locked, SdLabels, Raisers, Stamps, KernelCalls, Translated, UserCalls, EthtoolCmds
<1>3. LimitByLabel'
  BY <1>2 DEF LimitByLabel, Raised, Locked, SdCallers
<1>4. FreshSizes' /\ CopyFits'
  BY UserCopyAssumption DEF FreshSizes, CopyFits
<1> QED BY <1>1, <1>3, <1>4 DEF IoInv

(* The translation is chosen. *)
LEMMA CompatStep ==
  ASSUME IoInv, compat_sock_ioctl, UNCHANGED <<umem, rxmem>>
  PROVE  IoInv'
<1> DEFINE f == "compat_sock_ioctl"
<1>0. umem' \in Int /\ rxmem' \in Int
  BY DEF IoInv, IoTypes
<1>1. CASE Try(f, "in", "done", "done")
  <2>1. "in" \in PlainLabels \ {"done"} /\ "done" \in PlainLabels /\ f \notin KernelCalls \union {"compat_dev_ifconf"}
    BY DEF PlainLabels, KernelCalls
  <2> QED BY <1>0, <1>1, <2>1, PlainTry
<1>2. CASE At(f, "in") /\ compat_sock_ioctl_trans
  <2>1. PICK g \in Translated : io' = [io EXCEPT !.fn = g, !.at = First(g)]
    BY <1>2 DEF compat_sock_ioctl_trans
  <2>2. io.fn = f /\ io.at = "in"
    BY <1>2 DEF At
  <2>3. /\ io'.fn = g /\ io'.at = First(g) /\ io'.fs = io.fs /\ io'.entry = io.entry
        /\ io'.rtnl = io.rtnl /\ io'.err = io.err /\ io'.size = io.size /\ io'.copied = io.copied
        /\ DOMAIN io' = DOMAIN IoIdle
    BY <2>1 DEF IoInv, IoTypes, IoIdle
  <2>4. /\ ~Raised(f, "in") /\ ~Locked(f, "in") /\ f \notin KernelCalls
    BY DEF Raised, Locked, Raisers, Stamps, KernelCalls, SdLabels
  <2>5. io.fs = "user" /\ io.entry = "user" /\ io.rtnl = FALSE
    BY <2>2, <2>4 DEF IoInv, LimitByLabel, IoTypes
  <2>6. io.size = 0 /\ io.copied = 0 /\ io.err \in BOOLEAN
    BY <2>2 DEF IoInv, FreshSizes, IoTypes
  <2> QED BY <2>3, <2>5, <2>6, BeginStep
<1> QED BY <1>1, <1>2 DEF compat_sock_ioctl

(* A call begins. *)
LEMMA StartStep ==
  ASSUME IoInv, IoStart
  PROVE  IoInv'
<1>0. UNCHANGED <<umem, rxmem>>
  BY DEF IoStart
<1>1. CASE \E f \in UserCalls : io' = [IoIdle EXCEPT !.fn = f, !.at = First(f)]
  <2>1. PICK f \in UserCalls : io' = [IoIdle EXCEPT !.fn = f, !.at = First(f)]
    BY <1>1
  <2>2. /\ io'.fn = f /\ io'.at = First(f) /\ io'.fs = "user" /\ io'.entry = "user"
        /\ io'.rtnl = FALSE /\ io'.err = FALSE /\ io'.size = 0 /\ io'.copied = 0
        /\ DOMAIN io' = DOMAIN IoIdle
    BY <2>1 DEF IoIdle
  <2> QED BY <1>0, <2>2, BeginStep
<1>2. CASE \E f \in KernelCalls, l \in {"user", "kernel"} :
             io' = [IoIdle EXCEPT !.fn = f, !.at = "in", !.fs = l, !.entry = l]
  <2>1. PICK f \in KernelCalls, l \in {"user", "kernel"} :
               io' = [IoIdle EXCEPT !.fn = f, !.at = "in", !.fs = l, !.entry = l]
    BY <1>2
  <2>2. /\ io'.fn = f /\ io'.at = "in" /\ io'.fs = io'.entry
        /\ io'.rtnl = FALSE /\ io'.err = FALSE /\ io'.size = 0 /\ io'.copied = 0
        /\ DOMAIN io' = DOMAIN IoIdle
    BY <2>1 DEF IoIdle
  <2>3. IoTypes'
    <3>1. io'.err \in BOOLEAN /\ io'.rtnl \in BOOLEAN
      BY <2>2, Zenon
    <3>2. io'.size \in Int /\ io'.copied \in Int /\ umem' \in Int /\ rxmem' \in Int
      BY <1>0, <2>2 DEF IoInv, IoTypes
    <3> QED BY <2>2, <3>1, <3>2, IdleFields DEF IoTypes
  <2>4. ~Raised(f, "in") /\ ~Locked(f, "in") /\ "in" \notin SdLabels
    BY OutsideFacts DEF Outside
  <2>5. LimitByLabel'
    BY <2>2, <2>4 DEF LimitByLabel, Raised, Locked
  <2>6. FreshSizes' /\ CopyFits'
    BY <2>2, UserCopyAssumption DEF FreshSizes, CopyFits
  <2> QED BY <2>3, <2>5, <2>6 DEF IoInv
<1> QED BY <1>1, <1>2 DEF IoStart

(* A call has returned. *)
LEMMA IdleHolds ==
  ASSUME io' = IoIdle, umem' \in Int, rxmem' \in Int
  PROVE  IoInv'
<1>1. IoTypes'
  BY DEF IoTypes, IoIdle
<1>2. ~Raised("none", "idle") /\ ~Locked("none", "idle") /\ "idle" \notin SdLabels
  BY DEF Raised, Locked, Raisers, Stamps, KernelCalls, SdLabels
<1>3. LimitByLabel'
  BY <1>2 DEF LimitByLabel, IoIdle, Raised, Locked
<1>4. FreshSizes' /\ CopyFits'
  BY UserCopyAssumption DEF FreshSizes, CopyFits, IoIdle
<1> QED BY <1>1, <1>3, <1>4 DEF IoInv

(* A count that is taken as unsigned is a natural number. *)
LEMMA UnsignedIsNat ==
  ASSUME NEW c \in Int
  PROVE  Unsigned(c) \in Nat
BY UserCopyAssumption DEF Unsigned

(* The commands of ethtool: the buffer is measured once, and the rules     *)
(* that go out are cut to it.                                              *)
LEMMA EthtoolStep ==
  ASSUME IoInv, NEW f \in EthtoolCmds, ethtool_ioctl(f), UNCHANGED umem
  PROVE  IoInv'
<1> DEFINE mid == {"in", "count", "name", "refetch", "dev", "out", "rules"}
<1>0. umem \in Int /\ rxmem \in Int /\ umem' \in Int /\ DOMAIN io = DOMAIN IoIdle
  BY IdleFields DEF IoInv, IoTypes
<1>1. /\ f \notin KernelCalls \union {"compat_dev_ifconf"} /\ f \notin Stamps
      /\ f \notin {"none", "compat_sock_ioctl"} /\ f \notin {"move_addr_to_kernel", "move_addr_to_user"}
  BY DEF KernelCalls, EthtoolCmds, Stamps
<1>2. mid \subseteq PlainLabels \ {"done"} /\ "done" \in PlainLabels
  BY DEF PlainLabels
<1>3. \A l \in mid \union {"done"} : l \notin SdLabels /\ ~Raised(f, l) /\ ~Locked(f, l)
  BY <1>1, <1>2, OutsideFacts DEF Outside
<1>4. CASE \E l \in mid, ok \in mid \union {"done"} : Try(f, l, ok, "done") /\ rxmem' \in Int
  <2>1. PICK l \in mid, ok \in mid \union {"done"} : Try(f, l, ok, "done") /\ rxmem' \in Int
    BY <1>4
  <2> QED BY <1>0, <1>1, <1>2, <2>1, PlainTry
<1>5. CASE IoCount(f, "count", "name")
  <2>1. io.fn = f /\ io.at = "count" /\ rxmem' \in Int /\ io.copied = 0 /\ io.at # "done"
    BY <1>0, <1>5 DEF IoCount, At, IoInv, FreshSizes
  <2>2. CASE Unsigned(umem) <= MaxRules /\ io' = [io EXCEPT !.at = "name", !.size = Unsigned(umem)]
    <3>1. Unsigned(umem) \in Nat
      BY <1>0, UnsignedIsNat
    <3>2. PICK n \in Int, k \in Int :
            /\ n = Unsigned(umem) /\ k = 0 /\ 0 <= k /\ k <= n /\ n <= MaxRules
            /\ io' = [io EXCEPT !.at = "name", !.size = n, !.copied = k]
      <4>1. io' = [io EXCEPT !.at = "name", !.size = Unsigned(umem), !.copied = 0]
        BY <2>1, <2>2 DEF IoInv, IoTypes
      <4>2. Unsigned(umem) \in Int /\ 0 \in Int /\ 0 <= 0 /\ 0 <= Unsigned(umem) /\ Unsigned(umem) <= MaxRules
        BY <2>2, <3>1
      <4> QED BY <4>1, <4>2, Zenon
    <3>3. /\ "name" \notin SdLabels
          /\ Raised(f, "name") <=> Raised(f, "count")
          /\ Locked(f, "name") <=> Locked(f, "count")
      BY <1>3
    <3> HIDE DEF mid
    <3> QED BY <1>0, <1>1, <2>1, <3>2, <3>3, SizeStep
  <2>3. CASE io' = [io EXCEPT !.at = "done", !.err = TRUE]
    BY <1>0, <1>3, <2>1, <2>3, MoveStep
  <2> QED BY <1>5, <2>2, <2>3 DEF IoCount
<1>6. CASE IoRules(f, "rules")
  <2>1. io.fn = f /\ io.at = "rules" /\ rxmem' \in Int /\ io.copied = 0 /\ io.at # "done"
    BY <1>0, <1>6 DEF IoRules, At, IoInv, FreshSizes
  <2>2. io.size \in Int /\ 0 <= io.size /\ io.size <= MaxRules
    BY <1>1, <2>1 DEF IoInv, IoTypes, CopyFits
  <2>3. CASE io' = [io EXCEPT !.at = "done", !.copied =
                      IF Unsigned(rxmem) < io.size THEN Unsigned(rxmem) ELSE io.size]
    <3>1. Unsigned(rxmem) \in Nat
      BY <1>0, UnsignedIsNat
    <3> DEFINE k == IF Unsigned(rxmem) < io.size THEN Unsigned(rxmem) ELSE io.size
    <3>2. k \in Int /\ 0 <= k /\ k <= io.size
      BY <2>2, <3>1
    <3> HIDE DEF k
    <3>3. io' = [io EXCEPT !.at = "done", !.size = io.size, !.copied = k]
      BY <2>3 DEF IoInv, IoTypes, k
    <3>4. /\ "done" \notin SdLabels
          /\ Raised(f, "done") <=> Raised(f, "rules")
          /\ Locked(f, "done") <=> Locked(f, "rules")
      BY <1>3
    <3> HIDE DEF mid
    <3> QED BY <1>0, <1>1, <2>1, <2>2, <3>2, <3>3, <3>4, SizeStep
  <2>4. CASE io' = [io EXCEPT !.at = "done", !.err = TRUE]
    BY <1>0, <1>3, <2>1, <2>4, MoveStep
  <2> QED BY <1>6, <2>3, <2>4 DEF IoRules
<1>7. CASE /\ Try(f, "in", CASE f = "ethtool_all" -> "count" [] OTHER -> "name", "done")
           /\ UNCHANGED rxmem
  BY <1>0, <1>4, <1>7
<1>8. CASE /\ Try(f, "name", IF f = "ethtool_plain" THEN "dev" ELSE "refetch", "done")
           /\ UNCHANGED rxmem
  BY <1>0, <1>4, <1>8
<1>9. CASE IoRefetch(f, "refetch", "dev")
  BY <1>0, <1>4, <1>9 DEF IoRefetch
<1>10. CASE IoDevice(f, "dev", IF f \in {"ethtool_plain", "ethtool_del"} THEN {"done"} ELSE {"out"})
  <2>1. PICK ok \in {"done", "out"} : Try(f, "dev", ok, "done")
    BY <1>10 DEF IoDevice
  <2>2. rxmem' \in Int
    BY <1>0, <1>10, UserCopyAssumption DEF IoDevice, Counts
  <2> QED BY <1>4, <2>1, <2>2
<1>11. CASE /\ Try(f, "out", IF f = "ethtool_all" THEN "rules" ELSE "done", "done")
            /\ UNCHANGED rxmem
  BY <1>0, <1>4, <1>11
<1> QED
  BY <1>5, <1>6, <1>7, <1>8, <1>9, <1>10, <1>11 DEF ethtool_ioctl

(* The address that comes in, and the one that goes out. *)
LEMMA AddressStep ==
  ASSUME IoInv, IoAddress
  PROVE  IoInv'
<1>0. umem \in Int /\ rxmem' \in Int /\ MaxAddr \in Nat
  BY UserCopyAssumption DEF IoInv, IoTypes, IoAddress
<1> DEFINE calls == {"move_addr_to_kernel", "move_addr_to_user"}
           mid == {"in", "proto", "getlen", "out", "putlen"}
<1>1. \A f \in calls : /\ f \notin KernelCalls \union {"compat_dev_ifconf"} /\ f \notin Stamps
                        /\ f \notin {"none", "compat_sock_ioctl"} /\ f \notin EthtoolCmds
  BY DEF KernelCalls, EthtoolCmds, Stamps
<1>2. mid \subseteq PlainLabels \ {"done"} /\ "done" \in PlainLabels
  BY DEF PlainLabels
<1>3. \A f \in calls, l \in mid \union {"done"} : l \notin SdLabels /\ ~Raised(f, l) /\ ~Locked(f, l)
  BY <1>1, <1>2, OutsideFacts DEF Outside
<1>4. ASSUME NEW f \in calls, NEW l \in mid, NEW ok \in mid \union {"done"},
             Try(f, l, ok, "done"), UNCHANGED umem
      PROVE  IoInv'
  BY <1>0, <1>1, <1>2, <1>4, PlainTry
<1>5. ASSUME NEW f \in calls, NEW l \in mid, NEW ok \in mid, At(f, l), UNCHANGED umem,
             NEW n \in 0..MaxAddr, NEW k \in 0..n, io' = [io EXCEPT !.at = ok, !.size = n, !.copied = k]
      PROVE  IoInv'
  <2>1. io.fn = f /\ io.at = l /\ io.at # "done"
    BY <1>5 DEF At
  <2>2. n \in Int /\ k \in Int /\ 0 <= k /\ k <= n /\ n <= MaxAddr
    BY <1>0
  <2> HIDE DEF calls, mid
  <2> QED BY <1>0, <1>1, <1>3, <1>5, <2>1, <2>2, SizeStep
<1>6. ASSUME NEW f \in calls, NEW l \in mid, At(f, l), umem' \in Int,
             io' = [io EXCEPT !.at = "done", !.err = TRUE] \/ Goto("done")
      PROVE  IoInv'
  <2>1. io.fn = f /\ io.at = l /\ io.at # "done" /\ io.err \in BOOLEAN
    BY <1>6 DEF At, IoInv, IoTypes
  <2>2. PICK e \in BOOLEAN : io' = [io EXCEPT !.at = "done", !.err = e]
    BY <1>6, <2>1 DEF Goto, IoInv, IoTypes
  <2> HIDE DEF calls, mid
  <2> QED BY <1>0, <1>3, <1>6, <2>1, <2>2, MoveStep
<1>7. CASE move_addr_to_kernel
  <2> DEFINE f == "move_addr_to_kernel"
  <2>1. CASE Try(f, "proto", "done", "done") /\ UNCHANGED umem
    BY <1>4, <2>1
  <2>2. CASE /\ At(f, "in") /\ UNCHANGED umem
             /\ \E ulen \in 0..MaxAddr :
                   io' = [io EXCEPT !.at = "proto", !.size = MaxAddr, !.copied = ulen]
    <3>1. PICK ulen \in 0..MaxAddr : io' = [io EXCEPT !.at = "proto", !.size = MaxAddr, !.copied = ulen]
      BY <2>2
    <3>2. MaxAddr \in 0..MaxAddr
      BY <1>0
    <3> QED BY <1>5, <2>2, <3>1, <3>2
  <2>3. CASE At(f, "in") /\ UNCHANGED umem /\ io' = [io EXCEPT !.at = "done", !.err = TRUE]
    BY <1>0, <1>6, <2>3
  <2> QED BY <1>7, <2>1, <2>2, <2>3 DEF move_addr_to_kernel
<1>8. CASE move_addr_to_user
  <2> DEFINE f == "move_addr_to_user"
  <2>1. CASE Try(f, "in", "getlen", "done") /\ UNCHANGED umem
    BY <1>4, <2>1
  <2>2. CASE Try(f, "out", "putlen", "done") /\ UNCHANGED umem
    BY <1>4, <2>2
  <2>3. ASSUME At(f, "getlen"), UNCHANGED umem, NEW klen \in 0..MaxAddr,
               LET len == IF umem > klen THEN klen ELSE umem
               IN  len >= 0 /\ io' = [io EXCEPT !.at = "out", !.size = klen, !.copied = len]
        PROVE  IoInv'
    <3> DEFINE len == IF umem > klen THEN klen ELSE umem
    <3>1. len \in 0..klen
      BY <1>0, <2>3
    <3>2. io' = [io EXCEPT !.at = "out", !.size = klen, !.copied = len]
      BY <2>3
    <3> HIDE DEF len
    <3> QED BY <1>5, <2>3, <3>1, <3>2
  <2>4. CASE At(f, "getlen") /\ UNCHANGED umem /\ io' = [io EXCEPT !.at = "done", !.err = TRUE]
    BY <1>0, <1>6, <2>4
  <2>5. CASE At(f, "putlen") /\ umem' = io.size /\ Goto("done")
    BY <1>6, <2>5 DEF IoInv, IoTypes
  <2>6. CASE At(f, "putlen") /\ io' = [io EXCEPT !.at = "done", !.err = TRUE] /\ UNCHANGED umem
    BY <1>0, <1>6, <2>6
  <2> QED BY <1>8, <2>1, <2>2, <2>3, <2>4, <2>5, <2>6 DEF move_addr_to_user
<1> QED BY <1>7, <1>8 DEF IoAddress

(* The invariant holds throughout. *)
LEMMA IoInvariant == IoSpec => []IoInv
<1>1. IoInit => IoInv
  <2>1. IoInit => IoTypes
    BY IdleFields DEF IoInit, IoTypes, IoIdle
  <2>2. ~Raised("none", "idle") /\ ~Locked("none", "idle") /\ "idle" \notin SdLabels
    BY DEF Raised, Locked, Raisers, Stamps, KernelCalls, SdLabels
  <2>3. IoInit => LimitByLabel
    BY <2>2 DEF IoInit, LimitByLabel, IoIdle
  <2>4. IoInit => FreshSizes /\ CopyFits
    BY UserCopyAssumption DEF IoInit, FreshSizes, CopyFits, IoIdle
  <2> QED BY <2>1, <2>3, <2>4 DEF IoInv
<1>2. IoInv /\ [IoNext]_io_vars => IoInv'
  <2> SUFFICES ASSUME IoInv, [IoNext]_io_vars PROVE IoInv'
    OBVIOUS
  <2>1. umem \in Int /\ rxmem \in Int
    BY DEF IoInv, IoTypes
  <2>2. CASE IoStart
    BY <2>2, StartStep
  <2>3. CASE IoCopy
    <3>1. UNCHANGED <<umem, rxmem>>
      BY <2>3 DEF IoCopy
    <3>2. CASE \E f \in KernelCalls : KernelCall(f)
      BY <3>1, <3>2, KernelCallStep
    <3>3. kernel_getsockopt \/ kernel_setsockopt \/ kernel_recvmsg => \E f \in KernelCalls : KernelCall(f)
      BY DEF kernel_getsockopt, kernel_setsockopt, kernel_recvmsg, KernelCalls
    <3> QED
      BY <2>3, <3>1, <3>2, <3>3, SocketStep, RoutingStep, IfconfStep, TranslateStep, CompatStep, StampStep
         DEF IoCopy
  <2>4. CASE IoEthtool
    BY <2>4, EthtoolStep DEF IoEthtool
  <2>5. CASE IoAddress
    BY <2>5, AddressStep
  <2>6. CASE IoReturn
    BY <2>1, <2>6, IdleHolds DEF IoReturn
  <2>7. CASE CallerWrites
    <3>1. io' = io /\ umem' \in Int /\ rxmem' \in Int
      BY <2>1, <2>7, UserCopyAssumption DEF CallerWrites, Counts
    <3> QED
      BY <3>1 DEF IoInv, IoTypes, LimitByLabel, FreshSizes, CopyFits, Raised, Locked
  <2>8. CASE UNCHANGED io_vars
    BY <2>8 DEF io_vars, IoInv, IoTypes, LimitByLabel, FreshSizes, CopyFits, Raised, Locked
  <2> QED
    BY <2>2, <2>3, <2>4, <2>5, <2>6, <2>7, <2>8 DEF IoNext
<1> QED
  BY <1>1, <1>2, PTL DEF IoSpec

(* The address limit and the rtnl lock (set_fs in do_siocgstamp, do_siocgstampns, *)
(* routing_ioctl and the kernel_* calls): for any sizes, the limit fits what is    *)
(* copied, and no exit of any of the functions keeps it or the lock.               *)
THEOREM LimitsRestored == IoSpec => []LimitFits
<1>1. IoInv => LimitFits
  <2> SUFFICES ASSUME IoInv PROVE LimitFits
    OBVIOUS
  <2>1. ASSUME OnUserPointer PROVE io.fs = "user"
    <3>1. ~Raised(io.fn, io.at) /\ io.fn \notin KernelCalls
      BY <2>1 DEF OnUserPointer, ArgCopies, Raised, Raisers, Stamps, KernelCalls, SdLabels
    <3> QED BY <3>1 DEF IoInv, LimitByLabel
  <2>2. ASSUME OnKernelObject PROVE io.fs = "kernel"
    <3>1. io.at \in ArgCopies => io.at \in SdLabels
      BY DEF ArgCopies, SdLabels
    <3>2. Raised(io.fn, io.at)
      BY <2>2, <3>1 DEF OnKernelObject, IoInv, LimitByLabel, Raised, SdCallers
    <3> QED BY <3>2 DEF IoInv, LimitByLabel
  <2>3. ASSUME io.at = "done" PROVE io.fs = io.entry /\ ~io.rtnl
    <3>1. ~Raised(io.fn, "done") /\ ~Locked(io.fn, "done")
      BY DEF Raised, Locked, SdLabels
    <3> QED BY <2>3, <3>1 DEF IoInv, LimitByLabel
  <2> QED BY <2>1, <2>2, <2>3 DEF LimitFits
<1> QED
  BY <1>1, IoInvariant, PTL

(* Sizes (ethtool_ioctl, move_addr_to_user): for any bounds, and whatever *)
(* the caller writes to its memory during the call, the copies fit.       *)
THEOREM CopiesFit == IoSpec => []CopyFits
<1>1. IoInv => CopyFits
  BY DEF IoInv
<1> QED
  BY <1>1, IoInvariant, PTL

-----------------------------------------------------------------------------
(* The process tree. *)

(* The tasks: a parent is older than its children, and the lists hold each *)
(* task once, under its parent, the older first.                           *)
TasksInv ==
  /\ parent \in Seq(Nat) /\ Len(parent) \in 1..MaxPid
  /\ \A t \in 1..Len(parent) : parent[t] \in 0..t - 1
  /\ children \in [0..MaxPid -> Seq(Nat)]
  /\ \A p \in 0..MaxPid : \A i \in 1..Len(children[p]) :
       /\ children[p][i] \in 1..Len(parent)
       /\ parent[children[p][i]] = p
       /\ \A j \in 1..Len(children[p]) : i < j => children[p][i] < children[p][j]
  /\ \A t \in 1..Len(parent) :
       \E i \in 1..Len(children[parent[t]]) : children[parent[t]][i] = t

Printed(ls, t) == \E k \in 1..Len(ls) : ls[k].task = t

PtTypes ==
  /\ walk \in Seq([task : Nat, space : Nat, done : Nat])
  /\ lines \in Seq([task : Nat, indent : Nat])
  /\ begun \in 0..Len(parent)
  /\ walk # <<>> => lines # <<>>
  /\ lines # <<>> => lines[1].task = 0
  /\ \A k \in 1..Len(lines) : lines[k].task \in 0..Len(parent)

(* The frames lead down the tree, and space is their depth. *)
Frames ==
  \A d \in 1..Len(walk) :
    /\ walk[d].task \in 0..Len(parent)
    /\ walk[d].space = d
    /\ d = 1 <=> walk[d].task = 0
    /\ walk[d].done \in 0..Len(children[walk[d].task])
    /\ \A e \in 1..Len(walk) : d < e => walk[d].task < walk[e].task
(* Of the children of a frame's task those are printed that it has done. *)
DonePrinted ==
  \A d \in 1..Len(walk) : \A i \in 1..Len(children[walk[d].task]) :
    Printed(lines, children[walk[d].task][i]) <=> i <= walk[d].done
ParentsPrinted == \A t \in 1..Len(parent) : Printed(lines, t) => Printed(lines, parent[t])
(* A task that was left has its old children printed. *)
LeftComplete ==
  \A t \in 1..begun :
    Printed(lines, parent[t]) /\ (\A d \in 1..Len(walk) : walk[d].task # parent[t]) => Printed(lines, t)
(* Since the line of a frame's task everything was indented deeper. *)
LinesBelow ==
  \A d \in 1..Len(walk) : \E j \in 1..Len(lines) :
    /\ lines[j].task = walk[d].task
    /\ lines[j].indent = Indent(d - 1)
    /\ \A i \in j + 1..Len(lines) : lines[i].indent >= d - 1
PtInv == /\ TasksInv /\ PtTypes /\ Frames /\ DonePrinted /\ ParentsPrinted 
         /\ LeftComplete /\ LinesBelow /\ TreeReadable

(* A set of natural numbers that is not empty has a least one. *)
LEMMA NatMin ==
  ASSUME NEW T, T \subseteq Nat, T # {}
  PROVE  \E x \in T : \A y \in T : x <= y
<1> DEFINE R == OpToRel(<, Nat)
<1>1. IsWellFoundedOn(R, Nat)
  BY NatLessThanWellFounded
<1>2. \A x, y \in Nat : <<x, y>> \in R <=> x < y
  BY DEF OpToRel
<1> HIDE DEF R
<1>3. PICK x \in T : \A y \in T : ~(<<y, x>> \in R)
  BY <1>1, WFMin
<1>4. \A y \in T : x \in Nat /\ y \in Nat /\ ~(y < x)
  BY <1>2, <1>3
<1> QED
  BY <1>3, <1>4

(* What a line more changes. *)
LEMMA NextLine ==
  ASSUME PtTypes, NEW c \in Nat, NEW s \in Nat,
         lines' = Append(lines, [task |-> c, indent |-> Indent(s)])
  PROVE  /\ lines' \in Seq([task : Nat, indent : Nat])
         /\ Len(lines) \in Nat /\ Len(lines') = Len(lines) + 1
         /\ \A k \in 1..Len(lines) : lines'[k] = lines[k]
         /\ lines'[Len(lines) + 1].task = c
         /\ lines'[Len(lines) + 1].indent = Indent(s)
         /\ \A t : Printed(lines', t) <=> Printed(lines, t) \/ t = c
<1> DEFINE e == [task |-> c, indent |-> Indent(s)]
<1>1. e \in [task : Nat, indent : Nat] /\ e.task = c /\ e.indent = Indent(s)
  BY DEF Indent
<1>2. lines \in Seq([task : Nat, indent : Nat]) /\ Len(lines) \in Nat
  BY DEF PtTypes
<1> HIDE DEF e
<1>3. lines' = Append(lines, e)
  BY DEF e
<1>4. /\ lines' \in Seq([task : Nat, indent : Nat])
      /\ Len(lines') = Len(lines) + 1
      /\ \A k \in 1..Len(lines) : lines'[k] = lines[k]
      /\ lines'[Len(lines) + 1] = e
  BY <1>1, <1>2, <1>3, AppendProperties
<1>5. ASSUME NEW t PROVE Printed(lines', t) <=> Printed(lines, t) \/ t = c
  <2>1. ASSUME NEW k \in 1..Len(lines'), lines'[k].task = t PROVE Printed(lines, t) \/ t = c
    <3>1. CASE k = Len(lines) + 1
      BY <1>1, <1>4, <2>1, <3>1
    <3>2. CASE k \in 1..Len(lines)
      BY <1>4, <2>1, <3>2 DEF Printed
    <3> QED
      BY <1>2, <1>4, <3>1, <3>2
  <2>2. ASSUME NEW k \in 1..Len(lines), lines[k].task = t PROVE Printed(lines', t)
    <3>1. k \in 1..Len(lines') /\ lines'[k].task = t
      BY <1>2, <1>4, <2>2
    <3> QED
      BY <3>1 DEF Printed
  <2>3. ASSUME t = c PROVE Printed(lines', t)
    <3>1. Len(lines) + 1 \in 1..Len(lines') /\ lines'[Len(lines) + 1].task = t
      BY <1>1, <1>2, <1>4, <2>3
    <3> QED
      BY <3>1 DEF Printed
  <2> QED
    BY <2>1, <2>2, <2>3 DEF Printed
<1> QED
  BY <1>1, <1>2, <1>4, <1>5

(* A fork keeps the invariant: the new task is no one's line, and comes    *)
(* after the children that a frame has done.                               *)
LEMMA ForkStep ==
  ASSUME PtInv, fork
  PROVE  PtInv'
<1> DEFINE n == Len(parent)
<1> USE ProcTreeAssumption
<1>1. PICK p \in 0..n : /\ parent' = Append(parent, p)
                        /\ children' = [children EXCEPT ![p] = Append(@, n + 1)]
  BY DEF fork
<1>2. n < MaxPid /\ walk' = walk /\ lines' = lines /\ begun' = begun
  BY DEF fork
<1>3. /\ parent \in Seq(Nat) /\ n \in 1..MaxPid
      /\ \A t \in 1..n : parent[t] \in 0..t - 1
      /\ children \in [0..MaxPid -> Seq(Nat)]
  BY DEF PtInv, TasksInv
<1>4. /\ parent' \in Seq(Nat) /\ Len(parent') = n + 1
      /\ \A t \in 1..n : parent'[t] = parent[t]
      /\ parent'[n + 1] = p
  BY <1>1, <1>3, AppendProperties
<1>5. p \in 0..MaxPid /\ children[p] \in Seq(Nat) /\ n + 1 \in Nat
  BY <1>1, <1>2, <1>3
<1>6. /\ Append(children[p], n + 1) \in Seq(Nat)
      /\ Len(Append(children[p], n + 1)) = Len(children[p]) + 1
      /\ \A i \in 1..Len(children[p]) : Append(children[p], n + 1)[i] = children[p][i]
      /\ Append(children[p], n + 1)[Len(children[p]) + 1] = n + 1
  BY <1>5, AppendProperties
<1>7. /\ children' \in [0..MaxPid -> Seq(Nat)]
      /\ children'[p] = Append(children[p], n + 1)
      /\ \A q \in 0..MaxPid : q # p => children'[q] = children[q]
  BY <1>1, <1>3, <1>5, <1>6
<1>8. /\ Len(children'[p]) = Len(children[p]) + 1
      /\ \A i \in 1..Len(children[p]) : children'[p][i] = children[p][i]
      /\ children'[p][Len(children[p]) + 1] = n + 1
  BY <1>6, <1>7
<1>9. \A q \in 0..MaxPid : /\ Len(children[q]) \in Nat /\ Len(children'[q]) \in Nat
                           /\ Len(children[q]) <= Len(children'[q])
                           /\ \A i \in 1..Len(children[q]) : children'[q][i] = children[q][i]
  <2> SUFFICES ASSUME NEW q \in 0..MaxPid
               PROVE  /\ Len(children[q]) \in Nat /\ Len(children'[q]) \in Nat
                      /\ Len(children[q]) <= Len(children'[q])
                      /\ \A i \in 1..Len(children[q]) : children'[q][i] = children[q][i]
    OBVIOUS
  <2>1. Len(children[q]) \in Nat
    BY <1>3
  <2>2. CASE q = p
    BY <2>1, <2>2, <1>8
  <2>3. CASE q # p
    <3>1. children'[q] = children[q]
      BY <1>7, <2>3
    <3> QED
      BY <2>1, <3>1
  <2> QED
    BY <2>2, <2>3
<1>10. ASSUME NEW q \in 0..MaxPid, NEW i \in 1..Len(children'[q])
       PROVE  i \in 1..Len(children[q]) \/ (q = p /\ i = Len(children[p]) + 1)
  <2>1. Len(children[q]) \in Nat
    BY <1>9
  <2>2. CASE q = p
    BY <2>1, <2>2, <1>8, <1>10
  <2>3. CASE q # p
    <3>1. children'[q] = children[q]
      BY <1>7, <2>3
    <3> QED
      BY <3>1, <1>10
  <2> QED
    BY <2>2, <2>3
<1>11. \A q \in 0..MaxPid : \A i \in 1..Len(children[q]) :
         /\ children[q][i] \in 1..n
         /\ parent[children[q][i]] = q
         /\ \A j \in 1..Len(children[q]) : i < j => children[q][i] < children[q][j]
  BY DEF PtInv, TasksInv
<1> HIDE DEF n
<1>12. TasksInv'
  <2>1. \A t \in 1..n + 1 : parent'[t] \in 0..t - 1
    BY <1>1, <1>3, <1>4, SMTT(40)
  <2>2. ASSUME NEW q \in 0..MaxPid, NEW i \in 1..Len(children'[q])
        PROVE  /\ children'[q][i] \in 1..n + 1
               /\ parent'[children'[q][i]] = q
               /\ \A j \in 1..Len(children'[q]) : i < j => children'[q][i] < children'[q][j]
    <3>1. CASE i \in 1..Len(children[q])
      <4>1. children'[q][i] = children[q][i] /\ children[q][i] \in 1..n
            /\ parent[children[q][i]] = q
        BY <1>9, <1>11, <3>1
      <4>2. ASSUME NEW j \in 1..Len(children'[q]), i < j
            PROVE  children'[q][i] < children'[q][j]
        <5>1. CASE j \in 1..Len(children[q])
          BY <1>9, <1>11, <3>1, <4>2, <5>1
        <5>2. CASE q = p /\ j = Len(children[p]) + 1
          <6>1. children'[q][j] = n + 1
            BY <1>8, <5>2
          <6> QED
            BY <1>3, <4>1, <6>1, SMTT(40)
        <5> QED
          BY <1>10, <5>1, <5>2
      <4>3. children'[q][i] \in 1..n + 1 /\ parent'[children'[q][i]] = q
        <5>1. children'[q][i] \in 1..n
          BY <4>1
        <5>2. parent'[children'[q][i]] = parent[children'[q][i]]
          BY <1>4, <5>1
        <5> QED
          BY <1>3, <4>1, <5>1, <5>2
      <4> QED
        BY <4>2, <4>3
    <3>2. CASE q = p /\ i = Len(children[p]) + 1
      <4>1. children'[q][i] = n + 1
        BY <1>8, <3>2
      <4>2. \A j \in 1..Len(children'[q]) : ~(i < j)
        BY <1>8, <1>9, <3>2
      <4> QED
        BY <1>3, <1>4, <3>2, <4>1, <4>2
    <3> QED
      BY <1>10, <3>1, <3>2
  <2>3. ASSUME NEW t \in 1..n + 1
        PROVE  \E i \in 1..Len(children'[parent'[t]]) : children'[parent'[t]][i] = t
    <3>1. CASE t \in 1..n
      <4>1. PICK i \in 1..Len(children[parent[t]]) : children[parent[t]][i] = t
        BY <3>1 DEF PtInv, TasksInv, n
      <4>2. parent'[t] = parent[t] /\ parent[t] \in 0..MaxPid
        BY <1>3, <1>4, <3>1
      <4>3. i \in 1..Len(children'[parent[t]]) /\ children'[parent[t]][i] = t
        BY <1>9, <4>1, <4>2
      <4> QED
        BY <4>2, <4>3
    <3>2. CASE t = n + 1
      <4>1. Len(children[p]) + 1 \in 1..Len(children'[p])
            /\ children'[p][Len(children[p]) + 1] = t /\ parent'[t] = p
        BY <1>4, <1>5, <1>8, <1>9, <3>2
      <4> QED
        BY <4>1
    <3> QED
      BY <1>3, <3>1, <3>2
  <2>4. n + 1 \in 1..MaxPid
    BY <1>2, <1>3 DEF n
  <2>5. Len(parent)' = n + 1
    BY <1>4
  <2> QED
    BY <1>4, <1>7, <2>1, <2>2, <2>3, <2>4, <2>5 DEF TasksInv
<1>13. \A t : Printed(lines', t) <=> Printed(lines, t)
  BY <1>2 DEF Printed
<1>14. /\ begun \in 0..n
       /\ \A k \in 1..Len(lines) : lines[k].task \in 0..n
       /\ Len(lines) \in Nat
  BY SMTT(40) DEF PtInv, PtTypes, n
<1>15. PtTypes'
  <2>1. begun' \in 0..Len(parent')
    BY <1>2, <1>3, <1>4, <1>14
  <2>2. \A k \in 1..Len(lines') : lines'[k].task \in 0..Len(parent')
    BY <1>2, <1>3, <1>4, <1>14
  <2>3. PtTypes
    BY DEF PtInv
  <2> QED
    BY <1>2, <2>1, <2>2, <2>3 DEF PtTypes
<1>16. ~Printed(lines, n + 1)
  BY <1>3, <1>14 DEF Printed
<1>17. Frames /\ DonePrinted /\ ParentsPrinted /\ LeftComplete /\ LinesBelow /\ TreeReadable
  BY DEF PtInv
<1>18. \A d \in 1..Len(walk) : walk[d].task \in 0..n /\ walk[d].task \in 0..MaxPid
  BY <1>3, <1>17 DEF Frames, n
<1>19. Frames'
  <2> SUFFICES ASSUME NEW d \in 1..Len(walk)
               PROVE  /\ walk[d].task \in 0..Len(parent')
                      /\ walk[d].done \in 0..Len(children'[walk[d].task])
    BY <1>2, <1>17 DEF Frames
  <2>1. walk[d].task \in 0..n /\ walk[d].task \in 0..MaxPid
        /\ walk[d].done \in 0..Len(children[walk[d].task])
    BY <1>17, <1>18 DEF Frames
  <2> DEFINE q == walk[d].task
  <2>2. /\ Len(children[q]) \in Nat /\ Len(children'[q]) \in Nat
        /\ Len(children[q]) <= Len(children'[q])
    BY <1>9, <2>1
  <2>3. q \in 0..Len(parent')
    BY <1>3, <1>4, <2>1, SMTT(40)
  <2>4. walk[d].done \in 0..Len(children'[q])
    BY <2>1, <2>2
  <2> QED
    BY <2>3, <2>4
<1>20. DonePrinted'
  <2> SUFFICES ASSUME NEW d \in 1..Len(walk), NEW i \in 1..Len(children'[walk[d].task])
               PROVE  Printed(lines, children'[walk[d].task][i]) <=> i <= walk[d].done
    BY <1>2, <1>13 DEF DonePrinted
  <2> DEFINE q == walk[d].task
  <2>0. q \in 0..MaxPid /\ walk[d].done \in 0..Len(children[q])
    BY <1>17, <1>18 DEF Frames
  <2>1. CASE i \in 1..Len(children[q])
    <3>1. children'[q][i] = children[q][i]
      BY <1>9, <2>0, <2>1
    <3> QED
      BY <1>17, <2>1, <3>1 DEF DonePrinted
  <2>2. CASE q = p /\ i = Len(children[p]) + 1
    <3>1. children'[q][i] = n + 1
      BY <1>8, <2>2
    <3>2. ~(i <= walk[d].done)
      BY <1>9, <2>0, <2>2
    <3> QED
      BY <1>16, <3>1, <3>2
  <2> QED
    BY <1>10, <2>0, <2>1, <2>2
<1>21. ParentsPrinted'
  <2> SUFFICES ASSUME NEW t \in 1..n + 1, Printed(lines, t) PROVE Printed(lines, parent'[t])
    BY <1>4, <1>13 DEF ParentsPrinted
  <2>1. t \in 1..n
    BY <1>3, <1>16
  <2> QED
    BY <1>4, <1>17, <2>1 DEF ParentsPrinted, n
<1>22. LeftComplete'
  <2>1. ASSUME NEW t \in 1..begun PROVE parent'[t] = parent[t]
    <3>1. n \in Nat /\ begun \in Nat /\ begun <= n
      BY <1>3, <1>14
    <3>2. t \in 1..n
      BY <3>1
    <3> QED
      BY <1>4, <3>2
  <2> QED
    BY <1>2, <1>13, <1>17, <2>1 DEF LeftComplete
<1>23. LinesBelow'
  BY <1>2, <1>17 DEF LinesBelow, Indent
<1>24. TreeReadable'
  <2>1. lines \in Seq([task : Nat, indent : Nat]) /\ DOMAIN lines = 1..Len(lines)
        /\ (lines # <<>> => lines[1].task = 0)
    BY DEF PtInv, PtTypes
  <2>2. ASSUME NEW k \in DOMAIN lines \ {1}
        PROVE  parent'[lines[k].task] = parent[lines[k].task]
    <3>1. 1 \in DOMAIN lines /\ k # 1 /\ lines # <<>>
      BY <1>14, <2>1, <2>2
    <3>2. lines[k].task # 0
      BY <1>17, <2>1, <3>1 DEF TreeReadable
    <3>3. lines[k].task \in 1..n
      BY <1>3, <1>14, <2>1, <3>2, SMTT(40)
    <3> QED
      BY <1>4, <3>3
  <2> QED
    BY <1>2, <1>17, <2>2 DEF TreeReadable
<1> QED
  BY <1>12, <1>15, <1>19, <1>20, <1>21, <1>22, <1>23, <1>24 DEF PtInv

(* The first line keeps it. *)
LEMMA ShowStep ==
  ASSUME PtInv, proj4_proc_show
  PROVE  PtInv'
<1> USE ProcTreeAssumption
<1>1. /\ walk = <<>> /\ lines = <<>>
      /\ lines' = Append(lines, [task |-> 0, indent |-> Indent(0)])
      /\ walk' = <<[task |-> 0, space |-> 1, done |-> 0]>>
      /\ begun' = Len(parent) /\ parent' = parent /\ children' = children
  BY DEF proj4_proc_show, recursive_search
<1>2. TasksInv /\ PtTypes /\ TasksInv'
  BY <1>1 DEF PtInv, TasksInv
<1>3. /\ lines' \in Seq([task : Nat, indent : Nat])
      /\ Len(lines) \in Nat /\ Len(lines') = Len(lines) + 1
      /\ lines'[Len(lines) + 1].task = 0
      /\ lines'[Len(lines) + 1].indent = Indent(0)
      /\ \A t : Printed(lines', t) <=> Printed(lines, t) \/ t = 0
  BY <1>1, <1>2, NextLine
<1>4. Len(lines) = 0 /\ \A t : ~Printed(lines, t)
  BY <1>1 DEF Printed
<1>5. /\ Len(lines') = 1 /\ lines'[1].task = 0 /\ lines'[1].indent = 0
      /\ lines' # <<>> /\ DOMAIN lines' = 1..1
      /\ \A t : Printed(lines', t) <=> t = 0
  BY <1>3, <1>4, SMTT(40) DEF Indent
<1>6. /\ walk' \in Seq([task : Nat, space : Nat, done : Nat]) /\ walk' # <<>>
      /\ Len(walk') = 1
      /\ walk'[1].task = 0 /\ walk'[1].space = 1 /\ walk'[1].done = 0
  BY <1>1
<1>7. /\ Len(parent) \in 1..MaxPid /\ children \in [0..MaxPid -> Seq(Nat)]
      /\ \A t \in 1..Len(parent) : parent[t] \in 0..t - 1
      /\ \A i \in 1..Len(children[0]) : children[0][i] \in 1..Len(parent)
  <2>1. 0 \in 0..MaxPid
    OBVIOUS
  <2> QED
    BY <1>2, <2>1 DEF TasksInv
<1>8. Len(children[0]) \in Nat
  BY <1>7
<1>9. PtTypes'
  BY <1>1, <1>3, <1>5, <1>6, <1>7 DEF PtTypes
<1>10. Frames'
  BY <1>1, <1>6, <1>7, <1>8 DEF Frames
<1>11. DonePrinted'
  <2>1. ASSUME NEW i \in 1..Len(children[0]) PROVE children[0][i] # 0 /\ ~(i <= 0)
    BY <1>7, <1>8
  <2> QED
    BY <1>1, <1>5, <1>6, <2>1 DEF DonePrinted
<1>12. ParentsPrinted'
  <2>1. \A t \in 1..Len(parent') : t # 0
    BY <1>1, <1>7
  <2>2. \A t \in 1..Len(parent') : ~Printed(lines', t)
    BY <1>5, <2>1
  <2> QED
    BY <2>2 DEF ParentsPrinted
<1>13. LeftComplete'
  <2> SUFFICES ASSUME NEW t \in 1..begun', Printed(lines', parent'[t]),
                      \A d \in 1..Len(walk') : walk'[d].task # parent'[t]
               PROVE  FALSE
    BY DEF LeftComplete
  <2>1. parent'[t] = 0
    BY <1>5
  <2> QED
    BY <1>6, <2>1
<1>14. LinesBelow'
  BY <1>5, <1>6 DEF LinesBelow, Indent
<1>15. TreeReadable'
  BY <1>5, <1>6 DEF TreeReadable
<1> QED
  BY <1>2, <1>9, <1>10, <1>11, <1>12, <1>13, <1>14, <1>15 DEF PtInv

(* The frames after a call from the innermost. *)
LEMMA CallFrames ==
  ASSUME PtTypes, walk # <<>>, NEW c \in Nat, NEW s \in Nat,
         walk' = Append([walk EXCEPT ![Len(walk)].done = @ + 1],
                        [task |-> c, space |-> s, done |-> 0])
  PROVE  /\ Len(walk) \in Nat \ {0} /\ Len(walk') = Len(walk) + 1
         /\ walk' \in Seq([task : Nat, space : Nat, done : Nat])
         /\ \A d \in 1..Len(walk) :
              /\ walk'[d].task = walk[d].task /\ walk'[d].space = walk[d].space
              /\ walk'[d].done = walk[d].done + (IF d = Len(walk) THEN 1 ELSE 0)
         /\ walk'[Len(walk) + 1] = [task |-> c, space |-> s, done |-> 0]
<1> DEFINE F == [task : Nat, space : Nat, done : Nat]
           w == [walk EXCEPT ![Len(walk)].done = @ + 1]
           e == [task |-> c, space |-> s, done |-> 0]
           l == [walk[Len(walk)] EXCEPT !.done = @ + 1]
<1>1. walk \in Seq(F) /\ Len(walk) \in Nat \ {0}
  <2>1. walk \in Seq(F) /\ Len(walk) \in Nat
    BY DEF PtTypes
  <2>2. Len(walk) # 0
    BY <2>1, EmptySeq
  <2> QED
    BY <2>1, <2>2
<1>2. Len(walk) \in 1..Len(walk) /\ \A d \in 1..Len(walk) : walk[d] \in F
  <2> HIDE DEF F
  <2> QED
    BY <1>1, ElementOfSeq
<1>3. /\ e \in F /\ l \in F
      /\ l.task = walk[Len(walk)].task /\ l.space = walk[Len(walk)].space
      /\ l.done = walk[Len(walk)].done + 1
  BY <1>2
<1>4. walk' = Append(w, e)
  BY Zenon
<1>9. w = [walk EXCEPT ![Len(walk)] = l]
  OBVIOUS
<1>6. \A d \in 1..Len(walk) : walk[d].done \in Nat
  BY <1>2
<1> HIDE DEF w, e, F, l
<1>7. w \in Seq(F) /\ Len(w) = Len(walk)
      /\ \A d \in 1..Len(walk) : w[d] = IF d = Len(walk) THEN l ELSE walk[d]
  BY <1>1, <1>2, <1>3, <1>9, ExceptSeq
<1>8. \A d \in 1..Len(walk) :
        /\ w[d].task = walk[d].task /\ w[d].space = walk[d].space
        /\ w[d].done = walk[d].done + (IF d = Len(walk) THEN 1 ELSE 0)
  BY <1>3, <1>6, <1>7
<1>5. /\ walk' \in Seq(F) /\ Len(walk') = Len(w) + 1
      /\ \A d \in 1..Len(w) : walk'[d] = w[d]
      /\ walk'[Len(w) + 1] = e
  <2>1. /\ Append(w, e) \in Seq(F) /\ Len(Append(w, e)) = Len(w) + 1
        /\ \A d \in 1..Len(w) : Append(w, e)[d] = w[d]
        /\ Append(w, e)[Len(w) + 1] = e
    BY <1>3, <1>7, AppendProperties
  <2> QED
    BY <1>4, <2>1, Zenon
<1> QED
  BY <1>1, <1>5, <1>7, <1>8 DEF F, e

(* A child that is gone into keeps it. *)
LEMMA ForEachStep ==
  ASSUME PtInv, list_for_each
  PROVE  PtInv'
<1> USE ProcTreeAssumption
<1> DEFINE L == Len(walk)
           T == Frame.task
           x == Frame.done + 1
           c == children[T][x]
<1>1. /\ walk # <<>> /\ Frame.done < Len(children[T])
      /\ lines' = Append(lines, [task |-> c, indent |-> Indent(Frame.space)])
      /\ walk' = Append([walk EXCEPT ![Len(walk)].done = @ + 1],
                        [task |-> c, space |-> Frame.space + 1, done |-> 0])
      /\ parent' = parent /\ children' = children /\ begun' = begun
  BY DEF list_for_each, recursive_search
<1>2. /\ TasksInv /\ PtTypes /\ Frames /\ DonePrinted /\ ParentsPrinted
      /\ LeftComplete /\ LinesBelow /\ TreeReadable /\ TasksInv'
  BY <1>1 DEF PtInv, TasksInv
<1>3. walk \in Seq([task : Nat, space : Nat, done : Nat]) /\ L \in Nat \ {0} /\ L \in 1..L
  <2>1. walk \in Seq([task : Nat, space : Nat, done : Nat]) /\ L \in Nat
    BY <1>2 DEF PtTypes
  <2>2. L # 0
    BY <1>1, <2>1, EmptySeq
  <2> QED
    BY <2>1, <2>2
<1>4. /\ T \in 0..Len(parent) /\ Frame.space = L /\ Frame.done \in Nat
      /\ Frame = walk[L]
  BY <1>2, <1>3 DEF Frames, Frame
<1>5. /\ Len(parent) \in 1..MaxPid /\ children \in [0..MaxPid -> Seq(Nat)]
      /\ \A t \in 1..Len(parent) : parent[t] \in 0..t - 1
      /\ \A p \in 0..MaxPid : \A i \in 1..Len(children[p]) :
           /\ children[p][i] \in 1..Len(parent)
           /\ parent[children[p][i]] = p
           /\ \A j \in 1..Len(children[p]) : i < j => children[p][i] < children[p][j]
  BY <1>2 DEF TasksInv
<1>6. T \in 0..MaxPid /\ Len(children[T]) \in Nat /\ x \in 1..Len(children[T])
  <2>1. T \in 0..MaxPid
    BY <1>4, <1>5
  <2>2. Len(children[T]) \in Nat
    BY <1>5, <2>1
  <2>3. x \in 1..Len(children[T])
    BY <1>1, <1>4, <2>2
  <2> QED
    BY <2>1, <2>2, <2>3
<1>7. c \in 1..Len(parent) /\ parent[c] = T /\ T < c /\ c \in Nat
  <2>1. c \in 1..Len(parent) /\ parent[c] = T
    BY <1>5, <1>6
  <2>2. parent[c] \in 0..c - 1
    BY <1>5, <2>1
  <2> QED
    BY <1>5, <2>1, <2>2, SMTT(40)
<1>8. ~Printed(lines, c)
  <2>1. walk[L].task = T /\ ~(x <= walk[L].done)
    BY <1>4
  <2>2. Printed(lines, children[T][x]) <=> x <= walk[L].done
    BY <1>2, <1>3, <1>6, <2>1 DEF DonePrinted
  <2> QED
    BY <2>1, <2>2
<1> HIDE DEF L, T, x, c
<1>9. /\ Len(walk') = L + 1
      /\ walk' \in Seq([task : Nat, space : Nat, done : Nat])
      /\ \A d \in 1..L : /\ walk'[d].task = walk[d].task /\ walk'[d].space = walk[d].space
                         /\ walk'[d].done = walk[d].done + (IF d = L THEN 1 ELSE 0)
      /\ walk'[L + 1] = [task |-> c, space |-> L + 1, done |-> 0]
  <2>1. walk' = Append([walk EXCEPT ![Len(walk)].done = @ + 1],
                       [task |-> c, space |-> L + 1, done |-> 0])
    BY <1>1, <1>4 DEF c, x, T
  <2>2. L + 1 \in Nat
    BY <1>3
  <2> QED
    BY <1>1, <1>2, <1>7, <2>1, <2>2, CallFrames DEF L
<1>10. /\ lines' \in Seq([task : Nat, indent : Nat])
       /\ Len(lines) \in Nat /\ Len(lines') = Len(lines) + 1
       /\ \A k \in 1..Len(lines) : lines'[k] = lines[k]
       /\ lines'[Len(lines) + 1].task = c
       /\ lines'[Len(lines) + 1].indent = L - 1
       /\ \A t : Printed(lines', t) <=> Printed(lines, t) \/ t = c
  <2>1. lines' = Append(lines, [task |-> c, indent |-> Indent(L)])
    BY <1>1, <1>4 DEF c, x, T
  <2>2. Indent(L) = L - 1
    BY <1>3 DEF Indent
  <2> QED
    BY <1>2, <1>3, <1>7, <2>1, <2>2, NextLine
<1>11. /\ lines # <<>> /\ Len(lines) \in Nat \ {0} /\ lines[1].task = 0
       /\ begun \in 0..Len(parent)
       /\ \A k \in 1..Len(lines) : lines[k].task \in 0..Len(parent) /\ lines[k].indent \in Nat
  <2>1. lines \in Seq([task : Nat, indent : Nat]) /\ lines # <<>>
    BY <1>1, <1>2 DEF PtTypes
  <2>2. Len(lines) # 0
    BY <2>1, EmptySeq
  <2>3. \A k \in 1..Len(lines) : lines[k] \in [task : Nat, indent : Nat]
    BY <2>1, ElementOfSeq
  <2> QED
    BY <1>2, <1>10, <2>1, <2>2, <2>3 DEF PtTypes
<1>12. ASSUME NEW d \in 1..L + 1 PROVE d \in 1..L \/ d = L + 1
  BY <1>3
<1>13. PtTypes'
  <2>1. \A k \in 1..Len(lines') : lines'[k].task \in 0..Len(parent')
    <3> TAKE k \in 1..Len(lines')
    <3>1. CASE k = Len(lines) + 1
      BY <1>1, <1>5, <1>7, <1>10, <3>1
    <3>2. CASE k \in 1..Len(lines)
      BY <1>1, <1>10, <1>11, <3>2
    <3> QED
      BY <1>10, <3>1, <3>2
  <2>2. lines' # <<>> /\ lines'[1].task = 0
    BY <1>10, <1>11
  <2> QED
    BY <1>1, <1>9, <1>10, <1>11, <2>1, <2>2 DEF PtTypes
<1>14. \A d \in 1..L : /\ walk[d].task \in 0..Len(parent) /\ walk[d].space = d
                       /\ (d = 1 <=> walk[d].task = 0)
                       /\ walk[d].done \in 0..Len(children[walk[d].task])
                       /\ \A e \in 1..L : d < e => walk[d].task < walk[e].task
  BY <1>2 DEF Frames, L
<1>15. \A d \in 1..L : walk[d].task <= T /\ walk[d].task < c /\ (d # L => walk[d].task # T)
  <2> TAKE d \in 1..L
  <2>1. CASE d = L
    BY <1>4, <1>5, <1>7, <2>1 DEF T
  <2>2. CASE d # L
    <3>1. d < L /\ walk[L].task = T
      BY <1>3, <1>4, <2>2 DEF T
    <3>2. walk[d].task < T /\ walk[d].task \in 0..Len(parent)
      BY <1>3, <1>14, <3>1
    <3> QED
      BY <1>6, <1>7, <2>2, <3>2
  <2> QED
    BY <2>1, <2>2
<1>16. Frames'
  <2>1. ASSUME NEW d \in 1..L + 1
        PROVE  /\ walk'[d].task \in 0..Len(parent)
               /\ walk'[d].space = d
               /\ (d = 1 <=> walk'[d].task = 0)
               /\ walk'[d].done \in 0..Len(children[walk'[d].task])
               /\ \A e \in 1..L + 1 : d < e => walk'[d].task < walk'[e].task
    <3>1. CASE d = L + 1
      <4>1. c \in 0..MaxPid /\ Len(children[c]) \in Nat
        BY <1>5, <1>7
      <4>2. \A e \in 1..L + 1 : ~(d < e)
        BY <1>3, <3>1
      <4> QED
        <5>1. walk'[d].task = c /\ walk'[d].space = d /\ walk'[d].done = 0
          BY <1>9, <3>1
        <5>2. d # 1 /\ c # 0 /\ c \in 0..Len(parent)
          BY <1>3, <1>5, <1>7, <3>1
        <5> QED
          BY <4>1, <4>2, <5>1, <5>2
    <3>2. CASE d \in 1..L
      <4>1. walk'[d].task = walk[d].task /\ walk'[d].space = walk[d].space
        BY <1>9, <3>2
      <4>2. walk'[d].done \in 0..Len(children[walk[d].task])
        <5>1. CASE d = L
          <6>1. walk'[d].done = x /\ walk[d].task = T
            BY <1>4, <1>9, <3>2, <5>1 DEF x, T
          <6> QED
            BY <1>6, <6>1
        <5>2. CASE d # L
          <6>1. walk'[d].done = walk[d].done + 0
            BY <1>9, <3>2, <5>2
          <6>2. walk[d].done \in 0..Len(children[walk[d].task])
            BY <1>14, <3>2
          <6> QED
            BY <6>1, <6>2
        <5> QED
          BY <5>1, <5>2
      <4>3. ASSUME NEW e \in 1..L + 1, d < e PROVE walk'[d].task < walk'[e].task
        <5>1. CASE e = L + 1
          BY <1>9, <1>15, <3>2, <4>1, <5>1
        <5>2. CASE e \in 1..L
          BY <1>9, <1>14, <3>2, <4>1, <4>3, <5>2
        <5> QED
          BY <1>12, <5>1, <5>2
      <4> QED
        BY <1>14, <3>2, <4>1, <4>2, <4>3
    <3> QED
      BY <1>12, <3>1, <3>2
  <2> QED
    BY <1>1, <1>9, <2>1 DEF Frames
<1>17. DonePrinted'
  <2>1. ASSUME NEW d \in 1..L + 1, NEW i \in 1..Len(children[walk'[d].task])
        PROVE  Printed(lines', children[walk'[d].task][i]) <=> i <= walk'[d].done
    <3>1. CASE d = L + 1
      <4>1. walk'[d].task = c /\ walk'[d].done = 0 /\ i \in 1..Len(children[c])
        BY <1>9, <2>1, <3>1
      <4>2. c \in 0..MaxPid /\ Len(children[c]) \in Nat
        BY <1>5, <1>7, SMTT(40)
      <4>3. /\ children[c][i] \in 1..Len(parent)
            /\ parent[children[c][i]] = c
        BY <1>5, <4>1, <4>2
      <4>4. ~Printed(lines, children[c][i])
        BY <1>2, <1>8, <4>3 DEF ParentsPrinted
      <4>5. children[c][i] # c
        BY <1>7, <4>3
      <4>6. ~(i <= 0)
        BY <4>1, <4>2
      <4> QED
        BY <1>10, <4>1, <4>4, <4>5, <4>6
    <3>2. CASE d \in 1..L
      <4> DEFINE q == walk[d].task
      <4>1. walk'[d].task = q /\ i \in 1..Len(children[q]) /\ q \in 0..MaxPid
        <5>1. walk'[d].task = q /\ q \in 0..Len(parent)
          BY <1>9, <1>14, <3>2
        <5> QED
          BY <1>5, <2>1, <5>1
      <4>2. Printed(lines, children[q][i]) <=> i <= walk[d].done
        BY <1>2, <3>2, <4>1 DEF DonePrinted, L
      <4>3. parent[children[q][i]] = q
        BY <1>5, <4>1
      <4>4. CASE d # L
        <5>1. children[q][i] # c
          BY <1>7, <1>15, <3>2, <4>3, <4>4
        <5>2. walk'[d].done = walk[d].done + 0
          BY <1>9, <3>2, <4>4
        <5>3. walk[d].done \in Nat
          <6>1. walk[d] \in [task : Nat, space : Nat, done : Nat]
            BY <1>3, <3>2, ElementOfSeq DEF L
          <6> QED
            BY <6>1
        <5>4. walk'[d].done = walk[d].done
          BY <5>2, <5>3
        <5> QED
          BY <1>10, <4>1, <4>2, <5>1, <5>4
      <4>5. CASE d = L
        <5>1. q = T /\ walk'[d].done = x /\ walk[d].done + 1 = x /\ walk[d].done \in Nat
          BY <1>4, <1>9, <3>2, <4>5 DEF x, T
        <5>2. children[q][i] = c <=> i = x
          <6>1. CASE i < x
            BY <1>5, <1>6, <4>1, <5>1, <6>1, SMTT(40) DEF c
          <6>2. CASE x < i
            BY <1>5, <1>6, <4>1, <5>1, <6>2, SMTT(40) DEF c
          <6>3. CASE i = x
            BY <5>1, <6>3 DEF c
          <6>4. i \in Nat /\ x \in Nat
            BY <1>6, <4>1, <5>1
          <6> QED
            BY <6>1, <6>2, <6>3, <6>4
        <5>3. i <= x <=> i <= walk[d].done \/ i = x
          BY <1>6, <4>1, <5>1
        <5> QED
          BY <1>10, <4>1, <4>2, <5>1, <5>2, <5>3
      <4> QED
        BY <4>4, <4>5
    <3> QED
      BY <1>12, <3>1, <3>2
  <2> QED
    BY <1>1, <1>9, <2>1 DEF DonePrinted
<1>18. Printed(lines, T)
  <2>1. PICK j \in 1..Len(lines) : lines[j].task = walk[L].task
    BY <1>2, <1>3 DEF LinesBelow, L
  <2> QED
    BY <1>4, <2>1 DEF Printed, T
<1>19. ParentsPrinted'
  <2> SUFFICES ASSUME NEW t \in 1..Len(parent), Printed(lines', t) PROVE Printed(lines', parent[t])
    BY <1>1 DEF ParentsPrinted
  <2>1. CASE t = c
    BY <1>7, <1>10, <1>18, <2>1
  <2>2. CASE t # c
    BY <1>2, <1>10, <2>2 DEF ParentsPrinted
  <2> QED
    BY <2>1, <2>2
<1>20. LeftComplete'
  <2> SUFFICES ASSUME NEW t \in 1..begun, Printed(lines', parent[t]),
                      \A d \in 1..L + 1 : walk'[d].task # parent[t]
               PROVE  Printed(lines', t)
    BY <1>1, <1>9 DEF LeftComplete
  <2>1. ASSUME NEW d \in 1..L PROVE walk[d].task # parent[t]
    <3>1. d \in 1..L + 1
      BY <1>3
    <3>2. walk'[d].task = walk[d].task
      BY <1>9
    <3> QED
      BY <3>1, <3>2
  <2>2. parent[t] # c
    <3>1. L + 1 \in 1..L + 1 /\ walk'[L + 1].task = c
      BY <1>3, <1>9
    <3> QED
      BY <3>1
  <2>3. Printed(lines, parent[t])
    BY <1>10, <2>2
  <2> QED
    BY <1>2, <1>10, <2>1, <2>3 DEF LeftComplete, L
<1>21. LinesBelow'
  <2>1. ASSUME NEW d \in 1..L + 1
        PROVE  \E j \in 1..Len(lines) + 1 :
                 /\ lines'[j].task = walk'[d].task
                 /\ lines'[j].indent = Indent(d - 1)
                 /\ \A i \in j + 1..Len(lines) + 1 : lines'[i].indent >= d - 1
    <3>1. CASE d = L + 1
      <4>1. /\ lines'[Len(lines) + 1].task = walk'[d].task
            /\ lines'[Len(lines) + 1].indent = Indent(d - 1)
        BY <1>3, <1>9, <1>10, <3>1 DEF Indent
      <4>2. Len(lines) + 1 \in 1..Len(lines) + 1
            /\ \A i \in (Len(lines) + 1) + 1..Len(lines) + 1 : FALSE
        BY <1>10
      <4> QED
        BY <4>1, <4>2
    <3>2. CASE d \in 1..L
      <4>1. PICK j \in 1..Len(lines) :
              /\ lines[j].task = walk[d].task
              /\ lines[j].indent = Indent(d - 1)
              /\ \A i \in j + 1..Len(lines) : lines[i].indent >= d - 1
        BY <1>2, <3>2 DEF LinesBelow, L
      <4>2. j \in 1..Len(lines) + 1 /\ lines'[j] = lines[j] /\ walk'[d].task = walk[d].task
        <5>1. j \in 1..Len(lines) + 1
          BY <1>10, <4>1
        <5> QED
          BY <1>9, <1>10, <3>2, <5>1
      <4>3. ASSUME NEW i \in j + 1..Len(lines) + 1 PROVE lines'[i].indent >= d - 1
        <5>1. CASE i = Len(lines) + 1
          BY <1>3, <1>10, <3>2, <5>1
        <5>2. CASE i # Len(lines) + 1
          <6>1. i \in j + 1..Len(lines) /\ i \in 1..Len(lines)
            <7>1. j \in 1..Len(lines) /\ Len(lines) \in Nat
              BY <1>10, <4>1
            <7> QED
              BY <4>3, <5>2, <7>1
          <6> QED
            BY <1>10, <4>1, <6>1
        <5> QED
          BY <5>1, <5>2
      <4> QED
        BY <4>1, <4>2, <4>3
    <3> QED
      BY <1>12, <3>1, <3>2
  <2> QED
    BY <1>9, <1>10, <2>1 DEF LinesBelow
<1>22. TreeReadable'
  <2>0. DOMAIN lines' = 1..Len(lines) + 1 /\ DOMAIN lines = 1..Len(lines) /\ walk' # <<>>
    <3>1. lines \in Seq([task : Nat, indent : Nat]) /\ Len(walk') # 0
      BY <1>2, <1>3, <1>9 DEF PtTypes
    <3> QED
      BY <1>10, <3>1, LenProperties, EmptySeq
  <2>1. ASSUME NEW i \in 1..Len(lines) + 1, NEW j \in 1..Len(lines) + 1, i # j
        PROVE  lines'[i].task # lines'[j].task
    <3>1. \A k \in 1..Len(lines) : lines[k].task # c /\ lines'[k].task = lines[k].task
      BY <1>8, <1>10 DEF Printed
    <3>2. CASE i \in 1..Len(lines) /\ j \in 1..Len(lines)
      BY <1>2, <2>0, <2>1, <3>1, <3>2 DEF TreeReadable
    <3>3. CASE i = Len(lines) + 1 /\ j \in 1..Len(lines)
      BY <1>10, <3>1, <3>3
    <3>4. CASE j = Len(lines) + 1 /\ i \in 1..Len(lines)
      BY <1>10, <3>1, <3>4
    <3> QED
      BY <1>10, <2>1, <3>2, <3>3, <3>4
  <2>2. ASSUME NEW k \in (1..Len(lines) + 1) \ {1}
        PROVE  IF lines'[k].indent = 0
               THEN parent[lines'[k].task] = lines'[1].task
               ELSE \E j \in 1..k - 1 :
                      /\ lines'[j].task = parent[lines'[k].task]
                      /\ lines'[j].indent < lines'[k].indent
                      /\ \A i \in j + 1..k - 1 : lines'[i].indent >= lines'[k].indent
    <3>1. CASE k \in 1..Len(lines)
      <4>1. lines'[1] = lines[1] /\ lines'[k] = lines[k]
            /\ \A i \in 1..k : lines'[i] = lines[i]
        BY <1>10, <1>11, <3>1, SMTT(40)
      <4>2. IF lines[k].indent = 0
            THEN parent[lines[k].task] = lines[1].task
            ELSE \E j \in 1..k - 1 :
                   /\ lines[j].task = parent[lines[k].task]
                   /\ lines[j].indent < lines[k].indent
                   /\ \A i \in j + 1..k - 1 : lines[i].indent >= lines[k].indent
        BY <1>2, <2>0, <2>2, <3>1 DEF TreeReadable
      <4>3. CASE lines[k].indent = 0
        BY <4>1, <4>2, <4>3
      <4>4. CASE lines[k].indent # 0
        <5>1. PICK j \in 1..k - 1 :
                /\ lines[j].task = parent[lines[k].task]
                /\ lines[j].indent < lines[k].indent
                /\ \A i \in j + 1..k - 1 : lines[i].indent >= lines[k].indent
          BY <4>2, <4>4
        <5>2. lines'[j] = lines[j] /\ \A i \in j + 1..k - 1 : lines'[i] = lines[i]
          BY <3>1, <4>1, <5>1
        <5> QED
          BY <4>1, <4>4, <5>1, <5>2
      <4> QED
        BY <4>3, <4>4
    <3>2. CASE k = Len(lines) + 1
      <4>1. lines'[k].task = c /\ lines'[k].indent = L - 1 /\ parent[c] = T
            /\ lines'[1] = lines[1] /\ lines[1].task = 0
        <5>1. 1 \in 1..Len(lines)
          BY <1>11
        <5> QED
          BY <1>7, <1>10, <1>11, <3>2, <5>1
      <4>2. CASE L = 1
        <5>1. T = 0
          BY <1>3, <1>4, <1>14, <4>2 DEF T
        <5> QED
          BY <4>1, <4>2, <5>1
      <4>3. CASE L # 1
        <5>1. PICK j \in 1..Len(lines) :
                /\ lines[j].task = walk[L].task
                /\ lines[j].indent = Indent(L - 1)
                /\ \A i \in j + 1..Len(lines) : lines[i].indent >= L - 1
          BY <1>2, <1>3 DEF LinesBelow, L
        <5>2. j \in 1..k - 1 /\ lines'[j].task = T /\ lines'[j].indent < L - 1
          <6>1. Indent(L - 1) < L - 1
            BY <1>3, <4>3 DEF Indent
          <6>2. lines'[j] = lines[j] /\ walk[L].task = T
            BY <1>4, <1>10, <5>1 DEF T
          <6>3. j \in 1..k - 1
            BY <1>10, <3>2, <5>1
          <6> QED
            BY <5>1, <6>1, <6>2, <6>3
        <5>3. \A i \in j + 1..k - 1 : lines'[i].indent >= L - 1
          <6> TAKE i \in j + 1..k - 1
          <6>1. i \in j + 1..Len(lines) /\ i \in 1..Len(lines)
            <7>1. j \in 1..Len(lines) /\ Len(lines) \in Nat
              BY <1>10, <5>1
            <7> QED
              BY <3>2, <7>1
          <6> QED
            BY <1>10, <5>1, <6>1
        <5>4. L - 1 # 0
          BY <1>3, <4>3
        <5> QED
          BY <4>1, <5>2, <5>3, <5>4
      <4> QED
        BY <4>2, <4>3
    <3>3. k \in 1..Len(lines) \/ k = Len(lines) + 1
      BY <1>10, <2>2
    <3> QED
      BY <3>1, <3>2, <3>3
  <2> QED
    BY <1>1, <2>0, <2>1, <2>2 DEF TreeReadable
<1> QED
  BY <1>2, <1>13, <1>16, <1>17, <1>19, <1>20, <1>21, <1>22 DEF PtInv

(* A frame that returns keeps it: its task has all its children printed. *)
LEMMA ReturnStep ==
  ASSUME PtInv, Return0
  PROVE  PtInv'
<1> USE ProcTreeAssumption
<1> DEFINE L == Len(walk)
           F == [task : Nat, space : Nat, done : Nat]
<1>1. /\ walk # <<>> /\ walk[L].done = Len(children[walk[L].task])
      /\ walk' = SubSeq(walk, 1, L - 1)
      /\ parent' = parent /\ children' = children /\ begun' = begun /\ lines' = lines
  BY DEF Return0, Frame
<1>2. /\ TasksInv /\ PtTypes /\ Frames /\ DonePrinted /\ ParentsPrinted
      /\ LeftComplete /\ LinesBelow /\ TreeReadable /\ TasksInv'
  BY <1>1 DEF PtInv, TasksInv
<1>3. walk \in Seq(F) /\ L \in Nat /\ L \in 1..L
  <2>1. walk \in Seq(F) /\ L \in Nat
    BY <1>2 DEF PtTypes
  <2>2. L # 0
    BY <1>1, <2>1, EmptySeq
  <2> QED
    BY <2>1, <2>2
<1> HIDE DEF F
<1>4. /\ walk' \in Seq(F) /\ Len(walk') = L - 1
      /\ \A d \in 1..L - 1 : walk'[d] = walk[d]
  <2>1. \A i \in 1..L - 1 : walk[i] \in F
    BY <1>3, ElementOfSeq
  <2>2. /\ SubSeq(walk, 1, L - 1) \in Seq(F)
        /\ Len(SubSeq(walk, 1, L - 1)) = IF 1 <= L - 1 THEN (L - 1) - 1 + 1 ELSE 0
        /\ \A i \in 1..(L - 1) - 1 + 1 : SubSeq(walk, 1, L - 1)[i] = walk[1 + i - 1]
    BY <1>3, <2>1, SubSeqProperties
  <2>3. (L - 1) - 1 + 1 = L - 1 /\ \A d \in 1..L - 1 : 1 + d - 1 = d
    BY <1>3
  <2>4. (IF 1 <= L - 1 THEN L - 1 ELSE 0) = L - 1
    <3>1. L \in Nat /\ L # 0
      BY <1>3
    <3>2. \A l \in Nat : l # 0 => (IF 1 <= l - 1 THEN l - 1 ELSE 0) = l - 1
      OBVIOUS
    <3> QED
      BY <3>1, <3>2, Zenon
  <2> QED
    BY <1>1, <2>2, <2>3, <2>4
<1>5. \A d \in 1..L - 1 : d \in 1..L
  BY <1>3
<1>6. PtTypes'
  <2>1. lines # <<>>
    BY <1>1, <1>2 DEF PtTypes
  <2>2. walk' \in Seq([task : Nat, space : Nat, done : Nat])
    BY <1>4 DEF F
  <2> QED
    BY <1>1, <1>2, <2>1, <2>2 DEF PtTypes
<1>7. Frames'
  <2> SUFFICES ASSUME NEW d \in 1..L - 1
               PROVE  /\ walk[d].task \in 0..Len(parent)
                      /\ walk[d].space = d
                      /\ (d = 1 <=> walk[d].task = 0)
                      /\ walk[d].done \in 0..Len(children[walk[d].task])
                      /\ \A e \in 1..L - 1 : d < e => walk[d].task < walk[e].task
    BY <1>1, <1>4 DEF Frames
  <2> QED
    BY <1>2, <1>5 DEF Frames
<1>8. DonePrinted'
  BY <1>1, <1>2, <1>4, <1>5 DEF DonePrinted
<1>9. ParentsPrinted'
  BY <1>1, <1>2 DEF ParentsPrinted
<1>10. LinesBelow'
  <2>1. ASSUME NEW d \in 1..L - 1
        PROVE  \E j \in 1..Len(lines') :
                 /\ lines'[j].task = walk'[d].task
                 /\ lines'[j].indent = Indent(d - 1)
                 /\ \A i \in j + 1..Len(lines') : lines'[i].indent >= d - 1
    <3>1. PICK j \in 1..Len(lines) :
            /\ lines[j].task = walk[d].task
            /\ lines[j].indent = Indent(d - 1)
            /\ \A i \in j + 1..Len(lines) : lines[i].indent >= d - 1
      BY <1>2, <1>5 DEF LinesBelow
    <3> QED
      BY <1>1, <1>4, <3>1
  <2> QED
    BY <1>4, <2>1 DEF LinesBelow
<1>11. LeftComplete'
  <2> SUFFICES ASSUME NEW t \in 1..begun, Printed(lines, parent[t]),
                      \A d \in 1..L - 1 : walk[d].task # parent[t]
               PROVE  Printed(lines, t)
    BY <1>1, <1>4 DEF LeftComplete
  <2>1. t \in 1..Len(parent)
    <3>1. begun \in 0..Len(parent) /\ Len(parent) \in Nat
      BY <1>2 DEF PtTypes, TasksInv
    <3> QED
      BY <3>1
  <2>2. CASE walk[L].task = parent[t]
    <3>1. PICK i \in 1..Len(children[parent[t]]) : children[parent[t]][i] = t
      BY <1>2, <2>1 DEF TasksInv
    <3>2. Printed(lines, children[walk[L].task][i]) <=> i <= walk[L].done
      BY <1>2, <1>3, <2>2, <3>1 DEF DonePrinted
    <3>3. i <= walk[L].done
      BY <1>1, <2>2, <3>1
    <3> QED
      BY <2>2, <3>1, <3>2, <3>3
  <2>3. CASE walk[L].task # parent[t]
    <3>1. \A d \in 1..L : walk[d].task # parent[t]
      BY <1>3, <2>3
    <3> QED
      BY <1>2, <3>1 DEF LeftComplete
  <2> QED
    BY <2>2, <2>3
<1>12. TreeReadable'
  <2>1. ASSUME walk' = <<>>, lines # <<>>, NEW u \in 0..begun
        PROVE  \E k \in DOMAIN lines : lines[k].task = u
    <3> DEFINE M == {t \in 0..begun : ~Printed(lines, t)}
    <3>1. L = 1
      <4>1. Len(walk') = 0
        BY <2>1, EmptySeq
      <4> QED
        BY <1>3, <1>4, <4>1
    <3>2. /\ begun \in 0..Len(parent) /\ Len(parent) \in Nat
          /\ \A t \in 1..Len(parent) : parent[t] \in 0..t - 1
          /\ lines \in Seq([task : Nat, indent : Nat]) /\ lines[1].task = 0
      BY <1>2, <2>1 DEF PtTypes, TasksInv
    <3>3. DOMAIN lines = 1..Len(lines) /\ 1 \in 1..Len(lines)
      BY <2>1, <3>2, EmptySeq, LenProperties
    <3>4. Printed(lines, 0)
      BY <3>2, <3>3 DEF Printed
    <3>5. ASSUME M # {} PROVE FALSE
      <4>1. M \subseteq Nat
        BY <3>2
      <4>2. PICK t \in M : \A y \in M : t <= y
        BY <3>5, <4>1, NatMin
      <4>3. t \in 1..begun /\ t \in 1..Len(parent)
        BY <3>2, <3>4, <4>2
      <4>4. parent[t] \in 0..begun /\ parent[t] < t
        BY <3>2, <4>3
      <4>5. Printed(lines, parent[t])
        BY <4>1, <4>2, <4>4
      <4>6. \A d \in 1..Len(walk') : walk'[d].task # parent'[t]
        BY <1>4, <3>1
      <4>7. Printed(lines, t)
        BY <1>1, <1>11, <4>3, <4>5, <4>6 DEF LeftComplete
      <4> QED
        BY <4>2, <4>7
    <3>6. Printed(lines, u)
      BY <2>1, <3>5
    <3> QED
      BY <3>3, <3>6 DEF Printed
  <2> QED
    BY <1>1, <1>2, <2>1 DEF TreeReadable
<1> QED
  BY <1>2, <1>6, <1>7, <1>8, <1>9, <1>10, <1>11, <1>12 DEF PtInv

(* Reading /proc/proj4 prints a text from which the tree can be read, and  *)
(* leaves out no task that was there when the read began, for any number   *)
(* of tasks and any forks during the walk.                                 *)
THEOREM TreeIsReadable == PtSpec => []TreeReadable
<1> USE ProcTreeAssumption
<1>1. PtInit => PtInv
  <2> SUFFICES ASSUME PtInit PROVE PtInv
    OBVIOUS
  <2>1. /\ parent = <<0>> /\ walk = <<>> /\ lines = <<>> /\ begun = 0
        /\ children = [t \in 0..MaxPid |-> IF t = 0 THEN <<1>> ELSE <<>>]
    BY DEF PtInit
  <2>2. /\ parent \in Seq(Nat) /\ Len(parent) = 1 /\ parent[1] = 0
        /\ Len(walk) = 0 /\ Len(lines) = 0
    BY <2>1
  <2>3. /\ children \in [0..MaxPid -> Seq(Nat)]
        /\ children[0] = <<1>> /\ \A p \in 1..MaxPid : children[p] = <<>>
    <3>1. <<1>> \in Seq(Nat) /\ <<>> \in Seq(Nat)
      OBVIOUS
    <3>2. \A t \in 0..MaxPid : children[t] = IF t = 0 THEN <<1>> ELSE <<>>
      BY <2>1
    <3>3. children \in [0..MaxPid -> Seq(Nat)]
      BY <2>1, <3>1
    <3> QED
      BY <3>2, <3>3
  <2>4. TasksInv
    <3>1. ASSUME NEW p \in 0..MaxPid, NEW i \in 1..Len(children[p])
          PROVE  p = 0 /\ i = 1 /\ Len(children[p]) = 1 /\ children[p][i] = 1
      <4>1. CASE p = 0
        <5>1. children[p] = <<1>> /\ i \in 1..Len(children[p])
          BY <2>3, <4>1
        <5>2. Len(<<1>>) = 1 /\ <<1>>[1] = 1
          OBVIOUS
        <5>3. Len(children[p]) = 1 /\ children[p][1] = 1
          BY <5>1, <5>2
        <5> QED
          BY <4>1, <5>1, <5>3
      <4>2. CASE p # 0
        BY <2>3, <3>1, <4>2
      <4> QED
        BY <4>1, <4>2
    <3>2. \A t \in 1..Len(parent) : t = 1
      BY <2>2
    <3>3. 1 \in 1..Len(children[0]) /\ children[0][1] = 1
      BY <2>3
    <3>4. Len(parent) \in 1..MaxPid
      BY <2>2
    <3>5. \A t \in 1..Len(parent) :
            /\ parent[t] \in 0..t - 1
            /\ \E i \in 1..Len(children[parent[t]]) : children[parent[t]][i] = t
      BY <2>2, <3>2, <3>3
    <3>6. \A p \in 0..MaxPid : \A i \in 1..Len(children[p]) :
            /\ children[p][i] \in 1..Len(parent)
            /\ parent[children[p][i]] = p
            /\ \A j \in 1..Len(children[p]) : i < j => children[p][i] < children[p][j]
      BY <2>2, <3>1
    <3> QED
      BY <2>2, <2>3, <3>4, <3>5, <3>6 DEF TasksInv
  <2>5. PtTypes
    BY <2>1, <2>2 DEF PtTypes
  <2>6. \A t : ~Printed(lines, t)
    BY <2>2 DEF Printed
  <2>7. Frames /\ DonePrinted /\ LinesBelow
    BY <2>2 DEF Frames, DonePrinted, LinesBelow
  <2>8. ParentsPrinted /\ LeftComplete /\ TreeReadable
    BY <2>1, <2>6 DEF ParentsPrinted, LeftComplete, TreeReadable
  <2> QED
    BY <2>4, <2>5, <2>7, <2>8 DEF PtInv
<1>2. PtInv /\ [PtNext]_pt_vars => PtInv'
  <2> SUFFICES ASSUME PtInv, [PtNext]_pt_vars PROVE PtInv'
    OBVIOUS
  <2>1. CASE fork
    BY <2>1, ForkStep
  <2>2. CASE proj4_proc_show
    BY <2>2, ShowStep
  <2>3. CASE list_for_each
    BY <2>3, ForEachStep
  <2>4. CASE Return0
    BY <2>4, ReturnStep
  <2>5. CASE UNCHANGED pt_vars
    BY <2>5 DEF pt_vars, PtInv, TasksInv, PtTypes, Frames, DonePrinted, ParentsPrinted,
                LeftComplete, LinesBelow, TreeReadable, Indent
  <2> QED
    BY <2>1, <2>2, <2>3, <2>4, <2>5 DEF PtNext
<1>3. PtInv => TreeReadable
  BY DEF PtInv
<1> QED
  BY <1>1, <1>2, <1>3, PTL DEF PtSpec

-----------------------------------------------------------------------------
(* Induction, and what Selected computes. *)

(* Induction: a set that has 0, and with a number the next one, has all. *)
LEMMA Inductive ==
  ASSUME NEW S, 0 \in S, \A n \in Nat : n \in S => n + 1 \in S
  PROVE  Nat \subseteq S
<1> SUFFICES ASSUME Nat \ S # {} PROVE FALSE
  OBVIOUS
<1>1. PICK x \in Nat \ S : \A y \in Nat \ S : x <= y
  <2>1. Nat \ S \subseteq Nat
    OBVIOUS
  <2> QED
    BY <2>1, NatMin
<1>2. x # 0 /\ x - 1 \in Nat
  OBVIOUS
<1>3. x - 1 \in S
  BY <1>1, <1>2
<1> QED
  BY <1>2, <1>3

(* The function Selected is the one its equation describes. *)
LEMMA SelectedDef ==
  ASSUME NEW s, Len(s) \in Nat, NEW S
  PROVE  /\ Selected(s, S)[0] = <<>>
         /\ \A i \in 1..Len(s) :
              Selected(s, S)[i] = IF s[i] \in S THEN Append(Selected(s, S)[i - 1], s[i])
                                  ELSE Selected(s, S)[i - 1]
<1> DEFINE Val(f, i) == IF i = 0 THEN <<>>
                        ELSE IF s[i] \in S THEN Append(f[i - 1], s[i]) ELSE f[i - 1]
           Good(f, n) == f = [i \in 0..n |-> Val(f, i)]
           G == {n \in Nat : \E f : Good(f, n)}
<1>1. 0 \in G
  <2> DEFINE g == [i \in 0..0 |-> <<>>]
  <2>1. Good(g, 0)
    OBVIOUS
  <2> QED
    BY <2>1
<1>2. ASSUME NEW n \in Nat, NEW f, Good(f, n)
      PROVE  \E g : Good(g, n + 1)
  <2> DEFINE g == [i \in 0..n + 1 |-> IF i = n + 1 THEN Val(f, n + 1) ELSE f[i]]
  <2>1. \A i \in 0..n : g[i] = f[i] /\ f[i] = Val(f, i)
    <3> TAKE i \in 0..n
    <3>1. i # n + 1 /\ i \in 0..n + 1
      OBVIOUS
    <3>2. f[i] = Val(f, i)
      BY <1>2
    <3> QED
      BY <3>1, <3>2
  <2>2. \A i \in 0..n + 1 : g[i] = Val(g, i)
    <3> SUFFICES ASSUME NEW i \in 0..n + 1 PROVE g[i] = Val(g, i)
      OBVIOUS
    <3>1. CASE i = n + 1
      <4>1. i # 0 /\ i - 1 = n /\ n \in 0..n
        BY <3>1
      <4> QED
        BY <2>1, <3>1, <4>1
    <3>2. CASE i = 0
      <4>1. i \in 0..n
        BY <3>2
      <4> QED
        BY <2>1, <3>2, <4>1
    <3>3. CASE i # n + 1 /\ i # 0
      <4>1. i \in 0..n /\ i - 1 \in 0..n
        BY <3>3
      <4> QED
        BY <2>1, <3>3, <4>1
    <3> QED
      BY <3>1, <3>2, <3>3
  <2>3. Good(g, n + 1)
    BY <2>2
  <2> QED
    BY <2>3
<1>3. ASSUME NEW n \in Nat, n \in G PROVE n + 1 \in G
  <2> HIDE DEF Good
  <2> QED
    BY <1>2, <1>3
<1> HIDE DEF G
<1>4. Len(s) \in G
  BY <1>1, <1>3, Inductive
<1>5. \E f : Good(f, Len(s))
  BY <1>4 DEF G
<1>6. Selected(s, S) = CHOOSE f : Good(f, Len(s))
  BY Zenon DEF Selected
<1>7. Good(Selected(s, S), Len(s))
  BY <1>5, <1>6
<1>8. \A i \in 0..Len(s) : Selected(s, S)[i] = Val(Selected(s, S), i)
  BY <1>7
<1> QED
  BY <1>8

-----------------------------------------------------------------------------
(* ex4. *)

Ex4Type ==
  [at : {"unloaded", "parse", "run_tests", "out", "returned", "oops"},
   int_str : Seq(Tokens), rest : Seq(Tokens), params : BOOLEAN,
   mylist : Seq(Ints), heap : Nat, err : BOOLEAN, printed : Seq(Ints)]

(* The tokens that strsep has taken off. *)
Taken4 == Len(ex4.int_str) - Len(ex4.rest)

(* The list holds the integers among the tokens taken, as long as no error *)
(* is seen; nothing is on the heap but the list and the copy of int_str.   *)
Ex4Inv ==
  /\ ex4 \in Ex4Type
  /\ ex4.heap = Len(ex4.mylist)
  /\ ex4.params => ex4.at \in {"parse", "oops"}
  /\ ex4.at = "parse" =>
       /\ Len(ex4.rest) <= Len(ex4.int_str)
       /\ \A k \in 1..Len(ex4.rest) : ex4.rest[k] = ex4.int_str[Taken4 + k]
       /\ ~ex4.err => ex4.mylist = Selected(ex4.int_str, Ints)[Taken4]
  /\ ex4.at = "run_tests" => ex4.mylist = Numbers(ex4.int_str) /\ ~ex4.err
  /\ ex4.at \in {"out", "returned"} /\ ~ex4.err => ex4.printed = Numbers(ex4.int_str)
  /\ ex4.at = "returned" => ex4.mylist = <<>>

(* insmod starts with nothing taken. *)
LEMMA Ex4InitStep ==
  ASSUME Ex4Inv, ex4_init
  PROVE  Ex4Inv'
<1>1. PICK n \in 0..MaxTokens : \E t \in [1..n -> Tokens] :
        LET s == [Ex4Unloaded EXCEPT !.int_str = t, !.rest = t]
        IN  \/ ex4' = [s EXCEPT !.at = "parse", !.params = TRUE]
            \/ ex4' = [s EXCEPT !.at = "out", !.err = TRUE]
  BY DEF ex4_init
<1>2. PICK t \in [1..n -> Tokens] :
        LET s == [Ex4Unloaded EXCEPT !.int_str = t, !.rest = t]
        IN  \/ ex4' = [s EXCEPT !.at = "parse", !.params = TRUE]
            \/ ex4' = [s EXCEPT !.at = "out", !.err = TRUE]
  BY <1>1
<1>3. t \in Seq(Tokens) /\ Len(t) = n /\ n \in Nat
  <2>1. n \in Nat
    <3>1. MaxTokens \in Nat /\ n \in 0..MaxTokens
      BY <1>1, Ex4Assumption
    <3> QED
      BY <3>1
  <2>2. t \in Seq(Tokens)
    BY <1>2, <2>1, SeqDef
  <2>3. DOMAIN t = 1..n /\ DOMAIN t = 1..Len(t) /\ Len(t) \in Nat
    BY <2>2, LenProperties
  <2> QED
    BY <2>1, <2>2, <2>3
<1>4. Selected(t, Ints)[0] = <<>>
  BY <1>3, SelectedDef
<1>5. <<>> \in Seq(Ints) /\ Len(<<>>) = 0
  BY EmptySeq
<1>6. CASE ex4' = [at |-> "parse", int_str |-> t, rest |-> t, params |-> TRUE, mylist |-> <<>>,
                   heap |-> 0, err |-> FALSE, printed |-> <<>>]
  <2>1. Taken4' = 0
    BY <1>3, <1>6 DEF Taken4
  <2>2. \A k \in 1..Len(t) : 0 + k = k
    BY <1>3
  <2> QED
    BY <1>3, <1>4, <1>5, <1>6, <2>1, <2>2 DEF Ex4Inv, Ex4Type
<1>7. CASE ex4' = [at |-> "out", int_str |-> t, rest |-> t, params |-> FALSE, mylist |-> <<>>,
                   heap |-> 0, err |-> TRUE, printed |-> <<>>]
  BY <1>3, <1>5, <1>7 DEF Ex4Inv, Ex4Type
<1> QED
  BY <1>2, <1>6, <1>7 DEF Ex4Unloaded

(* A token more is taken. *)
LEMMA TakeToken ==
  ASSUME ex4 \in Ex4Type, ex4.rest # <<>>, Len(ex4.rest) <= Len(ex4.int_str),
         \A k \in 1..Len(ex4.rest) : ex4.rest[k] = ex4.int_str[Taken4 + k],
         ex4'.rest = Tail(ex4.rest), ex4'.int_str = ex4.int_str
  PROVE  /\ Tail(ex4.rest) \in Seq(Tokens) /\ Head(ex4.rest) \in Tokens
         /\ Taken4 \in Nat /\ Taken4' = Taken4 + 1 /\ Taken4 + 1 \in 1..Len(ex4.int_str)
         /\ Len(ex4'.rest) <= Len(ex4'.int_str)
         /\ \A k \in 1..Len(ex4'.rest) : ex4'.rest[k] = ex4'.int_str[Taken4' + k]
         /\ Head(ex4.rest) = ex4.int_str[Taken4 + 1]
<1> DEFINE r == ex4.rest
           m == Len(ex4.int_str)
<1>1. r \in Seq(Tokens) /\ ex4.int_str \in Seq(Tokens) /\ r # <<>>
  BY DEF Ex4Type
<1>2. Len(r) \in Nat /\ Len(r) # 0 /\ m \in Nat /\ Len(r) <= m /\ Taken4 = m - Len(r)
  BY <1>1, EmptySeq, LenProperties DEF Taken4
<1>3. /\ Tail(r) \in Seq(Tokens) /\ Len(Tail(r)) = Len(r) - 1
      /\ \A k \in 1..Len(Tail(r)) : Tail(r)[k] = r[k + 1]
  BY <1>1, HeadTailProperties
<1>4. Head(r) = r[1] /\ Head(r) \in Tokens
  BY <1>1, HeadTailProperties
<1>5. \A k \in 1..Len(r) : r[k] = ex4.int_str[Taken4 + k]
  OBVIOUS
<1>6. Taken4' = m - Len(Tail(r)) /\ Len(ex4'.rest) = Len(Tail(r)) /\ Len(ex4'.int_str) = m
  BY DEF Taken4
<1> HIDE DEF r, m
<1>7. Taken4 \in Nat /\ Taken4' = Taken4 + 1 /\ Taken4 + 1 \in 1..m /\ Len(Tail(r)) <= m
  BY <1>2, <1>3, <1>6
<1>8. ASSUME NEW k \in 1..Len(Tail(r)) PROVE Tail(r)[k] = ex4.int_str[Taken4' + k]
  <2>1. k + 1 \in 1..Len(r) /\ Taken4 + (k + 1) = Taken4' + k
    BY <1>2, <1>3, <1>7
  <2> QED
    BY <1>3, <1>5, <2>1
<1>9. Head(r) = ex4.int_str[Taken4 + 1]
  <2>1. 1 \in 1..Len(r)
    BY <1>2
  <2> QED
    BY <1>4, <1>5, <2>1
<1>10. ex4'.rest = Tail(r) /\ ex4'.int_str = ex4.int_str
  BY DEF r
<1> QED
  BY <1>3, <1>4, <1>6, <1>7, <1>8, <1>9, <1>10 DEF r, m

(* One token, or the end of the loop. *)
LEMMA Ex4ParseStep ==
  ASSUME Ex4Inv, parse_params
  PROVE  Ex4Inv'
<1>1. /\ ex4 \in Ex4Type /\ ex4.at = "parse" /\ ex4.heap = Len(ex4.mylist)
      /\ Len(ex4.rest) <= Len(ex4.int_str)
      /\ \A k \in 1..Len(ex4.rest) : ex4.rest[k] = ex4.int_str[Taken4 + k]
      /\ ~ex4.err => ex4.mylist = Selected(ex4.int_str, Ints)[Taken4]
  BY DEF Ex4Inv, parse_params
<1>2. /\ ex4.int_str \in Seq(Tokens) /\ ex4.rest \in Seq(Tokens) /\ ex4.mylist \in Seq(Ints)
      /\ ex4.printed \in Seq(Ints) /\ ex4.err \in BOOLEAN /\ ex4.params \in BOOLEAN
      /\ ex4.heap \in Nat /\ Len(ex4.int_str) \in Nat
  BY <1>1 DEF Ex4Type
<1>3. CASE ex4.err \/ ex4.rest = <<>>
  <2>1. ex4' = [ex4 EXCEPT !.at = IF ex4.err THEN "out" ELSE "run_tests", !.params = FALSE]
    BY <1>3 DEF parse_params
  <2>2. CASE ex4.err
    BY <1>1, <1>2, <2>1, <2>2 DEF Ex4Inv, Ex4Type
  <2>3. CASE ~ex4.err
    <3>1. Taken4 = Len(ex4.int_str)
      <4>1. ex4.rest = <<>> /\ Len(<<>>) = 0
        BY <1>3, <2>3, EmptySeq
      <4> QED
        BY <1>2, <4>1 DEF Taken4
    <3>2. ex4.mylist = Numbers(ex4.int_str)
      BY <1>1, <2>3, <3>1 DEF Numbers
    <3> QED
      BY <1>1, <1>2, <2>1, <2>3, <3>2 DEF Ex4Inv, Ex4Type
  <2> QED
    BY <2>2, <2>3
<1>4. CASE ~ex4.err /\ ex4.rest # <<>>
  <2> DEFINE p == Head(ex4.rest)
             sel == Selected(ex4.int_str, Ints)
  <2>1. CASE ex4'.at = "oops" /\ ex4' = [ex4 EXCEPT !.at = "oops"]
    BY <1>1, <1>2, <2>1 DEF Ex4Inv, Ex4Type
  <2>2. ASSUME ex4'.rest = Tail(ex4.rest), ex4'.int_str = ex4.int_str
        PROVE  /\ Tail(ex4.rest) \in Seq(Tokens) /\ p \in Tokens
               /\ Taken4' = Taken4 + 1 /\ Taken4 + 1 \in 1..Len(ex4.int_str)
               /\ Len(ex4'.rest) <= Len(ex4'.int_str)
               /\ \A k \in 1..Len(ex4'.rest) : ex4'.rest[k] = ex4'.int_str[Taken4' + k]
               /\ sel[Taken4'] = IF p \in Ints THEN Append(sel[Taken4], p) ELSE sel[Taken4]
    <3>1. /\ Tail(ex4.rest) \in Seq(Tokens) /\ p \in Tokens
          /\ Taken4 \in Nat /\ Taken4' = Taken4 + 1 /\ Taken4 + 1 \in 1..Len(ex4.int_str)
          /\ Len(ex4'.rest) <= Len(ex4'.int_str)
          /\ \A k \in 1..Len(ex4'.rest) : ex4'.rest[k] = ex4'.int_str[Taken4' + k]
          /\ p = ex4.int_str[Taken4 + 1]
      BY <1>1, <1>4, <2>2, TakeToken
    <3>2. (Taken4 + 1) - 1 = Taken4
      BY <3>1
    <3>3. sel[Taken4 + 1] = IF ex4.int_str[Taken4 + 1] \in Ints
                            THEN Append(sel[Taken4], ex4.int_str[Taken4 + 1])
                            ELSE sel[Taken4]
      BY <1>2, <3>1, <3>2, SelectedDef
    <3> QED
      BY <3>1, <3>3
  <2>3. sel[Taken4] = ex4.mylist
    BY <1>1, <1>4
  <2>4. CASE p = "" /\ ex4' = [ex4 EXCEPT !.rest = Tail(@)]
    <3>1. ex4'.rest = Tail(ex4.rest) /\ ex4'.int_str = ex4.int_str /\ p \notin Ints
          /\ ex4'.mylist = ex4.mylist
      BY <1>1, <2>4, Ex4Assumption DEF Ex4Type
    <3>2. ex4'.mylist = Selected(ex4'.int_str, Ints)[Taken4']
      BY <2>2, <2>3, <3>1
    <3>3. ex4' \in Ex4Type
      BY <1>1, <2>2, <2>4, <3>1 DEF Ex4Type
    <3>4. ex4'.at = "parse" /\ ex4'.heap = Len(ex4'.mylist) /\ ex4'.params = ex4.params
      BY <1>1, <2>4 DEF Ex4Type
    <3> QED
      BY <2>2, <3>1, <3>2, <3>3, <3>4 DEF Ex4Inv
  <2>5. CASE p = "x" /\ ex4' = [ex4 EXCEPT !.rest = Tail(@), !.err = TRUE]
    <3>1. ex4'.rest = Tail(ex4.rest) /\ ex4'.int_str = ex4.int_str
      BY <1>1, <2>5 DEF Ex4Type
    <3>2. ex4' \in Ex4Type
      BY <1>1, <2>2, <2>5, <3>1 DEF Ex4Type
    <3>3. ex4'.at = "parse" /\ ex4'.heap = Len(ex4'.mylist) /\ ex4'.err
      BY <1>1, <2>5 DEF Ex4Type
    <3> QED
      BY <2>2, <3>1, <3>2, <3>3 DEF Ex4Inv
  <2>6. ASSUME p # "", p # "x", NEW garbage \in BOOLEAN,
               ex4' = [ex4 EXCEPT !.rest = Tail(@), !.mylist = Append(@, p),
                                  !.heap = @ + 1, !.err = garbage]
        PROVE  Ex4Inv'
    <3>1. ex4'.rest = Tail(ex4.rest) /\ ex4'.int_str = ex4.int_str
          /\ ex4'.mylist = Append(ex4.mylist, p) /\ ex4'.heap = ex4.heap + 1
          /\ ex4'.at = "parse"
      BY <1>1, <2>6 DEF Ex4Type
    <3>2. p \in Ints
      BY <2>2, <2>6, <3>1 DEF Tokens
    <3>3. /\ Append(ex4.mylist, p) \in Seq(Ints)
          /\ Len(Append(ex4.mylist, p)) = Len(ex4.mylist) + 1
      BY <1>2, <3>2, AppendProperties
    <3>4. ex4'.mylist = Selected(ex4'.int_str, Ints)[Taken4']
      BY <2>2, <2>3, <3>1, <3>2
    <3>5. ex4' \in Ex4Type
      <4>1. ex4.heap + 1 \in Nat
        BY <1>2
      <4> QED
        BY <1>1, <2>2, <2>6, <3>1, <3>3, <4>1 DEF Ex4Type
    <3>6. ex4'.heap = Len(ex4'.mylist)
      BY <1>1, <3>1, <3>3
    <3> QED
      BY <2>2, <3>1, <3>4, <3>5, <3>6 DEF Ex4Inv
  <2>7. \/ p = "" /\ ex4' = [ex4 EXCEPT !.rest = Tail(@)]
        \/ p = "x" /\ ex4' = [ex4 EXCEPT !.rest = Tail(@), !.err = TRUE]
        \/ p # "" /\ p # "x" /\ store_value(p)
    BY <1>4 DEF parse_params
  <2>8. CASE p # "" /\ p # "x" /\ store_value(p)
    <3>1. CASE ex4' = [ex4 EXCEPT !.at = "oops"]
      BY <1>1, <2>1, <3>1 DEF Ex4Type
    <3> QED
      BY <2>6, <2>8, <3>1 DEF store_value
  <2> QED
    BY <2>4, <2>5, <2>7, <2>8
<1> QED
  BY <1>2, <1>3, <1>4

(* The other steps, which take nothing more from int_str. *)
LEMMA Ex4OtherSteps ==
  ASSUME Ex4Inv, test_linked_list \/ destroy_linked_list_and_free \/ ex4_exit
  PROVE  Ex4Inv'
<1>1. /\ ex4 \in Ex4Type /\ ex4.heap = Len(ex4.mylist) /\ ex4.mylist \in Seq(Ints)
      /\ ex4.int_str \in Seq(Tokens) /\ Len(ex4.mylist) \in Nat
  BY DEF Ex4Inv, Ex4Type
<1>2. CASE test_linked_list
  <2>1. ex4.mylist = Numbers(ex4.int_str) /\ ~ex4.err /\ ~ex4.params
    BY <1>2 DEF Ex4Inv, test_linked_list
  <2> QED
    BY <1>1, <1>2, <2>1 DEF Ex4Inv, test_linked_list, Ex4Type
<1>3. CASE destroy_linked_list_and_free
  <2>1. /\ ex4.at = "out" /\ ~ex4.params
        /\ ~ex4.err => ex4.printed = Numbers(ex4.int_str)
    BY <1>3 DEF Ex4Inv, destroy_linked_list_and_free
  <2>2. CASE ex4.mylist = <<>>
    BY <1>1, <1>3, <2>1, <2>2 DEF Ex4Inv, destroy_linked_list_and_free, Ex4Type
  <2>3. CASE ex4.mylist # <<>>
    <3>1. Tail(ex4.mylist) \in Seq(Ints) /\ Len(Tail(ex4.mylist)) = Len(ex4.mylist) - 1
          /\ Len(ex4.mylist) - 1 \in Nat
      BY <1>1, <2>3, HeadTailProperties, EmptySeq
    <3>2. CASE ex4' = [ex4 EXCEPT !.mylist = Tail(@), !.heap = @ - 1]
      <4>1. ex4' \in Ex4Type
        BY <1>1, <3>1, <3>2 DEF Ex4Type
      <4>2. /\ ex4'.at = ex4.at /\ ex4'.params = ex4.params /\ ex4'.err = ex4.err
            /\ ex4'.printed = ex4.printed /\ ex4'.int_str = ex4.int_str
            /\ ex4'.mylist = Tail(ex4.mylist) /\ ex4'.heap = ex4.heap - 1
        BY <1>1, <3>2 DEF Ex4Type
      <4> QED
        BY <1>1, <2>1, <3>1, <4>1, <4>2 DEF Ex4Inv
    <3>3. CASE ex4' = [ex4 EXCEPT !.at = "oops"]
      BY <1>1, <2>1, <3>3 DEF Ex4Inv, Ex4Type
    <3> QED
      BY <1>3, <2>3, <3>2, <3>3 DEF destroy_linked_list_and_free
  <2> QED
    BY <2>2, <2>3
<1>4. CASE ex4_exit
  BY <1>4 DEF Ex4Inv, Ex4Type, Ex4Unloaded, ex4_exit
<1> QED
  BY <1>2, <1>3, <1>4

(* insmod of ex4 leaves nothing allocated, whatever it met and whatever    *)
(* store_value left in err, and printed every integer it was given, in     *)
(* order, if it returns 0: for any int_str.                                *)
THEOREM InsmodAccountsHolds == Ex4Spec => []InsmodAccounts
<1>1. Ex4Init => Ex4Inv
  BY DEF Ex4Init, Ex4Inv, Ex4Type, Ex4Unloaded
<1>2. Ex4Inv /\ [Ex4Next]_ex4_vars => Ex4Inv'
  <2> SUFFICES ASSUME Ex4Inv, [Ex4Next]_ex4_vars PROVE Ex4Inv'
    OBVIOUS
  <2>1. CASE ex4_init
    BY <2>1, Ex4InitStep
  <2>2. CASE parse_params
    BY <2>2, Ex4ParseStep
  <2>3. CASE test_linked_list \/ destroy_linked_list_and_free \/ ex4_exit
    BY <2>3, Ex4OtherSteps
  <2>4. CASE UNCHANGED ex4_vars
    BY <2>4 DEF ex4_vars, Ex4Inv, Taken4
  <2> QED
    BY <2>1, <2>2, <2>3, <2>4 DEF Ex4Next
<1>3. Ex4Inv => InsmodAccounts
  <2> SUFFICES ASSUME Ex4Inv, ex4.at = "returned" PROVE InsmodAccounts
    BY DEF InsmodAccounts
  <2>1. Len(<<>>) = 0
    BY EmptySeq
  <2> QED
    BY <2>1 DEF Ex4Inv, Ex4Type, InsmodAccounts
<1> QED
  BY <1>1, <1>2, <1>3, PTL DEF Ex4Spec

-----------------------------------------------------------------------------
(* proj2. *)

Count(s, v) == Cardinality({i \in DOMAIN s : s[i] = v})

(* The empty sequence has nothing. *)
LEMMA CountEmpty ==
  ASSUME NEW v
  PROVE  Count(<<>>, v) = 0
<1>1. {i \in DOMAIN <<>> : <<>>[i] = v} = {}
  OBVIOUS
<1> QED
  BY <1>1, FS_EmptySet DEF Count

(* Count is a number, for the positions are finite. *)
LEMMA CountNat ==
  ASSUME NEW S, NEW s \in Seq(S), NEW v
  PROVE  IsFiniteSet({i \in DOMAIN s : s[i] = v}) /\ Count(s, v) \in Nat
<1>1. Len(s) \in Nat /\ DOMAIN s = 1..Len(s)
  BY LenProperties
<1>2. IsFiniteSet(1..Len(s))
  BY <1>1, FS_Interval
<1>3. {i \in DOMAIN s : s[i] = v} \in SUBSET (1..Len(s))
  BY <1>1
<1>4. IsFiniteSet({i \in DOMAIN s : s[i] = v})
  BY <1>2, <1>3, FS_Subset
<1> QED
  BY <1>4, FS_CardinalityType DEF Count

(* A concatenation has what its two parts have. *)
LEMMA CountConcat ==
  ASSUME NEW S, NEW s \in Seq(S), NEW t \in Seq(S), NEW v
  PROVE  Count(s \o t, v) = Count(s, v) + Count(t, v)
<1> DEFINE m == Len(s)
           n == Len(t)
           A == {i \in DOMAIN s : s[i] = v}
           B == {i \in DOMAIN t : t[i] = v}
           C == {i \in m + 1..m + n : t[i - m] = v}
           f == [j \in B |-> m + j]
<1>1. /\ m \in Nat /\ n \in Nat /\ DOMAIN s = 1..m /\ DOMAIN t = 1..n
      /\ s \o t \in Seq(S) /\ Len(s \o t) = m + n
      /\ \A i \in 1..m + n : (s \o t)[i] = IF i <= m THEN s[i] ELSE t[i - m]
  BY LenProperties, ConcatProperties
<1>2. DOMAIN (s \o t) = 1..m + n
  BY <1>1, LenProperties
<1> HIDE DEF m, n
<1>3. {i \in DOMAIN (s \o t) : (s \o t)[i] = v} = A \cup C
  <2>1. ASSUME NEW i \in 1..m + n, (s \o t)[i] = v PROVE i \in A \cup C
    <3>1. CASE i <= m
      BY <1>1, <2>1, <3>1
    <3>2. CASE ~(i <= m)
      BY <1>1, <2>1, <3>2
    <3> QED
      BY <3>1, <3>2
  <2>2. ASSUME NEW i \in A PROVE i \in 1..m + n /\ (s \o t)[i] = v
    <3>1. i \in 1..m /\ s[i] = v
      BY <1>1, <2>2
    <3>2. i \in 1..m + n /\ i <= m
      BY <1>1, <3>1
    <3> QED
      BY <1>1, <3>1, <3>2
  <2>3. ASSUME NEW i \in C PROVE i \in 1..m + n /\ (s \o t)[i] = v
    <3>1. i \in m + 1..m + n /\ t[i - m] = v
      BY <2>3
    <3>2. i \in 1..m + n /\ ~(i <= m)
      BY <1>1, <3>1
    <3> QED
      BY <1>1, <3>1, <3>2
  <2> HIDE DEF A, C
  <2> QED
    BY <1>2, <2>1, <2>2, <2>3
<1>4. A \cap C = {}
  BY <1>1
<1>5. f \in Bijection(B, C)
  <2>1. \A j \in B : f[j] \in C
    <3> TAKE j \in B
    <3>1. j \in 1..n /\ t[j] = v
      BY <1>1
    <3>2. m + j \in m + 1..m + n /\ (m + j) - m = j
      BY <1>1, <3>1
    <3> QED
      BY <3>1, <3>2
  <2>2. \A j, k \in B : f[j] = f[k] => j = k
    BY <1>1
  <2>3. \A i \in C : i - m \in B /\ f[i - m] = i
    <3> TAKE i \in C
    <3>1. i - m \in 1..n /\ t[i - m] = v /\ m + (i - m) = i
      BY <1>1
    <3> QED
      BY <1>1, <3>1
  <2>4. f \in [B -> C]
    BY <2>1
  <2> HIDE DEF f, B, C
  <2>5. f \in Injection(B, C)
    BY <2>2, <2>4 DEF Injection, IsInjective
  <2>6. f \in Surjection(B, C)
    BY <2>3, <2>4 DEF Surjection
  <2> QED
    BY <2>5, <2>6 DEF Bijection
<1>6. IsFiniteSet(A) /\ IsFiniteSet(B)
  BY CountNat
<1> HIDE DEF f
<1>7. IsFiniteSet(C) /\ Cardinality(C) = Cardinality(B)
  BY <1>5, <1>6, FS_Bijection DEF ExistsBijection
<1> HIDE DEF A, B, C
<1>8. Cardinality(A \cup C) = Cardinality(A) + Cardinality(C) - Cardinality(A \cap C)
  BY <1>6, <1>7, FS_Union
<1>9. Cardinality(A \cap C) = 0 /\ Cardinality(A) \in Nat /\ Cardinality(C) \in Nat
  BY <1>4, <1>6, <1>7, FS_EmptySet, FS_CardinalityType
<1>10. Count(s, v) = Cardinality(A) /\ Count(t, v) = Cardinality(B)
       /\ Count(s \o t, v) = Cardinality(A \cup C)
  BY <1>3 DEF Count, A, B
<1> QED
  BY <1>7, <1>8, <1>9, <1>10

(* A sequence of one. *)
LEMMA CountOne ==
  ASSUME NEW x, NEW v
  PROVE  Count(<<x>>, v) = IF x = v THEN 1 ELSE 0
<1>1. DOMAIN <<x>> = {1} /\ <<x>>[1] = x
  OBVIOUS
<1>2. CASE x = v
  <2>1. {i \in DOMAIN <<x>> : <<x>>[i] = v} = {1}
    BY <1>1, <1>2
  <2> QED
    BY <1>2, <2>1, FS_Singleton DEF Count
<1>3. CASE x # v
  <2>1. {i \in DOMAIN <<x>> : <<x>>[i] = v} = {}
    BY <1>1, <1>3
  <2> QED
    BY <1>3, <2>1, FS_EmptySet DEF Count
<1> QED
  BY <1>2, <1>3

(* The rows of the hash table's printing, a bucket after the other. *)
LEMMA HashRowDef ==
  ASSUME NEW t
  PROVE  \E row : /\ HashRow(t) = row[HashSize]
                  /\ row[0] = <<>>
                  /\ \A n \in 1..HashSize : row[n] = row[n - 1] \o t[n - 1]
<1> DEFINE Val(f, i) == IF i = 0 THEN <<>> ELSE f[i - 1] \o t[i - 1]
           Good(f, n) == f = [i \in 0..n |-> Val(f, i)]
           G == {n \in Nat : \E f : Good(f, n)}
<1>0. HashSize \in Nat
  BY Proj2Assumption
<1>1. 0 \in G
  <2> DEFINE g == [i \in 0..0 |-> <<>>]
  <2>1. Good(g, 0)
    OBVIOUS
  <2> QED
    BY <2>1
<1>2. ASSUME NEW n \in Nat, NEW f, Good(f, n)
      PROVE  \E g : Good(g, n + 1)
  <2> DEFINE g == [i \in 0..n + 1 |-> IF i = n + 1 THEN Val(f, n + 1) ELSE f[i]]
  <2>1. \A i \in 0..n : g[i] = f[i] /\ f[i] = Val(f, i)
    <3> TAKE i \in 0..n
    <3>1. i # n + 1 /\ i \in 0..n + 1
      OBVIOUS
    <3>2. f[i] = Val(f, i)
      BY <1>2
    <3> QED
      BY <3>1, <3>2
  <2>2. \A i \in 0..n + 1 : g[i] = Val(g, i)
    <3> SUFFICES ASSUME NEW i \in 0..n + 1 PROVE g[i] = Val(g, i)
      OBVIOUS
    <3>1. CASE i = n + 1
      <4>1. i # 0 /\ i - 1 = n /\ n \in 0..n
        BY <3>1
      <4> QED
        BY <2>1, <3>1, <4>1
    <3>2. CASE i = 0
      <4>1. i \in 0..n
        BY <3>2
      <4> QED
        BY <2>1, <3>2, <4>1
    <3>3. CASE i # n + 1 /\ i # 0
      <4>1. i \in 0..n /\ i - 1 \in 0..n
        BY <3>3
      <4> QED
        BY <2>1, <3>3, <4>1
    <3> QED
      BY <3>1, <3>2, <3>3
  <2>3. Good(g, n + 1)
    BY <2>2
  <2> QED
    BY <2>3
<1>3. ASSUME NEW n \in Nat, n \in G PROVE n + 1 \in G
  <2> HIDE DEF Good
  <2> QED
    BY <1>2, <1>3
<1> HIDE DEF G
<1>4. HashSize \in G
  BY <1>0, <1>1, <1>3, Inductive
<1>5. \E f : Good(f, HashSize)
  BY <1>4 DEF G
<1> DEFINE row == CHOOSE f : Good(f, HashSize)
<1>6. HashRow(t) = row[HashSize]
  BY Zenon DEF HashRow
<1>7. Good(row, HashSize)
  BY <1>5
<1> HIDE DEF row
<1>8. \A i \in 0..HashSize : row[i] = Val(row, i)
  BY <1>7
<1>9. row[0] = <<>> /\ \A n \in 1..HashSize : row[n] = row[n - 1] \o t[n - 1]
  <2>1. 0 \in 0..HashSize /\ \A n \in 1..HashSize : n \in 0..HashSize /\ n # 0
    BY <1>0
  <2> QED
    BY <1>8, <2>1
<1> QED
  BY <1>6, <1>9

(* A value is printed as often as its bucket has it. *)
LEMMA HashRowCount ==
  ASSUME NEW t \in [Buckets -> Seq(Vals)], NEW v \in Vals,
         \A b \in Buckets : \A i \in DOMAIN t[b] : hash_min(t[b][i]) = b
  PROVE  Count(HashRow(t), v) = Count(t[hash_min(v)], v)
<1> DEFINE h == hash_min(v)
<1>1. PICK row : /\ HashRow(t) = row[HashSize]
                 /\ row[0] = <<>>
                 /\ \A n \in 1..HashSize : row[n] = row[n - 1] \o t[n - 1]
  BY HashRowDef
<1>2. HashSize \in Nat \ {0} /\ v \in Int
  BY Proj2Assumption
<1>3. h \in 0..HashSize - 1
  BY <1>2 DEF hash_min
<1>4. \A b \in Buckets : b # h => Count(t[b], v) = 0
  <2> TAKE b \in Buckets
  <2> HAVE b # h
  <2>1. {i \in DOMAIN t[b] : t[b][i] = v} = {}
    OBVIOUS
  <2> QED
    BY <2>1, FS_EmptySet DEF Count
<1> HIDE DEF h
<1> DEFINE G == {n \in Nat : n <= HashSize =>
                   /\ row[n] \in Seq(Vals)
                   /\ Count(row[n], v) = IF h < n THEN Count(t[h], v) ELSE 0}
<1>5. 0 \in G
  <2>1. Count(row[0], v) = 0 /\ row[0] \in Seq(Vals)
    BY <1>1, CountEmpty, EmptySeq
  <2>2. ~(h < 0)
    BY <1>2, <1>3
  <2> QED
    BY <2>1, <2>2
<1>6. ASSUME NEW n \in Nat, n \in G PROVE n + 1 \in G
  <2> SUFFICES ASSUME n + 1 <= HashSize
               PROVE  /\ row[n + 1] \in Seq(Vals)
                      /\ Count(row[n + 1], v) = IF h < n + 1 THEN Count(t[h], v) ELSE 0
    OBVIOUS
  <2>1. n \in Buckets /\ n + 1 \in 1..HashSize /\ (n + 1) - 1 = n /\ n <= HashSize
    BY <1>2 DEF Buckets
  <2>2. row[n + 1] = row[n] \o t[n]
    BY <1>1, <2>1
  <2>3. row[n] \in Seq(Vals) /\ Count(row[n], v) = IF h < n THEN Count(t[h], v) ELSE 0
    BY <1>6, <2>1
  <2>4. t[n] \in Seq(Vals)
    BY <2>1
  <2>5. row[n + 1] \in Seq(Vals) /\ Count(row[n + 1], v) = Count(row[n], v) + Count(t[n], v)
    BY <2>2, <2>3, <2>4, ConcatProperties, CountConcat
  <2>6. Count(t[n], v) \in Nat /\ (h = n => Count(t[h], v) \in Nat)
    BY <2>4, CountNat
  <2>7. CASE h = n
    <3>1. ~(h < n) /\ h < n + 1
      BY <1>2, <1>3, <2>7
    <3> QED
      BY <2>3, <2>5, <2>6, <2>7, <3>1
  <2>8. CASE h # n
    <3>1. Count(t[n], v) = 0
      BY <1>4, <2>1, <2>8
    <3>2. h < n + 1 <=> h < n
      BY <1>2, <1>3, <2>8
    <3>3. Count(row[n], v) \in Nat
      BY <2>3, CountNat
    <3> QED
      BY <2>3, <2>5, <3>1, <3>2, <3>3
  <2> QED
    BY <2>7, <2>8
<1> HIDE DEF G
<1>7. HashSize \in G
  BY <1>2, <1>5, <1>6, Inductive
<1>8. h < HashSize
  BY <1>2, <1>3
<1> QED
  BY <1>1, <1>2, <1>7, <1>8 DEF G, h

(* An enumeration of a set of integers, the smallest first. *)
Enumerates(s, n, S) ==
  /\ s \in [1..n -> S]
  /\ \A i, j \in 1..n : i < j => s[i] < s[j]
  /\ \A x \in S : \E i \in 1..n : s[i] = x

(* Two increasing sequences in an integer set, as long as the set has      *)
(* members, are the same.                                                  *)
LEMMA EnumeratesSame ==
  ASSUME NEW S, S \subseteq Int, NEW n \in Nat, NEW q, NEW s,
         Enumerates(q, n, S), Enumerates(s, n, S)
  PROVE  q = s
<1> DEFINE D == {i \in 1..n : q[i] # s[i]}
<1>1. /\ \A i \in 1..n : q[i] \in Int /\ s[i] \in Int /\ q[i] \in S /\ s[i] \in S
      /\ \A i, j \in 1..n : i < j => q[i] < q[j] /\ s[i] < s[j]
  BY DEF Enumerates
<1>2. \A x \in S : (\E i \in 1..n : s[i] = x) /\ (\E i \in 1..n : q[i] = x)
  BY DEF Enumerates
<1>3. ASSUME NEW k \in 1..n, \A i \in 1..n : i < k => q[i] = s[i],
             q[k] < s[k]
      PROVE  FALSE
  <2>1. PICK j \in 1..n : s[j] = q[k]
    BY <1>1, <1>2
  <2>2. CASE j < k
    <3>1. q[j] = q[k] /\ q[j] < q[k]
      BY <1>1, <1>3, <2>1, <2>2
    <3> QED
      BY <1>1, <3>1
  <2>3. CASE j = k
    BY <1>1, <1>3, <2>1, <2>3
  <2>4. CASE k < j
    <3>1. s[k] < q[k]
      BY <1>1, <2>1, <2>4
    <3> QED
      BY <1>1, <1>3, <3>1
  <2> QED
    BY <2>2, <2>3, <2>4
<1>4. ASSUME NEW k \in 1..n, \A i \in 1..n : i < k => q[i] = s[i],
             s[k] < q[k]
      PROVE  FALSE
  <2>1. PICK j \in 1..n : q[j] = s[k]
    BY <1>1, <1>2
  <2>2. CASE j < k
    <3>1. s[j] = s[k] /\ s[j] < s[k]
      BY <1>1, <1>4, <2>1, <2>2
    <3> QED
      BY <1>1, <3>1
  <2>3. CASE j = k
    BY <1>1, <1>4, <2>1, <2>3
  <2>4. CASE k < j
    <3>1. q[k] < s[k]
      BY <1>1, <2>1, <2>4
    <3> QED
      BY <1>1, <1>4, <3>1
  <2> QED
    BY <2>2, <2>3, <2>4
<1>5. D = {}
  <2> SUFFICES ASSUME D # {} PROVE FALSE
    OBVIOUS
  <2>1. D \subseteq Nat
    OBVIOUS
  <2>2. PICK k \in D : \A y \in D : k <= y
    BY <2>1, NatMin
  <2>3. k \in 1..n /\ q[k] # s[k]
    BY <2>2
  <2>4. \A i \in 1..n : i < k => q[i] = s[i]
    BY <2>2, <2>3
  <2>5. q[k] < s[k] \/ s[k] < q[k]
    BY <1>1, <2>3
  <2> QED
    BY <1>3, <1>4, <2>3, <2>4, <2>5
<1>6. \A i \in 1..n : q[i] = s[i]
  BY <1>5
<1>7. q \in [1..n -> S] /\ s \in [1..n -> S]
  BY DEF Enumerates
<1> QED
  BY <1>6, <1>7

(* A sequence that goes up has no value twice. *)
LEMMA IncreasingIsInjective ==
  ASSUME NEW S, S \subseteq Int, NEW n \in Nat, NEW q \in [1..n -> S],
         \A i, j \in 1..n : i < j => q[i] < q[j]
  PROVE  q \in Injection(1..n, S)
<1>1. ASSUME NEW i \in 1..n, NEW j \in 1..n, q[i] = q[j] PROVE i = j
  <2>1. q[i] \in Int /\ q[j] \in Int
    OBVIOUS
  <2>2. CASE i < j
    <3>1. q[i] < q[j]
      BY <2>2
    <3> QED
      BY <1>1, <2>1, <3>1
  <2>3. CASE j < i
    <3>1. q[j] < q[i]
      BY <2>3
    <3> QED
      BY <1>1, <2>1, <3>1
  <2> QED
    BY <2>2, <2>3
<1> QED
  BY <1>1 DEF Injection, IsInjective

(* Ascending is the enumeration, where there is one. *)
LEMMA AscendingIs ==
  ASSUME NEW S, S \subseteq Int, NEW n \in Nat, NEW s, Enumerates(s, n, S)
  PROVE  IsFiniteSet(S) /\ Cardinality(S) = n /\ Ascending(S) = s
<1>1. /\ s \in [1..n -> S]
      /\ \A i, j \in 1..n : i < j => s[i] < s[j]
      /\ \A x \in S : \E i \in 1..n : s[i] = x
  BY DEF Enumerates
<1>2. s \in Bijection(1..n, S)
  <2>1. s \in Injection(1..n, S)
    BY <1>1, IncreasingIsInjective
  <2>2. s \in Surjection(1..n, S)
    BY <1>1 DEF Surjection
  <2> QED
    BY <2>1, <2>2 DEF Bijection
<1>3. IsFiniteSet(1..n) /\ Cardinality(1..n) = n
  BY FS_Interval
<1>4. IsFiniteSet(S) /\ Cardinality(S) = n
  BY <1>2, <1>3, FS_Bijection DEF ExistsBijection
<1> DEFINE q == Ascending(S)
<1>5. q \in [1..n -> S] /\ \A i, j \in 1..n : i < j => q[i] < q[j]
  BY <1>1, <1>4 DEF Ascending
<1> HIDE DEF q
<1>6. q \in Injection(1..n, S)
  BY <1>5, IncreasingIsInjective
<1>7. q \in Surjection(1..n, S)
  BY <1>3, <1>4, <1>6, FS_Injection
<1>8. Enumerates(q, n, S)
  BY <1>5, <1>7 DEF Enumerates, Surjection
<1>9. q = s
  BY <1>8, EnumeratesSame
<1> QED
  BY <1>4, <1>9 DEF q

(* A finite set of integers has a largest, and so an enumeration. *)
LEMMA FiniteMax ==
  ASSUME NEW n \in Nat, NEW S, S \subseteq Int, IsFiniteSet(S), Cardinality(S) = n + 1
  PROVE  \E x \in S : \A y \in S : y <= x
<1> DEFINE Has(T) == \E x \in T : \A y \in T : y <= x
           G == {k \in Nat : \A T : T \subseteq Int /\ IsFiniteSet(T) /\ Cardinality(T) = k + 1
                                      => Has(T)}
<1>1. 0 \in G
  <2> SUFFICES ASSUME NEW T, T \subseteq Int, IsFiniteSet(T), Cardinality(T) = 0 + 1
               PROVE  Has(T)
    OBVIOUS
  <2>0. Cardinality(T) = 1
    OBVIOUS
  <2>1. PICK x : T = {x}
    BY <2>0, FS_Singleton
  <2> QED
    BY <2>1
<1>2. ASSUME NEW k \in Nat, k \in G PROVE k + 1 \in G
  <2> SUFFICES ASSUME NEW T, T \subseteq Int, IsFiniteSet(T), Cardinality(T) = (k + 1) + 1
               PROVE  Has(T)
    OBVIOUS
  <2>1. T # {}
    BY FS_EmptySet
  <2>2. PICK z : z \in T
    BY <2>1
  <2>3. IsFiniteSet(T \ {z}) /\ Cardinality(T \ {z}) = k + 1
    BY <2>2, FS_RemoveElement
  <2>4. Has(T \ {z})
    <3>1. T \ {z} \subseteq Int
      OBVIOUS
    <3> HIDE DEF Has
    <3> QED
      BY <1>2, <2>3, <3>1
  <2>5. PICK x \in T \ {z} : \A y \in T \ {z} : y <= x
    BY <2>4
  <2>6. x \in Int /\ z \in Int /\ x \in T
    BY <2>2, <2>5
  <2>7. CASE z <= x
    BY <2>5, <2>6, <2>7
  <2>8. CASE ~(z <= x)
    <3>1. \A y \in T : y <= z
      BY <2>5, <2>6, <2>8
    <3> QED
      BY <2>2, <3>1
  <2> QED
    BY <2>7, <2>8
<1> HIDE DEF G
<1>3. n \in G
  BY <1>1, <1>2, Inductive
<1> QED
  BY <1>3 DEF G

(* Ascending enumerates every finite set of integers. *)
LEMMA HasEnumeration ==
  ASSUME NEW S, S \subseteq Int, IsFiniteSet(S)
  PROVE  Enumerates(Ascending(S), Cardinality(S), S)
<1> DEFINE G == {k \in Nat : \A T : T \subseteq Int /\ IsFiniteSet(T) /\ Cardinality(T) = k
                                      => \E q : Enumerates(q, k, T)}
<1>1. 0 \in G
  <2> SUFFICES ASSUME NEW T, T \subseteq Int, IsFiniteSet(T), Cardinality(T) = 0
               PROVE  \E q : Enumerates(q, 0, T)
    OBVIOUS
  <2>1. T = {}
    BY FS_EmptySet
  <2> DEFINE e == [i \in 1..0 |-> i]
  <2>2. Enumerates(e, 0, T)
    BY <2>1 DEF Enumerates
  <2> QED
    BY <2>2
<1>2. ASSUME NEW k \in Nat, k \in G PROVE k + 1 \in G
  <2> SUFFICES ASSUME NEW T, T \subseteq Int, IsFiniteSet(T), Cardinality(T) = k + 1
               PROVE  \E q : Enumerates(q, k + 1, T)
    OBVIOUS
  <2>1. PICK x \in T : \A y \in T : y <= x
    BY FiniteMax
  <2> DEFINE U == T \ {x}
  <2>2. U \subseteq Int /\ IsFiniteSet(U) /\ Cardinality(U) = k
    <3>1. IsFiniteSet(U) /\ Cardinality(U) = (k + 1) - 1
      BY <2>1, FS_RemoveElement
    <3> QED
      BY <3>1
  <2>3. PICK q : Enumerates(q, k, U)
    BY <1>2, <2>2
  <2>4. /\ q \in [1..k -> U]
        /\ \A i, j \in 1..k : i < j => q[i] < q[j]
        /\ \A y \in U : \E i \in 1..k : q[i] = y
    BY <2>3 DEF Enumerates
  <2> DEFINE r == [i \in 1..k + 1 |-> IF i = k + 1 THEN x ELSE q[i]]
  <2>5. \A i \in 1..k : i \in 1..k + 1 /\ r[i] = q[i] /\ q[i] \in T /\ q[i] < x /\ q[i] \in Int
    <3> TAKE i \in 1..k
    <3>1. i \in 1..k + 1 /\ i # k + 1
      OBVIOUS
    <3>2. q[i] \in T /\ q[i] # x /\ q[i] \in Int /\ x \in Int
      BY <2>1, <2>4
    <3> QED
      BY <2>1, <3>1, <3>2
  <2>6. k + 1 \in 1..k + 1 /\ r[k + 1] = x
    OBVIOUS
  <2>7. \A i \in 1..k + 1 : i \in 1..k \/ i = k + 1
    OBVIOUS
  <2>8. r \in [1..k + 1 -> T]
    BY <2>1, <2>5, <2>6, <2>7
  <2> HIDE DEF r
  <2>9. ASSUME NEW i \in 1..k + 1, NEW j \in 1..k + 1, i < j PROVE r[i] < r[j]
    <3>1. i \in 1..k
      BY <2>9
    <3>2. CASE j \in 1..k
      BY <2>4, <2>5, <2>9, <3>1, <3>2
    <3>3. CASE j = k + 1
      BY <2>5, <2>6, <3>1, <3>3
    <3> QED
      BY <2>7, <3>2, <3>3
  <2>10. ASSUME NEW y \in T PROVE \E i \in 1..k + 1 : r[i] = y
    <3>1. CASE y = x
      BY <2>6, <3>1
    <3>2. CASE y # x
      <4>1. PICK i \in 1..k : q[i] = y
        BY <2>4, <2>10, <3>2
      <4> QED
        BY <2>5, <4>1
    <3> QED
      BY <3>1, <3>2
  <2>11. Enumerates(r, k + 1, T)
    BY <2>8, <2>9, <2>10 DEF Enumerates
  <2> QED
    BY <2>11
<1> HIDE DEF G
<1>3. Cardinality(S) \in Nat
  BY FS_CardinalityType
<1>4. Cardinality(S) \in G
  BY <1>1, <1>2, <1>3, Inductive
<1>5. PICK q : Enumerates(q, Cardinality(S), S)
  BY <1>4 DEF G
<1>6. Ascending(S) = q
  BY <1>3, <1>5, AscendingIs
<1> QED
  BY <1>5, <1>6

(* The keys are in the order of the values, but for the negative ones,     *)
(* which come last.                                                        *)
LEMMA KeyOrder ==
  ASSUME NEW v \in Vals, NEW w \in Vals
  PROVE  /\ v \in Int /\ v % Wrap \in Int
         /\ v >= 0 /\ w >= 0 /\ v < w => v % Wrap < w % Wrap
         /\ v < 0 /\ w < 0 /\ v < w => v % Wrap < w % Wrap
         /\ v >= 0 /\ w < 0 => v % Wrap < w % Wrap
<1>1. /\ v \in Int /\ w \in Int /\ Wrap \in Nat \ {0}
      /\ -Wrap < v /\ v < Wrap /\ -Wrap < w /\ w < Wrap /\ v - w < Wrap
  BY Proj2Assumption
<1>2. v % Wrap = IF v >= 0 THEN v ELSE v + Wrap
  BY <1>1
<1>3. w % Wrap = IF w >= 0 THEN w ELSE w + Wrap
  BY <1>1
<1> QED
  BY <1>1, <1>2, <1>3

(* A key gives its value back. *)
LEMMA ValOfKey ==
  ASSUME NEW v \in Vals
  PROVE  ValOf(v % Wrap) = v
<1>1. ASSUME NEW w \in Vals, w % Wrap = v % Wrap PROVE w = v
  <2>1. v \in Int /\ w \in Int /\ v % Wrap \in Int
    BY KeyOrder
  <2>2. /\ v < w => v % Wrap < w % Wrap \/ (v < 0 /\ w >= 0)
        /\ w < v => w % Wrap < v % Wrap \/ (w < 0 /\ v >= 0)
    BY <2>1, KeyOrder
  <2>3. /\ v < 0 /\ w >= 0 => w % Wrap < v % Wrap
        /\ w < 0 /\ v >= 0 => v % Wrap < w % Wrap
    BY KeyOrder
  <2>4. ~(v % Wrap < w % Wrap) /\ ~(w % Wrap < v % Wrap)
    BY <1>1, <2>1
  <2> QED
    BY <2>1, <2>2, <2>3, <2>4
<1> QED
  BY <1>1 DEF ValOf

(* Key by key, the values from 0 up come before the negative ones. *)
LEMMA RadixRow ==
  ASSUME NEW g, g \subseteq Vals, IsFiniteSet(g), NEW keys, keys = {v % Wrap : v \in g}
  PROVE  [i \in 1..Cardinality(keys) |-> ValOf(Ascending(keys)[i])]
           = Ascending({v \in g : v >= 0}) \o Ascending({v \in g : v < 0})
<1> DEFINE P == {v \in g : v >= 0}
           N == {v \in g : v < 0}
           a == Ascending(P)
           b == Ascending(N)
           p == Cardinality(P)
           n == Cardinality(N)
           c == a \o b
           s == [i \in 1..p + n |-> c[i] % Wrap]
<1>0. Vals \subseteq Int
  BY Proj2Assumption
<1>1. P \subseteq Int /\ IsFiniteSet(P) /\ N \subseteq Int /\ IsFiniteSet(N)
  <2>1. P \in SUBSET g /\ N \in SUBSET g
    OBVIOUS
  <2> QED
    BY <1>0, <2>1, FS_Subset
<1>2. Enumerates(a, p, P) /\ Enumerates(b, n, N) /\ p \in Nat /\ n \in Nat
  BY <1>1, HasEnumeration, FS_CardinalityType
<1>3. /\ a \in [1..p -> P] /\ b \in [1..n -> N]
      /\ \A i, j \in 1..p : i < j => a[i] < a[j]
      /\ \A i, j \in 1..n : i < j => b[i] < b[j]
      /\ \A x \in P : \E i \in 1..p : a[i] = x
      /\ \A x \in N : \E i \in 1..n : b[i] = x
  BY <1>2 DEF Enumerates
<1>4. /\ \A v \in P : v \in Vals /\ v >= 0 /\ v \in g
      /\ \A v \in N : v \in Vals /\ v < 0 /\ v \in g
      /\ \A v \in g : v \in P \/ v \in N
  BY <1>0
<1> HIDE DEF P, N, a, b, p, n
<1>5. a \in Seq(g) /\ Len(a) = p /\ b \in Seq(g) /\ Len(b) = n
  <2>1. a \in [1..p -> g] /\ b \in [1..n -> g]
    BY <1>3, <1>4
  <2>2. a \in Seq(g) /\ b \in Seq(g)
    BY <1>2, <2>1, SeqDef
  <2>3. Len(a) \in Nat /\ DOMAIN a = 1..Len(a) /\ DOMAIN a = 1..p
        /\ Len(b) \in Nat /\ DOMAIN b = 1..Len(b) /\ DOMAIN b = 1..n
    BY <2>1, <2>2, LenProperties
  <2>4. \A l, m \in Nat : 1..l = 1..m => l = m
    <3> TAKE l, m \in Nat
    <3> HAVE 1..l = 1..m
    <3>1. l < m => m \in 1..m /\ m \notin 1..l
      OBVIOUS
    <3>2. m < l => l \in 1..l /\ l \notin 1..m
      OBVIOUS
    <3> QED
      BY <3>1, <3>2
  <2> QED
    BY <1>2, <2>2, <2>3, <2>4
<1>6. /\ c \in Seq(g) /\ Len(c) = p + n
      /\ \A i \in 1..p + n : c[i] = IF i <= p THEN a[i] ELSE b[i - p]
  BY <1>5, ConcatProperties
<1> HIDE DEF c
<1>7. \A i \in 1..p : i \in 1..p + n /\ c[i] = a[i] /\ c[i] \in P
  BY <1>2, <1>3, <1>6
<1>8. \A i \in p + 1..p + n : i \in 1..p + n /\ i - p \in 1..n /\ c[i] = b[i - p] /\ c[i] \in N
  <2> TAKE i \in p + 1..p + n
  <2>1. i \in 1..p + n /\ i - p \in 1..n /\ ~(i <= p)
    BY <1>2
  <2> QED
    BY <1>3, <1>6, <2>1
<1>9. \A i \in 1..p + n : i \in 1..p \/ i \in p + 1..p + n
  BY <1>2
<1>10. \A i \in 1..p + n : s[i] = c[i] % Wrap /\ c[i] \in g
  BY <1>4, <1>7, <1>8, <1>9
<1>11. s \in [1..p + n -> keys]
  BY <1>10
<1> HIDE DEF s
<1>12. ASSUME NEW i \in 1..p + n, NEW j \in 1..p + n, i < j PROVE s[i] < s[j]
  <2>1. CASE i \in 1..p /\ j \in 1..p
    <3>1. c[i] < c[j] /\ c[i] \in P /\ c[j] \in P
      BY <1>3, <1>7, <1>12, <2>1
    <3> QED
      BY <1>4, <1>10, <3>1, KeyOrder
  <2>2. CASE i \in 1..p /\ j \in p + 1..p + n
    <3>1. c[i] \in P /\ c[j] \in N
      BY <1>7, <1>8, <2>2
    <3> QED
      BY <1>4, <1>10, <3>1, KeyOrder
  <2>3. CASE i \in p + 1..p + n /\ j \in p + 1..p + n
    <3>1. i - p \in 1..n /\ j - p \in 1..n /\ i - p < j - p
      BY <1>2, <1>12, <2>3
    <3>2. c[i] < c[j] /\ c[i] \in N /\ c[j] \in N
      BY <1>3, <1>8, <2>3, <3>1
    <3> QED
      BY <1>4, <1>10, <3>2, KeyOrder
  <2>4. ~(i \in p + 1..p + n /\ j \in 1..p)
    BY <1>2, <1>12
  <2> QED
    BY <1>9, <2>1, <2>2, <2>3, <2>4
<1>13. ASSUME NEW x \in keys PROVE \E i \in 1..p + n : s[i] = x
  <2>1. PICK v \in g : x = v % Wrap
    BY <1>13
  <2>2. CASE v \in P
    <3>1. PICK i \in 1..p : a[i] = v
      BY <1>3, <2>2
    <3> QED
      BY <1>7, <1>10, <2>1, <3>1
  <2>3. CASE v \in N
    <3>1. PICK i \in 1..n : b[i] = v
      BY <1>3, <2>3
    <3>2. i + p \in p + 1..p + n /\ (i + p) - p = i
      BY <1>2, <3>1
    <3>3. c[i + p] = v /\ i + p \in 1..p + n
      BY <1>8, <3>1, <3>2
    <3> QED
      BY <1>10, <2>1, <3>3
  <2> QED
    BY <1>4, <2>1, <2>2, <2>3
<1>14. Enumerates(s, p + n, keys)
  BY <1>11, <1>12, <1>13 DEF Enumerates
<1>15. keys \subseteq Int /\ p + n \in Nat
  <2>1. \A v \in g : v % Wrap \in Int
    BY KeyOrder
  <2> QED
    BY <1>2, <2>1
<1>16. Cardinality(keys) = p + n /\ Ascending(keys) = s
  BY <1>14, <1>15, AscendingIs
<1>17. \A i \in 1..p + n : ValOf(s[i]) = c[i]
  BY <1>10, ValOfKey
<1>18. c \in [1..p + n -> g]
  BY <1>6, LenProperties
<1>19. [i \in 1..p + n |-> ValOf(s[i])] = c
  BY <1>17, <1>18
<1> QED
  BY <1>16, <1>19 DEF c, a, b, P, N

P2Toks == Vals \union {NoTok, BadTok}
SharedType == [mylist : Seq(Vals), myHTable : [Buckets -> Seq(Vals)],
               root : SUBSET Vals, radix_tree : SUBSET Int]
Members(g) == {g[i] : i \in DOMAIN g}

(* The structures hold the values given: each in its bucket, as often. *)
Stored(s, g) ==
  /\ s \in SharedType
  /\ s.mylist = g
  /\ s.root = Members(g)
  /\ s.radix_tree = {v % Wrap : v \in Members(g)}
  /\ \A b \in Buckets : \A i \in DOMAIN s.myHTable[b] : hash_min(s.myHTable[b][i]) = b
  /\ \A v \in Vals : Count(s.myHTable[hash_min(v)], v) = Count(g, v)

Shows(text) ==
  /\ text[1] = Given
  /\ \A v \in Vals : Count(text[2], v) = Count(Given, v)
  /\ text[3] = Ascending(GivenSet)
  /\ text[4] = Ascending({v \in GivenSet : v >= 0}) \o Ascending({v \in GivenSet : v < 0})

P2Types ==
  /\ int_str \in Seq(P2Toks)
  /\ rd = [at |-> rd.at, rest |-> rd.rest, err |-> rd.err, text |-> rd.text, small |-> rd.small]
  /\ rd.rest \in Seq(P2Toks)
  /\ rd.err \in BOOLEAN

Taken2 == Len(int_str) - Len(rd.rest)

(* Between reads the structures are empty; while int_str is parsed they    *)
(* hold the values of the tokens taken; what was printed stays as it is.   *)
P2Inv ==
  /\ P2Types
  /\ rd.at \in {"unloaded", "null", "user", "refused", "done", "read"} => shared = Nothing
  /\ rd.at = "parse" =>
       /\ Len(rd.rest) <= Len(int_str)
       /\ \A k \in 1..Len(rd.rest) : rd.rest[k] = int_str[Taken2 + k]
       /\ Stored(shared, Selected(int_str, Vals)[Taken2])
       /\ ~rd.err
  /\ rd.at = "print" => Stored(shared, Given) /\ ~rd.err
  /\ rd.at \in {"out", "done", "read"} /\ ~rd.err => Shows(rd.text)

(* The empty structures hold the empty sequence. *)
LEMMA NothingStored == Stored(Nothing, <<>>)
<1>1. <<>> \in Seq(Vals) /\ Members(<<>>) = {}
  BY EmptySeq DEF Members
<1>2. Nothing \in SharedType
  BY <1>1 DEF Nothing, SharedType
<1>3. \A b \in Buckets : Nothing.myHTable[b] = <<>>
  BY DEF Nothing
<1>4. \A v \in Vals : hash_min(v) \in Buckets
  BY Proj2Assumption DEF hash_min, Buckets
<1>5. \A v \in Vals : Count(Nothing.myHTable[hash_min(v)], v) = Count(<<>>, v)
  BY <1>3, <1>4
<1>6. \A b \in Buckets : \A i \in DOMAIN Nothing.myHTable[b] : FALSE
  BY <1>3
<1>7. Nothing.mylist = <<>> /\ Nothing.root = {} /\ Nothing.radix_tree = {}
  BY DEF Nothing
<1> QED
  BY <1>1, <1>2, <1>5, <1>6, <1>7 DEF Stored

(* A value stored in all four. *)
LEMMA StoredNext ==
  ASSUME NEW g, Stored(shared, g), NEW v \in Vals
  PROVE  Stored(StoreInAll(v), Append(g, v))
<1> DEFINE h == hash_min(v)
           t == shared.myHTable
           u == [t EXCEPT ![h] = <<v>> \o t[h]]
           s == StoreInAll(v)
<1>0. \A w \in Vals : hash_min(w) \in Buckets /\ w % Wrap \in Int
  BY Proj2Assumption DEF hash_min, Buckets
<1>1. /\ shared \in SharedType /\ shared.mylist = g /\ g \in Seq(Vals)
      /\ t \in [Buckets -> Seq(Vals)] /\ shared.root \in SUBSET Vals
      /\ shared.radix_tree \in SUBSET Int
  BY DEF Stored, SharedType
<1>2. s = [mylist |-> Append(g, v), myHTable |-> u, root |-> shared.root \union {v},
           radix_tree |-> shared.radix_tree \union {v % Wrap}]
  <2>0. shared = [mylist |-> g, myHTable |-> t, root |-> shared.root,
                  radix_tree |-> shared.radix_tree]
    BY <1>1 DEF SharedType
  <2> DEFINE r0 == shared.root
             k0 == shared.radix_tree
             s1 == [mylist |-> Append(g, v), myHTable |-> t, root |-> r0, radix_tree |-> k0]
             s2 == [mylist |-> Append(g, v), myHTable |-> u, root |-> r0, radix_tree |-> k0]
             r1 == r0 \union {v}
             k1 == k0 \union {v % Wrap}
             s3 == [mylist |-> Append(g, v), myHTable |-> u, root |-> r1, radix_tree |-> k0]
             s4 == [mylist |-> Append(g, v), myHTable |-> u, root |-> r1, radix_tree |-> k1]
  <2> HIDE DEF t, h, r0, k0
  <2>1. p2_store_value(v, shared) = s1
    BY <2>0, SMTT(40) DEF p2_store_value, r0, k0
  <2>2. store_hash_value(v, s1) = s2
    <3>1. store_hash_value(v, s1) = [s1 EXCEPT !.myHTable = [s1.myHTable EXCEPT ![h] = <<v>> \o s1.myHTable[h]]]
      BY DEF store_hash_value, h
    <3>2. s1.myHTable = t
      OBVIOUS
    <3>3. store_hash_value(v, s1) = [s1 EXCEPT !.myHTable = u]
      BY <3>1, <3>2, Zenon
    <3> HIDE DEF u
    <3>4. [s1 EXCEPT !.myHTable = u] = s2
      BY SMTT(40)
    <3> QED
      BY <3>3, <3>4
  <2> HIDE DEF u
  <2>3. rb_tree_insert(v, s2) = s3
    <3>1. s2.root = r0
      OBVIOUS
    <3>2. rb_tree_insert(v, s2) = [s2 EXCEPT !.root = r1]
      BY <3>1, Zenon DEF rb_tree_insert
    <3> HIDE DEF r1
    <3>3. [s2 EXCEPT !.root = r1] = s3
      OBVIOUS
    <3> QED
      BY <3>2, <3>3
  <2>4. radix_insert(v, s3) = s4
    <3>1. s3.radix_tree = k0
      OBVIOUS
    <3>2. radix_insert(v, s3) = [s3 EXCEPT !.radix_tree = k1]
      BY <3>1, Zenon DEF radix_insert
    <3> HIDE DEF r1, k1
    <3>3. [s3 EXCEPT !.radix_tree = k1] = s4
      OBVIOUS
    <3> QED
      BY <3>2, <3>3
  <2> HIDE DEF s1, s2, s3
  <2>5. s = s4
    BY <2>1, <2>2, <2>3, <2>4, Zenon DEF StoreInAll
  <2> QED
    BY <2>5, Zenon DEF r0, k0
<1>3. h \in Buckets /\ t[h] \in Seq(Vals) /\ <<v>> \in Seq(Vals)
  BY <1>0, <1>1
<1>4. /\ Append(g, v) \in Seq(Vals) /\ Len(Append(g, v)) = Len(g) + 1 /\ Len(g) \in Nat
      /\ \A i \in 1..Len(g) : Append(g, v)[i] = g[i]
      /\ Append(g, v)[Len(g) + 1] = v
      /\ DOMAIN g = 1..Len(g) /\ DOMAIN Append(g, v) = 1..Len(g) + 1
  <2>1. /\ Append(g, v) \in Seq(Vals) /\ Len(Append(g, v)) = Len(g) + 1
        /\ \A i \in 1..Len(g) : Append(g, v)[i] = g[i]
        /\ Append(g, v)[Len(g) + 1] = v
    BY <1>1, AppendProperties
  <2> QED
    BY <1>1, <2>1, LenProperties
<1>5. Members(Append(g, v)) = Members(g) \union {v}
  <2>1. ASSUME NEW i \in 1..Len(g) + 1 PROVE Append(g, v)[i] \in Members(g) \union {v}
    <3>1. i \in 1..Len(g) \/ i = Len(g) + 1
      BY <1>4, <2>1
    <3> QED
      BY <1>4, <3>1 DEF Members
  <2>2. ASSUME NEW i \in 1..Len(g) PROVE g[i] \in Members(Append(g, v))
    <3>1. i \in 1..Len(g) + 1
      BY <1>4, <2>2
    <3> QED
      BY <1>4, <2>2, <3>1 DEF Members
  <2>3. v \in Members(Append(g, v))
    <3>1. Len(g) + 1 \in 1..Len(g) + 1
      BY <1>4
    <3> QED
      BY <1>4, <3>1 DEF Members
  <2> QED
    BY <1>4, <2>1, <2>2, <2>3 DEF Members
<1>6. <<v>> \o t[h] \in Seq(Vals)
  BY <1>3, ConcatProperties
<1>7. /\ u \in [Buckets -> Seq(Vals)] /\ u[h] = <<v>> \o t[h]
      /\ \A b \in Buckets : b # h => u[b] = t[b]
  BY <1>1, <1>3, <1>6
<1> HIDE DEF u, t, s
<1>8. s \in SharedType
  BY <1>0, <1>1, <1>2, <1>4, <1>7 DEF SharedType
<1>9. s.root = Members(Append(g, v)) /\ s.radix_tree = {w % Wrap : w \in Members(Append(g, v))}
  <2>1. shared.root = Members(g) /\ shared.radix_tree = {w % Wrap : w \in Members(g)}
    BY DEF Stored
  <2> QED
    BY <1>2, <1>5, <2>1
<1>10. ASSUME NEW b \in Buckets, NEW i \in DOMAIN u[b] PROVE hash_min(u[b][i]) = b
  <2>1. \A j \in DOMAIN t[b] : hash_min(t[b][j]) = b
    BY DEF Stored, t
  <2>2. CASE b # h
    BY <1>7, <1>10, <2>1, <2>2
  <2>3. CASE b = h
    <3>1. Len(<<v>>) = 1 /\ <<v>>[1] = v
      OBVIOUS
    <3>2. /\ Len(<<v>> \o t[h]) = Len(<<v>>) + Len(t[h])
          /\ \A k \in 1..Len(<<v>>) + Len(t[h]) :
               (<<v>> \o t[h])[k] = IF k <= Len(<<v>>) THEN <<v>>[k] ELSE t[h][k - Len(<<v>>)]
      BY <1>3, ConcatProperties
    <3>3. Len(t[h]) \in Nat /\ DOMAIN t[h] = 1..Len(t[h]) /\ DOMAIN u[h] = 1..Len(u[h])
      BY <1>3, <1>6, <1>7, LenProperties
    <3>4. /\ i \in 1..1 + Len(t[h])
          /\ u[h][i] = IF i <= 1 THEN <<v>>[i] ELSE t[h][i - 1]
      BY <1>7, <1>10, <2>3, <3>1, <3>2, <3>3
    <3>5. CASE i = 1
      BY <2>3, <3>1, <3>4, <3>5
    <3>6. CASE i # 1
      <4>1. ~(i <= 1) /\ i - 1 \in 1..Len(t[h])
        BY <3>3, <3>4, <3>6
      <4> QED
        BY <2>1, <2>3, <3>3, <3>4, <4>1
    <3> QED
      BY <3>5, <3>6
  <2> QED
    BY <2>2, <2>3
<1>11. ASSUME NEW w \in Vals PROVE Count(u[hash_min(w)], w) = Count(Append(g, v), w)
  <2>1. Append(g, v) = g \o <<v>>
    BY <1>1, AppendIsConcat
  <2>2. Count(Append(g, v), w) = Count(g, w) + Count(<<v>>, w)
    <3>1. Count(g \o <<v>>, w) = Count(g, w) + Count(<<v>>, w)
      BY <1>1, <1>3, CountConcat
    <3> QED
      BY <2>1, <3>1
  <2>3. Count(t[hash_min(w)], w) = Count(g, w)
    BY DEF Stored, t
  <2>4. Count(g, w) \in Nat
    BY <1>1, CountNat
  <2>5. CASE hash_min(w) = h
    <3>1. Count(<<v>> \o t[h], w) = Count(<<v>>, w) + Count(t[h], w)
      BY <1>3, CountConcat
    <3>2. Count(<<v>>, w) \in Nat
      BY <1>3, CountNat
    <3>3. Count(u[hash_min(w)], w) = Count(<<v>>, w) + Count(g, w)
      BY <1>7, <2>3, <2>5, <3>1
    <3> QED
      BY <2>2, <2>4, <3>2, <3>3
  <2>6. CASE hash_min(w) # h
    <3>1. Count(<<v>>, w) = 0
      <4>1. v # w
        BY <2>6
      <4> QED
        BY <4>1, CountOne
    <3>2. u[hash_min(w)] = t[hash_min(w)]
      BY <1>0, <1>7, <2>6
    <3> QED
      BY <2>2, <2>3, <2>4, <3>1, <3>2
  <2> QED
    BY <2>5, <2>6
<1>12. s.mylist = Append(g, v) /\ s.myHTable = u
  BY <1>2
<1> QED
  BY <1>8, <1>9, <1>10, <1>11, <1>12 DEF Stored, s

(* What the four loops print of the structures. *)
LEMMA StoredShows ==
  ASSUME int_str \in Seq(P2Toks), Stored(shared, Given)
  PROVE  Shows(Rows(shared))
<1> DEFINE t == shared.myHTable
<1>1. /\ t \in [Buckets -> Seq(Vals)] /\ shared.mylist = Given /\ Given \in Seq(Vals)
      /\ shared.root = GivenSet
      /\ shared.radix_tree = {v % Wrap : v \in GivenSet}
      /\ \A b \in Buckets : \A i \in DOMAIN t[b] : hash_min(t[b][i]) = b
      /\ \A v \in Vals : Count(t[hash_min(v)], v) = Count(Given, v)
  BY DEF Stored, SharedType, GivenSet, Members
<1>2. GivenSet \subseteq Vals /\ IsFiniteSet(GivenSet)
  <2>1. Len(Given) \in Nat /\ DOMAIN Given = 1..Len(Given) /\ Given \in [1..Len(Given) -> Vals]
    BY <1>1, LenProperties
  <2>2. GivenSet \subseteq Vals
    BY <2>1 DEF GivenSet
  <2>3. Given \in [1..Len(Given) -> GivenSet]
        /\ \A x \in GivenSet : \E i \in 1..Len(Given) : Given[i] = x
    BY <2>1 DEF GivenSet
  <2>4. Given \in Surjection(1..Len(Given), GivenSet)
    BY <2>3 DEF Surjection
  <2>5. IsFiniteSet(1..Len(Given))
    BY <2>1, FS_Interval
  <2> QED
    BY <2>2, <2>4, <2>5, FS_Surjection
<1>3. \A v \in Vals : Count(HashRow(t), v) = Count(Given, v)
  BY <1>1, HashRowCount
<1>4. [i \in 1..Cardinality(shared.radix_tree) |-> ValOf(Ascending(shared.radix_tree)[i])]
        = Ascending({v \in GivenSet : v >= 0}) \o Ascending({v \in GivenSet : v < 0})
  BY <1>1, <1>2, RadixRow
<1>5. /\ Rows(shared)[1] = Given /\ Rows(shared)[2] = HashRow(t)
      /\ Rows(shared)[3] = Ascending(GivenSet)
      /\ Rows(shared)[4]
           = [i \in 1..Cardinality(shared.radix_tree) |-> ValOf(Ascending(shared.radix_tree)[i])]
  BY <1>1 DEF Rows
<1> QED
  BY <1>3, <1>4, <1>5 DEF Shows

(* Parsing starts with nothing taken and nothing stored. *)
LEMMA ParseBegins ==
  ASSUME int_str \in Seq(P2Toks), shared = Nothing, int_str' = int_str, shared' = shared,
         NEW small,
         rd' = [at |-> "parse", rest |-> int_str, err |-> FALSE, text |-> <<>>, small |-> small]
  PROVE  P2Inv'
<1>1. Len(int_str) \in Nat
  BY LenProperties
<1>2. Selected(int_str, Vals)[0] = <<>>
  BY <1>1, SelectedDef
<1>3. /\ rd'.at = "parse" /\ rd'.rest = int_str /\ rd'.err = FALSE
      /\ rd'.text = <<>> /\ rd'.small = small
  OBVIOUS
<1>4. Taken2' = 0
  BY <1>1, <1>3 DEF Taken2
<1>5. Stored(shared', Selected(int_str', Vals)[Taken2'])
  BY <1>2, <1>4, NothingStored
<1>6. P2Types'
  BY <1>3 DEF P2Types
<1>7. \A k \in 1..Len(rd'.rest) : rd'.rest[k] = int_str'[Taken2' + k]
  BY <1>1, <1>3, <1>4
<1>8. Len(rd'.rest) <= Len(int_str')
  BY <1>1, <1>3
<1> QED
  BY <1>3, <1>5, <1>6, <1>7, <1>8 DEF P2Inv

(* A token more is taken, and the values given so far with it. *)
LEMMA TakeToken2 ==
  ASSUME P2Types, rd.rest # <<>>, Len(rd.rest) <= Len(int_str),
         \A k \in 1..Len(rd.rest) : rd.rest[k] = int_str[Taken2 + k],
         rd'.rest = Tail(rd.rest), int_str' = int_str
  PROVE  /\ Tail(rd.rest) \in Seq(P2Toks) /\ Head(rd.rest) \in P2Toks
         /\ Len(rd'.rest) <= Len(int_str')
         /\ \A k \in 1..Len(rd'.rest) : rd'.rest[k] = int_str'[Taken2' + k]
         /\ LET sel == Selected(int_str, Vals)
            IN  sel[Taken2'] = IF Head(rd.rest) \in Vals
                               THEN Append(sel[Taken2], Head(rd.rest)) ELSE sel[Taken2]
<1> DEFINE r == rd.rest
           m == Len(int_str)
           sel == Selected(int_str, Vals)
<1>1. r \in Seq(P2Toks) /\ int_str \in Seq(P2Toks) /\ r # <<>>
  BY DEF P2Types
<1>2. Len(r) \in Nat /\ Len(r) # 0 /\ m \in Nat /\ Len(r) <= m /\ Taken2 = m - Len(r)
  BY <1>1, EmptySeq, LenProperties DEF Taken2
<1>3. /\ Tail(r) \in Seq(P2Toks) /\ Len(Tail(r)) = Len(r) - 1
      /\ \A k \in 1..Len(Tail(r)) : Tail(r)[k] = r[k + 1]
  BY <1>1, HeadTailProperties
<1>4. Head(r) = r[1] /\ Head(r) \in P2Toks
  BY <1>1, HeadTailProperties
<1>5. \A k \in 1..Len(r) : r[k] = int_str[Taken2 + k]
  OBVIOUS
<1>6. Taken2' = m - Len(Tail(r)) /\ Len(rd'.rest) = Len(Tail(r)) /\ Len(int_str') = m
  BY DEF Taken2
<1> HIDE DEF r, m
<1>7. /\ Taken2 \in Nat /\ Taken2' = Taken2 + 1 /\ Taken2 + 1 \in 1..m /\ Len(Tail(r)) <= m
      /\ (Taken2 + 1) - 1 = Taken2
  BY <1>2, <1>3, <1>6
<1>8. ASSUME NEW k \in 1..Len(Tail(r)) PROVE Tail(r)[k] = int_str[Taken2' + k]
  <2>1. k + 1 \in 1..Len(r) /\ Taken2 + (k + 1) = Taken2' + k
    BY <1>2, <1>3, <1>7
  <2> QED
    BY <1>3, <1>5, <2>1
<1>9. Head(r) = int_str[Taken2 + 1]
  <2>1. 1 \in 1..Len(r)
    BY <1>2
  <2> QED
    BY <1>4, <1>5, <2>1
<1>10. sel[Taken2 + 1] = IF int_str[Taken2 + 1] \in Vals
                         THEN Append(sel[Taken2], int_str[Taken2 + 1]) ELSE sel[Taken2]
  BY <1>2, <1>7, SelectedDef DEF m
<1>11. rd'.rest = Tail(r) /\ int_str' = int_str
  BY DEF r
<1> QED
  BY <1>3, <1>4, <1>6, <1>7, <1>8, <1>9, <1>10, <1>11 DEF r, m

(* One token, or the end of the loop. *)
LEMMA P2ParseStep ==
  ASSUME P2Inv, P2ParseParams
  PROVE  P2Inv'
<1>1. /\ rd.at = "parse" /\ int_str' = int_str /\ P2Types /\ ~rd.err
      /\ Len(rd.rest) <= Len(int_str)
      /\ \A k \in 1..Len(rd.rest) : rd.rest[k] = int_str[Taken2 + k]
      /\ Stored(shared, Selected(int_str, Vals)[Taken2])
  BY DEF P2Inv, P2ParseParams
<1>2. /\ rd = [at |-> rd.at, rest |-> rd.rest, err |-> rd.err, text |-> rd.text,
               small |-> rd.small]
      /\ int_str \in Seq(P2Toks) /\ rd.rest \in Seq(P2Toks) /\ rd.err \in BOOLEAN
  BY <1>1 DEF P2Types
<1>3. CASE rd' = [rd EXCEPT !.at = "out", !.err = TRUE] /\ shared' = shared
  <2>1. /\ rd'.at = "out" /\ rd'.err /\ rd'.rest = rd.rest /\ rd'.err \in BOOLEAN
        /\ rd' = [at |-> rd'.at, rest |-> rd'.rest, err |-> rd'.err, text |-> rd'.text,
                  small |-> rd'.small]
    BY <1>2, <1>3
  <2> QED
    BY <1>1, <1>2, <2>1 DEF P2Inv, P2Types
<1>4. CASE rd' = [rd EXCEPT !.at = "oops"] /\ shared' = shared
  <2>1. /\ rd'.at = "oops" /\ rd'.rest = rd.rest /\ rd'.err = rd.err
        /\ rd' = [at |-> rd'.at, rest |-> rd'.rest, err |-> rd'.err, text |-> rd'.text,
                  small |-> rd'.small]
    BY <1>2, <1>4
  <2> QED
    BY <1>1, <1>2, <2>1 DEF P2Inv, P2Types
<1>5. CASE rd.rest = <<>> /\ rd' = [rd EXCEPT !.at = "print"] /\ shared' = shared
  <2>1. /\ rd'.at = "print" /\ rd'.rest = rd.rest /\ rd'.err = rd.err
        /\ rd' = [at |-> rd'.at, rest |-> rd'.rest, err |-> rd'.err, text |-> rd'.text,
                  small |-> rd'.small]
    BY <1>2, <1>5
  <2>2. Taken2 = Len(int_str)
    <3>1. Len(rd.rest) = 0 /\ Len(int_str) \in Nat
      BY <1>2, <1>5, EmptySeq, LenProperties
    <3> QED
      BY <3>1 DEF Taken2
  <2>3. Stored(shared', Given')
    BY <1>1, <1>5, <2>2 DEF Given
  <2> QED
    BY <1>1, <1>2, <2>1, <2>3 DEF P2Inv, P2Types
<1>6. CASE rd.rest # <<>> /\ rd' = [rd EXCEPT !.rest = Tail(@)]
  <2> DEFINE p == Head(rd.rest)
             sel == Selected(int_str, Vals)
  <2>1. /\ rd'.at = "parse" /\ rd'.rest = Tail(rd.rest) /\ rd'.err = rd.err
        /\ rd' = [at |-> rd'.at, rest |-> rd'.rest, err |-> rd'.err, text |-> rd'.text,
                  small |-> rd'.small]
    BY <1>1, <1>2, <1>6
  <2>2. /\ Tail(rd.rest) \in Seq(P2Toks)
        /\ Len(rd'.rest) <= Len(int_str')
        /\ \A k \in 1..Len(rd'.rest) : rd'.rest[k] = int_str'[Taken2' + k]
        /\ sel[Taken2'] = IF p \in Vals THEN Append(sel[Taken2], p) ELSE sel[Taken2]
    BY <1>1, <1>6, <2>1, TakeToken2
  <2>3. P2Types'
    BY <1>1, <1>2, <2>1, <2>2 DEF P2Types
  <2>4. ASSUME Stored(shared', sel[Taken2']) PROVE P2Inv'
    BY <1>1, <2>1, <2>2, <2>3, <2>4 DEF P2Inv
  <2>5. CASE p \notin Vals /\ shared' = shared
    BY <1>1, <2>2, <2>4, <2>5
  <2>6. CASE p \in Vals /\ shared' = StoreInAll(p)
    <3>1. Stored(StoreInAll(p), Append(sel[Taken2], p))
      BY <1>1, <2>6, StoredNext
    <3> QED
      BY <2>2, <2>4, <2>6, <3>1
  <2>7. p \in P2Toks
    BY <1>1, <1>6, <2>1, TakeToken2
  <2>8. \/ p = NoTok /\ shared' = shared
        \/ p # NoTok /\ p # BadTok /\ shared' = StoreInAll(p)
    <3>1. rd'.rest # rd.rest /\ rd'.at = "parse"
      <4>1. Len(Tail(rd.rest)) # Len(rd.rest)
        BY <1>2, <1>6, HeadTailProperties, EmptySeq
      <4> QED
        BY <2>1, <4>1
    <3>2. /\ rd' # [rd EXCEPT !.at = "out", !.err = TRUE] /\ rd' # [rd EXCEPT !.at = "oops"]
          /\ rd' # [rd EXCEPT !.at = "print"]
      BY <1>2, <3>1
    <3> QED
      BY <3>2, <1>6 DEF P2ParseParams
  <2>9. NoTok \notin Vals
    BY Proj2Assumption
  <2> QED
    BY <2>5, <2>6, <2>7, <2>8, <2>9 DEF P2Toks
<1>7. \/ rd' = [rd EXCEPT !.at = "out", !.err = TRUE] /\ shared' = shared
      \/ rd.rest = <<>> /\ rd' = [rd EXCEPT !.at = "print"] /\ shared' = shared
      \/ rd.rest # <<>> /\ rd' = [rd EXCEPT !.rest = Tail(@)]
      \/ rd' = [rd EXCEPT !.at = "oops"] /\ shared' = shared
  BY DEF P2ParseParams
<1> QED
  BY <1>3, <1>4, <1>5, <1>6, <1>7

(* insmod, rmmod and the close of the file. *)
LEMMA P2LoadStep ==
  ASSUME P2Inv,
         \/ prj2_init \/ P2NoParam \/ prj2_exit \/ single_release
         \/ proj2_proc_show /\ rd.at = "null"
  PROVE  P2Inv'
<1>1. <<>> \in Seq(P2Toks)
  BY EmptySeq
<1>2. ASSUME int_str' \in Seq(P2Toks), shared' = Nothing, NEW a \in {"unloaded", "null", "user", "refused"},
             rd' = [at |-> a, rest |-> <<>>, err |-> FALSE, text |-> <<>>, small |-> FALSE]
      PROVE  P2Inv'
  <2>1. /\ rd'.at = a /\ rd'.rest = <<>> /\ rd'.err = FALSE /\ rd'.text = <<>>
        /\ rd'.small = FALSE
    BY <1>2
  <2>2. P2Types'
    BY <1>1, <1>2, <2>1 DEF P2Types
  <2> QED
    BY <1>2, <2>1, <2>2 DEF P2Inv
<1>3. CASE prj2_init
  <2>1. shared = Nothing /\ shared' = shared /\ rd' = RdIdle
    BY <1>3 DEF P2Inv, prj2_init
  <2>2. PICK n \in 0..P2MaxTokens : int_str' \in [1..n -> P2Toks]
    BY <1>3 DEF prj2_init, P2Toks
  <2>3. n \in Nat
    BY <2>2, Proj2Assumption
  <2>4. int_str' \in Seq(P2Toks)
    BY <2>2, <2>3, SeqDef
  <2> QED
    BY <1>2, <2>1, <2>4 DEF RdIdle
<1>4. CASE prj2_exit
  <2>1. shared = Nothing /\ shared' = shared /\ int_str' = <<>>
        /\ rd' = [at |-> "unloaded", rest |-> <<>>, err |-> FALSE, text |-> <<>>, small |-> FALSE]
    BY <1>4 DEF P2Inv, prj2_exit, RdIdle
  <2> QED
    BY <1>1, <1>2, <2>1
<1>5. CASE P2NoParam \/ single_release
  <2>1. shared = Nothing /\ shared' = shared /\ int_str' \in Seq(P2Toks)
    BY <1>5 DEF P2Inv, P2Types, P2NoParam, single_release
  <2>2. PICK a \in {"null", "user"} :
          rd' = [at |-> a, rest |-> <<>>, err |-> FALSE, text |-> <<>>, small |-> FALSE]
    BY <1>5 DEF P2NoParam, single_release, RdIdle
  <2> QED
    BY <1>2, <2>1, <2>2
<1>6. CASE proj2_proc_show /\ rd.at = "null"
  <2>1. shared = Nothing /\ shared' = shared /\ int_str' \in Seq(P2Toks)
        /\ rd' = [at |-> "refused", rest |-> <<>>, err |-> FALSE, text |-> <<>>, small |-> FALSE]
    BY <1>6 DEF P2Inv, P2Types, proj2_proc_show, RdIdle
  <2> QED
    BY <1>2, <2>1
<1> QED
  BY <1>3, <1>4, <1>5, <1>6

(* The steps of a read that take nothing from int_str. *)
LEMMA P2ReadSteps ==
  ASSUME P2Inv, \/ proj2_proc_show /\ rd.at = "user"
                \/ PrintRows \/ P2Cleanup \/ seq_read
  PROVE  P2Inv'
<1>1. /\ rd = [at |-> rd.at, rest |-> rd.rest, err |-> rd.err, text |-> rd.text,
               small |-> rd.small]
      /\ int_str \in Seq(P2Toks) /\ rd.rest \in Seq(P2Toks) /\ rd.err \in BOOLEAN
  BY DEF P2Inv, P2Types
<1>2. int_str' = int_str /\ Given' = Given /\ GivenSet' = GivenSet
  BY DEF proj2_proc_show, PrintRows, P2Cleanup, seq_read, Given, GivenSet
<1>3. \A text : Shows(text)' <=> Shows(text)
  BY <1>2 DEF Shows
<1>4. CASE proj2_proc_show /\ rd.at = "user"
  <2>1. shared = Nothing /\ shared' = shared
    BY <1>4 DEF P2Inv, proj2_proc_show
  <2>2. PICK small : rd' = [at |-> "parse", rest |-> int_str, err |-> FALSE, text |-> <<>>,
                            small |-> small]
    BY <1>4 DEF proj2_proc_show, RdIdle
  <2> QED
    BY <1>1, <1>2, <2>1, <2>2, ParseBegins
<1>5. CASE PrintRows
  <2>1. rd.at = "print" /\ rd' = [rd EXCEPT !.at = "out", !.text = Rows(shared)]
        /\ Stored(shared, Given)
    BY <1>5 DEF P2Inv, PrintRows
  <2>2. Shows(Rows(shared))
    BY <1>1, <2>1, StoredShows
  <2> DEFINE rows == Rows(shared)
  <2> HIDE DEF rows
  <2>3. rd' = [rd EXCEPT !.at = "out", !.text = rows]
    BY <2>1 DEF rows
  <2>4. /\ rd'.at = "out" /\ rd'.text = rows /\ rd'.rest = rd.rest /\ rd'.err = rd.err
        /\ rd' = [at |-> rd'.at, rest |-> rd'.rest, err |-> rd'.err, text |-> rd'.text,
                  small |-> rd'.small]
    BY <1>1, <2>3
  <2>5. Shows(rd.text)'
    BY <1>3, <2>2, <2>4 DEF rows
  <2> QED
    BY <1>1, <1>2, <2>4, <2>5 DEF P2Inv, P2Types
<1>6. CASE P2Cleanup
  <2>1. rd.at = "out" /\ (~rd.err => Shows(rd.text))
    BY <1>6 DEF P2Inv, P2Cleanup
  <2>2. CASE shared' = Nothing /\ rd' = [rd EXCEPT !.at = "done"]
    <3>1. /\ rd'.at = "done" /\ rd'.text = rd.text /\ rd'.rest = rd.rest /\ rd'.err = rd.err
          /\ rd' = [at |-> rd'.at, rest |-> rd'.rest, err |-> rd'.err, text |-> rd'.text,
                    small |-> rd'.small]
      BY <1>1, <2>2
    <3>2. ~rd'.err => Shows(rd.text)'
      BY <1>3, <2>1, <3>1
    <3> QED
      BY <1>1, <1>2, <2>2, <3>1, <3>2 DEF P2Inv, P2Types
  <2>3. CASE rd' = [rd EXCEPT !.at = "oops"]
    <3>1. /\ rd'.at = "oops" /\ rd'.rest = rd.rest /\ rd'.err = rd.err
          /\ rd' = [at |-> rd'.at, rest |-> rd'.rest, err |-> rd'.err, text |-> rd'.text,
                    small |-> rd'.small]
      BY <1>1, <2>3
    <3> QED
      BY <1>1, <1>2, <3>1 DEF P2Inv, P2Types
  <2> QED
    BY <1>6, <2>2, <2>3 DEF P2Cleanup
<1>7. CASE seq_read
  <2>1. shared = Nothing /\ shared' = shared /\ rd.at = "done" /\ (~rd.err => Shows(rd.text))
    BY <1>7 DEF P2Inv, seq_read
  <2>2. CASE rd.small /\ ~rd.err
    <3>1. rd' = [at |-> "parse", rest |-> int_str, err |-> FALSE, text |-> <<>>,
                 small |-> FALSE]
      BY <1>7, <2>2 DEF seq_read, RdIdle
    <3> QED
      BY <1>1, <1>2, <2>1, <3>1, ParseBegins
  <2>3. CASE ~(rd.small /\ ~rd.err)
    <3>0. rd' = [rd EXCEPT !.at = "read"]
      BY <1>7, <2>3 DEF seq_read
    <3>1. /\ rd'.at = "read" /\ rd'.text = rd.text /\ rd'.rest = rd.rest /\ rd'.err = rd.err
          /\ rd' = [at |-> rd'.at, rest |-> rd'.rest, err |-> rd'.err, text |-> rd'.text,
                    small |-> rd'.small]
      BY <1>1, <3>0
    <3>2. ~rd'.err => Shows(rd.text)'
      BY <1>3, <2>1, <3>1
    <3> QED
      BY <1>1, <1>2, <2>1, <3>1, <3>2 DEF P2Inv, P2Types
  <2> QED
    BY <2>2, <2>3
<1> QED
  BY <1>4, <1>5, <1>6, <1>7

(* Every read of /proc/proj2 that succeeds shows int_str, whatever it      *)
(* holds and however often the text was made again: the list in order, the *)
(* table with every value as often as given, the trees sorted.             *)
THEOREM ReadsShowInput == P2Spec => []ShowsInput
<1>1. P2Init => P2Inv
  <2> SUFFICES ASSUME P2Init PROVE P2Inv
    OBVIOUS
  <2>1. /\ int_str = <<>> /\ shared = Nothing
        /\ rd = [at |-> "unloaded", rest |-> <<>>, err |-> FALSE, text |-> <<>>, small |-> FALSE]
    BY DEF P2Init, RdIdle
  <2>2. <<>> \in Seq(P2Toks)
    BY EmptySeq
  <2>3. /\ rd.at = "unloaded" /\ rd.rest = <<>> /\ rd.err = FALSE /\ rd.text = <<>>
        /\ rd.small = FALSE
    BY <2>1
  <2> QED
    BY <2>1, <2>2, <2>3 DEF P2Inv, P2Types
<1>2. P2Inv /\ [P2Next]_p2_vars => P2Inv'
  <2> SUFFICES ASSUME P2Inv, [P2Next]_p2_vars PROVE P2Inv'
    OBVIOUS
  <2>1. CASE \/ prj2_init \/ P2NoParam \/ prj2_exit \/ single_release
             \/ proj2_proc_show /\ rd.at = "null"
    BY <2>1, P2LoadStep
  <2>2. CASE P2ParseParams
    BY <2>2, P2ParseStep
  <2>3. CASE \/ proj2_proc_show /\ rd.at = "user"
             \/ PrintRows \/ P2Cleanup \/ seq_read
    BY <2>3, P2ReadSteps
  <2>4. CASE UNCHANGED p2_vars
    BY <2>4 DEF p2_vars, P2Inv, P2Types, Taken2, Shows, Given, GivenSet
  <2> QED
    BY <2>1, <2>2, <2>3, <2>4 DEF P2Next, proj2_proc_show
<1>3. P2Inv => ShowsInput
  BY DEF P2Inv, ShowsInput, Shows, Count
<1> QED
  BY <1>1, <1>2, <1>3, PTL DEF P2Spec
=============================================================================
