------------------------------- MODULE RxStamp -------------------------------
(***************************************************************************)
(* Timestamps in Project_1/backups/socket.c.  A packet that is sent may    *)
(* come back to its sender on the error queue once when it is queued, once *)
(* for the software stamp and once for the hardware stamp; the clones      *)
(* share the hardware stamp, which the device may store at any time.  A    *)
(* packet that arrives has been stamped or not, as the option was on or    *)
(* not at that moment.                                                     *)
(***************************************************************************)
EXTENDS Naturals, Sequences

CONSTANT MaxPackets   \* bound on the packets of a behaviour

ASSUME RxStampAssumption == MaxPackets \in Nat

VARIABLES opts,   \* options of the socket that are on
          sent,   \* per packet: the stamps that are still to be made
          skbs,   \* packets and clones that wait for recvmsg, in order
          hw,     \* packets whose hardware stamp is stored
          told    \* what the last recvmsg reported
ts_vars == <<opts, sent, skbs, hw, told>>

(* SOCK_RCVTSTAMP, the two kinds of stamps to report, and the stamps to    *)
(* make on transmit.                                                       *)
TxOption == [hw |-> "tx_hardware", sw |-> "tx_software", sched |-> "tx_sched"]
Options == {"rcvtstamp", "software", "raw_hardware"} \union {TxOption[t] : t \in DOMAIN TxOption}

TsInit ==
  /\ opts = {}
  /\ sent = <<>>
  /\ skbs = <<>>
  /\ hw = {}
  /\ told = {}
-----------------------------------------------------------------------------
(* setsockopt: an option is turned on or off, at any time. *)
SetOption ==
  /\ \E o \in Options : opts' = IF o \in opts THEN opts \ {o} ELSE opts \union {o}
  /\ UNCHANGED <<sent, skbs, hw, told>>

(* The stamps a packet asks for when it is sent. *)
sock_tx_timestamp == {t \in DOMAIN TxOption : TxOption[t] \in opts}

Send ==
  /\ Len(sent) < MaxPackets
  /\ sent' = Append(sent, sock_tx_timestamp)
  /\ UNCHANGED <<opts, skbs, hw, told>>

(* The device or the stack makes a stamp.  A clone goes to the error       *)
(* queue; the hardware stamp is stored where all clones see it, and its    *)
(* own clone, alone, has no software stamp.                                *)
Complete ==
  /\ \E n \in DOMAIN sent : \E t \in sent[n] :
       /\ sent' = [sent EXCEPT ![n] = @ \ {t}]
       /\ hw' = IF t = "hw" THEN hw \union {n} ELSE hw
       /\ skbs' = Append(skbs, [pkt |-> n, err_queue |-> TRUE, tstamp |-> t # "hw"])
  /\ UNCHANGED <<opts, told>>

(* A packet arrives, stamped or not; nobody else has a clone of it. *)
Arrive ==
  /\ Len(sent) < MaxPackets
  /\ LET n == Len(sent) + 1
     IN  /\ sent' = Append(sent, {})
         /\ \E sw \in BOOLEAN :
              skbs' = Append(skbs, [pkt |-> n, err_queue |-> FALSE, tstamp |-> sw])
         /\ \E h \in BOOLEAN : hw' = IF h THEN hw \union {n} ELSE hw
  /\ UNCHANGED <<opts, told>>

skb_is_err_queue(skb) == skb.err_queue

(* Mutant: a stamp filled in at this moment counts as a software stamp. *)
Mutskb_is_swtx_tstamp(skb, tstamp, false_tstamp) ==
  tstamp /\ skb_is_err_queue(skb)

skb_is_swtx_tstamp(skb, tstamp, false_tstamp) ==
  tstamp /\ ~false_tstamp /\ skb_is_err_queue(skb)

(* The control messages for a packet.  A packet without a stamp gets the   *)
(* current time when SOCK_RCVTSTAMP asks for one.                          *)
sock_recv_timestamp(skb) ==
  LET need   == "rcvtstamp" \in opts
      false_tstamp == need /\ ~skb.tstamp
      tstamp == skb.tstamp \/ need
      soft   == "software" \in opts /\ tstamp
      hard   == /\ "raw_hardware" \in opts
                /\ ~skb_is_swtx_tstamp(skb, tstamp, false_tstamp)
                /\ skb.pkt \in hw
  IN  [skb |-> skb, asked |-> "raw_hardware" \in opts, stamp |-> need,
       sw |-> soft, hw |-> hard, pktinfo |-> hard /\ ~skb_is_err_queue(skb)]

Recv ==
  /\ skbs # <<>>
  /\ told' = {sock_recv_timestamp(Head(skbs))}
  /\ skbs' = Tail(skbs)
  /\ UNCHANGED <<opts, sent, hw>>

TsNext == SetOption \/ Send \/ Complete \/ Arrive \/ Recv

TsSpec == TsInit /\ [][TsNext]_ts_vars
-----------------------------------------------------------------------------
(* "On transmit, software and hardware timestamps are returned             *)
(* independently": a packet's hardware stamp is reported with its own      *)
(* clone whenever it is asked for then, and never with a clone that has a  *)
(* software stamp, however the stamps, the reads and the options that      *)
(* change in between are ordered.                                          *)
StampsApart ==
  \A m \in told :
    skb_is_err_queue(m.skb) => m.hw = (m.asked /\ ~m.skb.tstamp)
=============================================================================
