--------------------------- MODULE HeartbeatCache ---------------------------
(***************************************************************************)
(* The heartbeat counters of one link (HeartbeatCache,                     *)
(* src/src/common/net.rs) and what its three operations do to them.        *)
(*                                                                         *)
(* The sequence number wraps; the counters are compared with limits only,  *)
(* so those a limit reads saturate at it (LossLimit, RecvLimit), and       *)
(* send_count, which is a divisor, is kept as zero or not.  Times are left *)
(* out.                                                                    *)
(***************************************************************************)
EXTENDS Integers

CONSTANTS
    SeqMod,     \* the sequence numbers are 0 .. SeqMod - 1 (2^32 in the code)
    LossLimit,  \* udp_heartbeat_continuous_loss, or the one for TCP
    RecvLimit   \* udp_heartbeat_continuous_recv

ASSUME HeartbeatAssumption ==
    /\ SeqMod \in Nat \ {0, 1}
    /\ LossLimit \in Nat \ {0}
    /\ RecvLimit \in Nat \ {0}

Seq32 == 0 .. SeqMod - 1

Cache == [seq : Seq32, is_send : BOOLEAN, is_reply : BOOLEAN, sent : BOOLEAN,
          loss : 0 .. LossLimit, recv : 0 .. RecvLimit]

NewCache == [seq |-> 0, is_send |-> FALSE, is_reply |-> FALSE, sent |-> FALSE,
             loss |-> 0, recv |-> 0]

UpTo(n, limit) == IF n < limit THEN n ELSE limit

(* Mutants: a reply is compared with the number to come; a reply does not  *)
(* end a row of losses.                                                    *)
IsReplyToNext(hc, seq) == (hc.seq + 1) % SeqMod = seq
ReplyKeepsLoss(hc) == [hc EXCEPT !.is_reply = TRUE, !.recv = UpTo(@ + 1, RecvLimit)]

(* reply: whether the reply counts, and the counters if it does. *)
IsReply(hc, seq) == hc.seq = seq
Reply(hc) ==
    [hc EXCEPT !.is_reply = TRUE, !.loss = 0, !.recv = UpTo(@ + 1, RecvLimit)]

(* check: the last ping, if there is one, was answered or is lost. *)
Check(hc) ==
    IF hc.is_send /\ ~hc.is_reply
    THEN [hc EXCEPT !.is_send = FALSE, !.recv = 0, !.loss = UpTo(@ + 1, LossLimit)]
    ELSE [hc EXCEPT !.is_send = FALSE]

(* Mutants: the answer to the ping before counts for this one; the number  *)
(* does not wrap.                                                          *)
PingKeepsReply(hc) == [hc EXCEPT !.is_send = TRUE, !.sent = TRUE, !.seq = (@ + 1) % SeqMod]
PingNoWrap(hc) == [hc EXCEPT !.is_send = TRUE, !.is_reply = FALSE, !.sent = TRUE, !.seq = @ + 1]

Ping(hc) ==
    [hc EXCEPT !.is_send = TRUE, !.is_reply = FALSE, !.sent = TRUE,
               !.seq = (@ + 1) % SeqMod]

Overdue(hc) == hc.loss >= LossLimit
Steady(hc) == hc.recv >= RecvLimit
=============================================================================
