------------------------------- MODULE MCDmac -------------------------------
(***************************************************************************)
(* Two small systems in one run, chosen by the first value of D_CTRL:      *)
(*   - VIF1 drains what IPU_FROM fills, under stall control;               *)
(*   - GIF, IPU_TO and IPU_FROM take turns without it, in packets of one   *)
(*     quad or none.  Two channels are too few to pass over a third.       *)
(* They are constraints on the programs and their tags: every call of a    *)
(* process_ function can still end within them.                            *)
(***************************************************************************)
EXTENDS Dmac

StallControl == control.dest = "VIF1"

(* The channels that the system does not use stay as reset leaves them.    *)
Unused == IF StallControl THEN {"GIF", "IPU_TO"} ELSE {"VIF1"}

Within ==
  /\ \A c \in Unused :
       /\ ~dmac.started[c] /\ ~dmac.stalled[c]
       /\ dmac.req[c] <=> c \in Requesting
       /\ wants[c] <=> c \in Requesting
  /\ StallControl <=> control.source = "IPU_FROM"
  /\ ~StallControl =>
       /\ dmac.stadr = 0 /\ dmac.mask = {} /\ ~dmac.stalled["GIF"]
       /\ \A c \in Channels : dmac.address[c] + dmac.qwc[c] <= 1

StaysSo == UNCHANGED StallControl
=============================================================================
