---------------------------- MODULE LossyChannel ----------------------------
(***************************************************************************)
(* What the receive paths of the CAN module and of the Ethernet driver     *)
(* promise: frames arrive whole, in the order of the line and at most      *)
(* once.  Any of them may be lost.                                         *)
(***************************************************************************)
EXTENDS Integers, Sequences

CONSTANT Frame(_)   \* the contents of the n-th frame on the line

VARIABLES sent, channel, delivered

channelVars == << sent, channel, delivered >>

ChannelInit == sent = 0 /\ channel = << >> /\ delivered = << >>

Send ==
    /\ sent' = sent + 1
    /\ channel' \in {channel, Append(channel, Frame(sent + 1))}
    /\ UNCHANGED delivered

Without(s, i) == SubSeq(s, 1, i - 1) \o SubSeq(s, i + 1, Len(s))

Lose == \E i \in 1 .. Len(channel) : channel' = Without(channel, i) /\ UNCHANGED << sent, delivered >>

Deliver ==
    /\ channel # << >>
    /\ delivered' = Append(delivered, Head(channel))
    /\ channel' = Tail(channel)
    /\ UNCHANGED sent

ChannelSpec == ChannelInit /\ [][Send \/ Lose \/ Deliver]_channelVars
=============================================================================
