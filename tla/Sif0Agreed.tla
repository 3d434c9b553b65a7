----------------------------- MODULE Sif0Agreed -----------------------------
(***************************************************************************)
(* SIF0 with a history of what the two programs have done.  Nothing in the *)
(* code checks that they agree: the IOP counts the words of a packet, the  *)
(* EE its quadwords.  What the channel owes them is to keep the EE in step *)
(* for as long as they do.                                                 *)
(***************************************************************************)
EXTENDS Sif0

\* The packets on which the programs agree: the EE's quadwords hold the IOP's words.
Agreeing == {p \in Packets : 4 * p.qwc - p.words \in 0..3}

\* So far all packets have been such, and every transfer of the EE a whole chain.
VARIABLE agreed

\* The EE's transfer ends before its time: it is stopped, or at a bad address.
CutShort == ee.str /\ ~ee'.str /\ "EE" \notin pending

AgreedInit == Init /\ agreed = (iop.packet \in Agreeing)
AgreedNext ==
  /\ Next
  /\ agreed' = (agreed /\ iop'.packet \in Agreeing /\ ee'.mod = "CHAIN" /\ ~CutShort)

AgreedSpec == AgreedInit /\ [][AgreedNext]_<<vars, agreed>>
AgreedFairSpec == AgreedSpec /\ WF_vars(Turn) /\ SF_vars(LastTag)

\* As long as the programs agree, the EE is in step with what the IOP sends.
AgreedInStep == agreed => InStep
=============================================================================
