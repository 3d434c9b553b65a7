----------------------------- MODULE Sif1Agreed -----------------------------
(***************************************************************************)
(* SIF1 with a history of what the two programs have done; see Sif0Agreed. *)
(***************************************************************************)
EXTENDS Sif1

\* The packets on which the programs agree: the IOP tag and the words it counts fill
\* the EE's quadwords.
Agreeing == {p \in Packets : 4 + p.words = 4 * p.qwc}

\* So far all packets have been such, and every transfer of the EE a whole chain, its
\* tags not sent.
VARIABLE agreed

\* The EE's transfer ends before its time: it is stopped, or at a bad address.
CutShort == ee.str /\ ~ee'.str /\ "EE" \notin pending

AgreedInit == Init /\ agreed = (ee.packet \in Agreeing)
AgreedNext ==
  /\ Next
  /\ agreed' = (/\ agreed /\ ee'.packet \in Agreeing
                 /\ ee'.mod = "CHAIN" /\ ~ee'.tte /\ ~CutShort)

AgreedSpec == AgreedInit /\ [][AgreedNext]_<<vars, agreed>>
AgreedFairSpec == AgreedSpec /\ WF_vars(Turn) /\ SF_vars(LastTag)

\* As long as the programs agree, the IOP is in step with what the EE sends.
AgreedInStep == agreed => InStep
=============================================================================
