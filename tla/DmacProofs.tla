----------------------------- MODULE DmacProofs -----------------------------
(***************************************************************************)
(* What holds of the DMA controller for any channels, any chains and any   *)
(* savestates.                                                             *)
(***************************************************************************)
EXTENDS Dmac, SequenceTheorems, TLAPS

\* A chain that still has its last tag.
Ended(chain) == Len(chain) > 0 /\ chain[Len(chain)] = "end"

\* What a channel is like that waits in the queue, and one that has its event.
Asked(ch) == ch.mode = "CHAIN" => (ch.qwc /\ ch.tag = "end") \/ Ended(ch.chain)
Going(ch) == (ch.mode = "CHAIN" /\ ~ch.finished) => Ended(ch.chain)

-----------------------------------------------------------------------------
(* The work of a channel.                                                  *)

LEMMA Fields ==
  ASSUME NEW ch \in ChannelType
  PROVE  /\ ch.str \in BOOLEAN /\ ch.mode \in {"NORMAL", "CHAIN"} /\ ch.tag \in Tags
         /\ ch.qwc \in BOOLEAN /\ ch.chain \in Seq(MemoryTags) /\ ch.finished \in BOOLEAN
         /\ ch = [str |-> ch.str, mode |-> ch.mode, tag |-> ch.tag, qwc |-> ch.qwc,
                  chain |-> ch.chain, finished |-> ch.finished]
  BY DEF ChannelType

LEMMA TagRead ==
  ASSUME NEW ch \in ChannelType
  PROVE  /\ NextTag(ch) \in Tags
         /\ Rest(ch) \in Seq(MemoryTags)
         /\ Ended(ch.chain) => NextTag(ch) \in MemoryTags
         /\ Ended(ch.chain) /\ NextTag(ch) # "end" => Ended(Rest(ch))
<1>1. ch.chain \in Seq(MemoryTags)
  BY Fields
<1>2. CASE ch.chain = <<>>
  <2>1. ~Ended(ch.chain)
    BY <1>2 DEF Ended
  <2> QED BY <1>2, <2>1 DEF NextTag, Rest, Tags
<1>3. CASE ch.chain # <<>>
  <2> DEFINE s == ch.chain
  <2>1. /\ Len(s) \in Nat /\ Len(s) > 0
        /\ Head(s) = s[1] /\ Head(s) \in MemoryTags /\ Tail(s) \in Seq(MemoryTags)
        /\ Len(Tail(s)) = Len(s) - 1
        /\ \A i \in 1..(Len(s) - 1) : Tail(s)[i] = s[i + 1]
    BY <1>1, <1>3, HeadTailProperties
  <2>2. NextTag(ch) = s[1] /\ Rest(ch) = Tail(s)
    BY <1>3, <2>1 DEF NextTag, Rest
  <2>3. ASSUME Ended(s), s[1] # "end"
        PROVE  Ended(Tail(s))
    <3>1. Len(s) > 1
      BY <2>1, <2>3 DEF Ended
    <3>2. Tail(s)[Len(s) - 1] = s[Len(s)]
      BY <2>1, <3>1
    <3> QED BY <2>1, <2>3, <3>1, <3>2 DEF Ended
  <2> QED BY <2>1, <2>2, <2>3 DEF Tags
<1> QED BY <1>2, <1>3

\* A piece of work that is due leaves a channel in the middle of its chain, or at
\* a tag that ends it.
LEMMA WorkLemma ==
  ASSUME NEW ch \in ChannelType, ch.finished => ch.qwc
  PROVE  /\ Work(ch) \in ChannelType
         /\ Work(ch).str = ch.str
         /\ EndRead(ch) => EndRead(Work(ch))
         /\ Going(ch) => Going(Work(ch))
         /\ Going(ch) /\ ch.tag # "past" => Work(ch).tag # "past"
<1>1. CASE ch.mode = "NORMAL"
  <2>1. Work(ch) = [str |-> ch.str, mode |-> ch.mode, tag |-> ch.tag, qwc |-> FALSE,
                    chain |-> ch.chain, finished |-> TRUE]
    <3>1. Work(ch) = [ch EXCEPT !.qwc = FALSE, !.finished = TRUE]
      BY <1>1 DEF Work
    <3> QED BY <3>1, Fields
  <2> QED BY <1>1, <2>1, Fields DEF EndRead, Going, ChannelType
<1>2. CASE ch.mode = "CHAIN" /\ ch.qwc
  <2>1. Work(ch) = [str |-> ch.str, mode |-> ch.mode, tag |-> ch.tag, qwc |-> FALSE,
                    chain |-> ch.chain, finished |-> ch.finished]
    <3>1. Work(ch) = [ch EXCEPT !.qwc = FALSE]
      BY <1>2 DEF Work
    <3> QED BY <3>1, Fields
  <2> QED BY <1>2, <2>1, Fields DEF EndRead, Going, ChannelType
<1>3. CASE ch.mode = "CHAIN" /\ ~ch.qwc
  <2> DEFINE done == NextTag(ch) \in {"irq", "end"}
  <2>1. Work(ch) = [str |-> ch.str, mode |-> ch.mode, tag |-> NextTag(ch), qwc |-> ch.qwc,
                    chain |-> Rest(ch), finished |-> done]
    <3>1. Work(ch) = [ch EXCEPT !.tag = NextTag(ch), !.chain = Rest(ch), !.finished = done]
      BY <1>3 DEF Work, ReadTag
    <3> QED BY <3>1, Fields
  <2>2. NextTag(ch) \in Tags /\ Rest(ch) \in Seq(MemoryTags)
    BY TagRead
  <2>3. Work(ch) \in ChannelType /\ Work(ch).str = ch.str
    BY <2>1, <2>2, Fields DEF ChannelType
  <2>4. EndRead(Work(ch))
    <3>1. Work(ch).finished = done /\ Work(ch).tag = NextTag(ch)
      BY <2>1
    <3> QED BY <3>1 DEF EndRead
  <2>5. ASSUME Going(ch) PROVE Going(Work(ch)) /\ Work(ch).tag # "past"
    <3>1. Ended(ch.chain)
      BY <1>3, <2>5, Fields DEF Going
    <3>2. NextTag(ch) \in MemoryTags /\ (NextTag(ch) # "end" => Ended(Rest(ch)))
      BY <3>1, TagRead
    <3>3. /\ Work(ch).finished = done /\ Work(ch).tag = NextTag(ch)
          /\ Work(ch).chain = Rest(ch)
      BY <2>1
    <3> QED BY <3>2, <3>3 DEF Going, MemoryTags
  <2> QED BY <2>3, <2>4, <2>5
<1> QED BY <1>1, <1>2, <1>3, Fields

LEMMA StartLemma ==
  ASSUME NEW ch \in ChannelType
  PROVE  /\ Start(ch) \in ChannelType
         /\ Start(ch).str = ch.str
         /\ EndRead(Start(ch))
         /\ Asked(ch) => Going(Start(ch))
         /\ Asked(ch) /\ ch.tag # "past" => Start(ch).tag # "past"
<1> DEFINE f == [ch EXCEPT !.finished = ch.mode = "CHAIN" /\ ch.qwc /\ ch.tag = "end"]
<1>1. /\ f \in ChannelType
      /\ f.finished => f.qwc
      /\ f.str = ch.str /\ f.tag = ch.tag
      /\ EndRead(f)
      /\ Asked(ch) => Going(f)
  <2>1. f = [str |-> ch.str, mode |-> ch.mode, tag |-> ch.tag, qwc |-> ch.qwc,
             chain |-> ch.chain,
             finished |-> (ch.mode = "CHAIN" /\ ch.qwc /\ ch.tag = "end")]
    BY Fields
  <2> QED BY <2>1, Fields DEF ChannelType, EndRead, Asked, Going
<1>2. Start(ch) = Work(f)
  BY DEF Start
<1> HIDE DEF f
<1> QED BY <1>1, <1>2, WorkLemma
-----------------------------------------------------------------------------
(* The invariant.                                                          *)

\* What each channel keeps: its event belongs to a transfer in progress; started,
\* it has an event or is queued; and until a restart its place in the queue, or
\* its event, fits the chain that is left.
ChannelInv(c) ==
  /\ c \in interrupt => chan[c].str /\ EndRead(chan[c])
  /\ loads = 0 /\ chan[c].str => c \in interrupt \cup QueuedDMA
  /\ resets + loads = 0 =>
       /\ chan[c].tag # "past"
       /\ c \in QueuedDMA => chan[c].str /\ c \notin interrupt /\ Asked(chan[c])
       /\ c \in interrupt => Going(chan[c])

Inv == TypeOK /\ \A c \in Channels : ChannelInv(c)

LEMMA InitInv == Init => Inv
<1> SUFFICES ASSUME Init PROVE Inv
  OBVIOUS
<1>1. Cleared(FALSE) \in ChannelType /\ Cleared(FALSE).str = FALSE
      /\ Cleared(FALSE).tag = "cnt"
  BY DEF Cleared, ChannelType, Tags, MemoryTags
<1>2. TypeOK
  <2>1. chan \in [Channels -> ChannelType]
    BY <1>1 DEF Init
  <2>2. 0 \in 0..MaxRestarts
    BY BoundAssumption
  <2> QED BY <2>1, <2>2 DEF Init, TypeOK
<1>3. ASSUME NEW c \in Channels PROVE ChannelInv(c)
  <2>1. chan[c] = Cleared(FALSE) /\ c \notin interrupt /\ c \notin QueuedDMA
    BY DEF Init
  <2> QED BY <1>1, <2>1 DEF ChannelInv
<1> QED BY <1>2, <1>3 DEF Inv

LEMMA InterruptInv ==
  ASSUME Inv, NEW c \in Channels, Interrupt(c)
  PROVE  Inv'
<1>1. chan \in [Channels -> ChannelType] /\ chan[c] \in ChannelType /\ ChannelInv(c)
  BY DEF Inv, TypeOK
<1>2. CASE ~chan[c].finished \/ chan[c].qwc
  <2>1. /\ chan' = [chan EXCEPT ![c] = Work(chan[c])]
        /\ UNCHANGED <<interrupt, STAT, DMAE, suspended, QueuedDMA, resets, loads>>
    BY <1>2 DEF Interrupt
  <2>2. /\ Work(chan[c]) \in ChannelType
        /\ Work(chan[c]).str = chan[c].str
        /\ EndRead(chan[c]) => EndRead(Work(chan[c]))
        /\ Going(chan[c]) => Going(Work(chan[c]))
        /\ Going(chan[c]) /\ chan[c].tag # "past" => Work(chan[c]).tag # "past"
    BY <1>1, <1>2, WorkLemma
  <2>3. TypeOK'
    BY <2>1, <2>2 DEF Inv, TypeOK
  <2>4. ChannelInv(c)'
    <3>1. chan'[c] = Work(chan[c]) /\ c \in interrupt
      BY <1>1, <2>1 DEF Interrupt
    <3> QED BY <1>1, <2>1, <2>2, <3>1 DEF ChannelInv
  <2>5. ASSUME NEW d \in Channels, d # c PROVE ChannelInv(d)'
    <3>1. chan'[d] = chan[d] /\ ChannelInv(d)
      BY <1>1, <2>1, <2>5 DEF Inv
    <3> QED BY <2>1, <3>1 DEF ChannelInv
  <2> QED BY <2>3, <2>4, <2>5 DEF Inv
<1>3. CASE ~(~chan[c].finished \/ chan[c].qwc)
  <2>1. /\ chan' = [chan EXCEPT ![c].str = FALSE]
        /\ interrupt' = interrupt \ {c} /\ STAT' = STAT \cup {c}
        /\ UNCHANGED <<DMAE, suspended, QueuedDMA, resets, loads>>
    BY <1>3 DEF Interrupt
  <2> DEFINE off == [chan[c] EXCEPT !.str = FALSE]
  <2>2. off \in ChannelType /\ off.str = FALSE /\ off.tag = chan[c].tag
    BY <1>1, Fields DEF ChannelType
  <2>3. chan' = [chan EXCEPT ![c] = off]
    BY <2>1
  <2> HIDE DEF off
  <2>4. TypeOK'
    BY <2>1, <2>2, <2>3 DEF Inv, TypeOK
  <2>5. ChannelInv(c)'
    <3>1. chan'[c] = off /\ c \in interrupt /\ c \notin interrupt'
      BY <1>1, <2>1, <2>3 DEF Interrupt
    <3> QED BY <1>1, <2>1, <2>2, <3>1 DEF ChannelInv
  <2>6. ASSUME NEW d \in Channels, d # c PROVE ChannelInv(d)'
    <3>1. chan'[d] = chan[d] /\ ChannelInv(d)
      BY <1>1, <2>3, <2>6 DEF Inv
    <3> QED BY <2>1, <2>6, <3>1 DEF ChannelInv
  <2> QED BY <2>4, <2>5, <2>6 DEF Inv
<1> QED BY <1>2, <1>3

\* What is started from the queue leaves it and has its event.
LEMMA QueueInv ==
  ASSUME Inv, NEW e, NEW s, StartQueuedDMA(e, s),
         UNCHANGED <<STAT, resets, loads>>, DMAE' \in BOOLEAN, suspended' \in BOOLEAN
  PROVE  Inv'
<1> DEFINE now == {c \in QueuedDMA : Startable(c, e, s)}
<1>1. /\ QueuedDMA' = QueuedDMA \ now
      /\ interrupt' = interrupt \cup now
      /\ chan' = [c \in Channels |-> IF c \in now THEN Start(chan[c]) ELSE chan[c]]
  BY DEF StartQueuedDMA
<1>2. now \subseteq QueuedDMA /\ now \subseteq Channels /\ \A c \in now : chan[c].str
  BY DEF Startable, Inv, TypeOK
<1> HIDE DEF now
<1>3. ASSUME NEW c \in Channels
      PROVE  /\ chan[c] \in ChannelType /\ ChannelInv(c)
             /\ Start(chan[c]) \in ChannelType
             /\ Start(chan[c]).str = chan[c].str
             /\ EndRead(Start(chan[c]))
             /\ Asked(chan[c]) => Going(Start(chan[c]))
             /\ Asked(chan[c]) /\ chan[c].tag # "past" => Start(chan[c]).tag # "past"
  <2>1. chan[c] \in ChannelType /\ ChannelInv(c)
    BY DEF Inv, TypeOK
  <2> QED BY <2>1, StartLemma
<1>4. TypeOK'
  <2>1. chan' \in [Channels -> ChannelType]
    BY <1>1, <1>3
  <2> QED BY <1>1, <1>2, <2>1 DEF Inv, TypeOK
<1>5. ASSUME NEW c \in Channels PROVE ChannelInv(c)'
  <2>1. CASE c \in now
    <3>1. chan'[c] = Start(chan[c]) /\ c \in interrupt' /\ c \notin QueuedDMA'
          /\ c \in QueuedDMA /\ chan[c].str
      BY <1>1, <1>2, <2>1
    <3> QED BY <1>3, <3>1 DEF ChannelInv
  <2>2. CASE c \notin now
    <3>1. chan'[c] = chan[c] /\ (c \in interrupt' <=> c \in interrupt)
          /\ (c \in QueuedDMA' <=> c \in QueuedDMA)
      BY <1>1, <2>2
    <3> QED BY <1>3, <3>1 DEF ChannelInv
  <2> QED BY <2>1, <2>2
<1> QED BY <1>4, <1>5 DEF Inv

LEMMA RequestLemma ==
  ASSUME NEW finished \in BOOLEAN, NEW new \in Requests(finished)
  PROVE  new \in ChannelType /\ new.str /\ new.tag # "past" /\ Asked(new)
<1> DEFINE R(mode, tag, qwc, chain) ==
             [str |-> TRUE, mode |-> mode, tag |-> tag, qwc |-> qwc, chain |-> chain,
              finished |-> finished]
<1>1. CASE new = R("NORMAL", "cnt", TRUE, <<>>)
  BY <1>1 DEF ChannelType, Tags, MemoryTags, Asked
<1>2. CASE new = R("CHAIN", "end", TRUE, <<>>)
  BY <1>2 DEF ChannelType, Tags, MemoryTags, Asked
<1>3. ASSUME NEW qwc \in BOOLEAN, NEW chain \in Chains, new = R("CHAIN", "cnt", qwc, chain)
      PROVE  new \in ChannelType /\ new.str /\ new.tag # "past" /\ Asked(new)
  <2>1. chain \in Seq(MemoryTags) /\ Ended(chain)
    BY ChainAssumption DEF Ended
  <2>2. "cnt" \in Tags
    BY DEF Tags, MemoryTags
  <2>3. new \in ChannelType
    BY <1>3, <2>1, <2>2 DEF ChannelType
  <2>4. new.str /\ new.tag # "past" /\ new.chain = chain
    BY <1>3
  <2> QED BY <2>1, <2>3, <2>4 DEF Asked
<1>4. \/ new = R("NORMAL", "cnt", TRUE, <<>>)
      \/ new = R("CHAIN", "end", TRUE, <<>>)
      \/ \E qwc \in BOOLEAN, chain \in Chains : new = R("CHAIN", "cnt", qwc, chain)
  BY DEF Requests, Request
<1> HIDE DEF R
<1> QED BY <1>1, <1>2, <1>3, <1>4

LEMMA DmaExecInv ==
  ASSUME Inv, NEW c \in Channels, NEW new \in Requests(chan[c].finished), DmaExec(c, new)
  PROVE  Inv'
<1>1. chan \in [Channels -> ChannelType] /\ chan[c] \in ChannelType /\ ChannelInv(c)
  BY DEF Inv, TypeOK
<1>2. new \in ChannelType /\ new.str /\ new.tag # "past" /\ Asked(new)
  BY <1>1, Fields, RequestLemma
<1>3. /\ Start(new) \in ChannelType /\ Start(new).str /\ EndRead(Start(new))
      /\ Going(Start(new)) /\ Start(new).tag # "past"
  BY <1>2, StartLemma
<1>4. c \notin interrupt /\ (resets + loads = 0 => c \notin QueuedDMA)
  BY <1>1 DEF DmaExec, ChannelInv
<1>5. UNCHANGED <<DMAE, suspended, STAT, resets, loads>>
  BY DEF DmaExec
<1>6. CASE Runs
  <2>1. /\ chan' = [chan EXCEPT ![c] = Start(new)] /\ interrupt' = interrupt \cup {c}
        /\ UNCHANGED QueuedDMA
    BY <1>6 DEF DmaExec
  <2>2. TypeOK'
    BY <1>3, <1>5, <2>1 DEF Inv, TypeOK
  <2>3. ChannelInv(c)'
    <3>1. chan'[c] = Start(new) /\ c \in interrupt'
      BY <1>1, <2>1
    <3> QED BY <1>3, <1>4, <1>5, <2>1, <3>1 DEF ChannelInv
  <2>4. ASSUME NEW d \in Channels, d # c PROVE ChannelInv(d)'
    <3>1. chan'[d] = chan[d] /\ ChannelInv(d)
      BY <1>1, <2>1, <2>4 DEF Inv
    <3> QED BY <1>5, <2>1, <2>4, <3>1 DEF ChannelInv
  <2> QED BY <2>2, <2>3, <2>4 DEF Inv
<1>7. CASE ~Runs
  <2>1. /\ chan' = [chan EXCEPT ![c] = new] /\ QueuedDMA' = QueuedDMA \cup {c}
        /\ UNCHANGED interrupt
    BY <1>7 DEF DmaExec
  <2>2. TypeOK'
    BY <1>2, <1>5, <2>1 DEF Inv, TypeOK
  <2>3. ChannelInv(c)'
    <3>1. chan'[c] = new /\ c \in QueuedDMA'
      BY <1>1, <2>1
    <3> QED BY <1>2, <1>4, <1>5, <2>1, <3>1 DEF ChannelInv
  <2>4. ASSUME NEW d \in Channels, d # c PROVE ChannelInv(d)'
    <3>1. chan'[d] = chan[d] /\ ChannelInv(d)
      BY <1>1, <2>1, <2>4 DEF Inv
    <3> QED BY <1>5, <2>1, <2>4, <3>1 DEF ChannelInv
  <2> QED BY <2>2, <2>3, <2>4 DEF Inv
<1> QED BY <1>6, <1>7

LEMMA ForceStopInv ==
  ASSUME Inv, NEW c \in Channels, ForceStop(c)
  PROVE  Inv'
<1> DEFINE off == [chan[c] EXCEPT !.str = FALSE]
<1>1. chan \in [Channels -> ChannelType] /\ chan[c] \in ChannelType /\ ChannelInv(c)
  BY DEF Inv, TypeOK
<1>2. off \in ChannelType /\ off.str = FALSE /\ off.tag = chan[c].tag
  BY <1>1, Fields DEF ChannelType
<1>3. /\ chan' = [chan EXCEPT ![c] = off]
      /\ interrupt' = interrupt \ {c} /\ QueuedDMA' = QueuedDMA \ {c}
      /\ UNCHANGED <<DMAE, suspended, STAT, resets, loads>>
  BY DEF ForceStop
<1> HIDE DEF off
<1>4. TypeOK'
  BY <1>2, <1>3 DEF Inv, TypeOK
<1>5. ChannelInv(c)'
  <2>1. chan'[c] = off /\ c \notin interrupt' /\ c \notin QueuedDMA'
    BY <1>1, <1>3
  <2> QED BY <1>1, <1>2, <1>3, <2>1 DEF ChannelInv
<1>6. ASSUME NEW d \in Channels, d # c PROVE ChannelInv(d)'
  <2>1. chan'[d] = chan[d] /\ ChannelInv(d)
    BY <1>1, <1>3, <1>6 DEF Inv
  <2> QED BY <1>3, <1>6, <2>1 DEF ChannelInv
<1> QED BY <1>4, <1>5, <1>6 DEF Inv

LEMMA ChangeModeInv ==
  ASSUME Inv, NEW c \in Channels, NEW q \in BOOLEAN, ChangeMode(c, q)
  PROVE  Inv'
<1> DEFINE new == [chan[c] EXCEPT !.mode = "NORMAL", !.qwc = @ \/ q]
<1>1. chan \in [Channels -> ChannelType] /\ chan[c] \in ChannelType /\ ChannelInv(c)
  BY DEF Inv, TypeOK
<1>2. /\ new \in ChannelType /\ new.str = chan[c].str /\ new.tag = chan[c].tag
      /\ new.mode = "NORMAL"
  BY <1>1, Fields DEF ChannelType
<1>3. EndRead(new) /\ Asked(new) /\ Going(new)
  BY <1>2 DEF EndRead, Asked, Going
<1>4. /\ chan' = [chan EXCEPT ![c] = new]
      /\ UNCHANGED <<DMAE, suspended, QueuedDMA, interrupt, STAT, resets, loads>>
  BY DEF ChangeMode
<1> HIDE DEF new
<1>5. TypeOK'
  BY <1>2, <1>4 DEF Inv, TypeOK
<1>6. ChannelInv(c)'
  <2>1. chan'[c] = new
    BY <1>1, <1>4
  <2> QED BY <1>1, <1>2, <1>3, <1>4, <2>1 DEF ChannelInv
<1>7. ASSUME NEW d \in Channels, d # c PROVE ChannelInv(d)'
  <2>1. chan'[d] = chan[d] /\ ChannelInv(d)
    BY <1>1, <1>4, <1>7 DEF Inv
  <2> QED BY <1>4, <2>1 DEF ChannelInv
<1> QED BY <1>5, <1>6, <1>7 DEF Inv

LEMMA ResetInv ==
  ASSUME Inv, Reset
  PROVE  Inv'
<1>1. ASSUME NEW f \in BOOLEAN
      PROVE  Cleared(f) \in ChannelType /\ Cleared(f).str = FALSE
  BY DEF Cleared, ChannelType, Tags, MemoryTags
<1>2. /\ chan' = [c \in Channels |-> Cleared(chan[c].finished)]
      /\ interrupt' = {} /\ STAT' = {} /\ DMAE' = FALSE /\ suspended' = FALSE
      /\ resets' = resets + 1 /\ UNCHANGED <<QueuedDMA, loads>>
      /\ resets + loads < MaxRestarts
  BY DEF Reset
<1>3. resets \in Nat /\ loads \in Nat /\ resets' \in 0..MaxRestarts
      /\ resets' + loads' # 0
  BY <1>2, BoundAssumption DEF Inv, TypeOK
<1>4. ASSUME NEW c \in Channels PROVE chan[c].finished \in BOOLEAN
  BY Fields DEF Inv, TypeOK
<1>5. TypeOK'
  BY <1>1, <1>2, <1>3, <1>4 DEF Inv, TypeOK
<1>6. ASSUME NEW c \in Channels PROVE ChannelInv(c)'
  <2>1. chan'[c] = Cleared(chan[c].finished) /\ chan'[c].str = FALSE
    BY <1>1, <1>2, <1>4
  <2> QED BY <1>2, <1>3, <2>1 DEF ChannelInv
<1> QED BY <1>5, <1>6 DEF Inv

LEMMA LoadInv ==
  ASSUME Inv, NEW s \in Saves, Load(s)
  PROVE  Inv'
<1>1. s \in SaveType /\ \A c \in s.interrupt : s.chan[c].str /\ EndRead(s.chan[c])
  BY SaveAssumption
<1>2. /\ chan' = s.chan /\ interrupt' = s.interrupt /\ STAT' = s.STAT
      /\ DMAE' = s.DMAE /\ suspended' = s.suspended
      /\ loads' = loads + 1 /\ UNCHANGED <<QueuedDMA, resets>>
      /\ resets + loads < MaxRestarts
  BY DEF Load
<1>3. resets \in Nat /\ loads \in Nat /\ loads' \in 0..MaxRestarts
      /\ loads' # 0 /\ resets' + loads' # 0
  BY <1>2, BoundAssumption DEF Inv, TypeOK
<1>4. TypeOK'
  BY <1>1, <1>2, <1>3 DEF Inv, TypeOK, SaveType
<1>5. ASSUME NEW c \in Channels PROVE ChannelInv(c)'
  BY <1>1, <1>2, <1>3 DEF ChannelInv
<1> QED BY <1>4, <1>5 DEF Inv

-----------------------------------------------------------------------------
(* The theorems.                                                           *)

LEMMA NextInv == Inv /\ [Next]_vars => Inv'
<1> SUFFICES ASSUME Inv, [Next]_vars PROVE Inv'
  OBVIOUS
<1>1. ASSUME NEW c \in Channels, Interrupt(c) PROVE Inv'
  BY <1>1, InterruptInv
<1>2. ASSUME NEW c \in Channels, WriteStat(c) PROVE Inv'
  <2>1. TypeOK'
    BY <1>2 DEF WriteStat, Inv, TypeOK
  <2>2. ASSUME NEW d \in Channels PROVE ChannelInv(d)'
    BY <1>2 DEF WriteStat, Inv, ChannelInv
  <2> QED BY <2>1, <2>2 DEF Inv
<1>3. ASSUME NEW c \in Channels, NEW new \in Requests(chan[c].finished), DmaExec(c, new)
      PROVE  Inv'
  BY <1>3, DmaExecInv
<1>4. ASSUME NEW c \in Channels, ForceStop(c) PROVE Inv'
  BY <1>4, ForceStopInv
<1>5. ASSUME NEW c \in Channels, NEW q \in BOOLEAN, ChangeMode(c, q) PROVE Inv'
  BY <1>5, ChangeModeInv
<1>6. ASSUME NEW e \in BOOLEAN, WriteCtrl(e) PROVE Inv'
  <2>1. DMAE' \in BOOLEAN /\ suspended' \in BOOLEAN /\ UNCHANGED <<STAT, resets, loads>>
    BY <1>6 DEF WriteCtrl, Inv, TypeOK
  <2>2. CASE e
    <3>1. StartQueuedDMA(e, suspended)
      BY <1>6, <2>2 DEF WriteCtrl
    <3> QED BY <2>1, <3>1, QueueInv
  <2>3. CASE ~e
    <3>1. UNCHANGED <<QueuedDMA, interrupt, chan>>
      BY <1>6, <2>3 DEF WriteCtrl
    <3>2. TypeOK'
      BY <2>1, <3>1 DEF Inv, TypeOK
    <3>3. ASSUME NEW d \in Channels PROVE ChannelInv(d)'
      BY <2>1, <3>1 DEF Inv, ChannelInv
    <3> QED BY <3>2, <3>3 DEF Inv
  <2> QED BY <2>2, <2>3
<1>7. ASSUME NEW e \in BOOLEAN, WriteEnable(e) PROVE Inv'
  <2>1. DMAE' \in BOOLEAN /\ suspended' \in BOOLEAN /\ UNCHANGED <<STAT, resets, loads>>
    BY <1>7 DEF WriteEnable, Inv, TypeOK
  <2>2. CASE ~e
    <3>1. StartQueuedDMA(DMAE, e)
      BY <1>7, <2>2 DEF WriteEnable
    <3> QED BY <2>1, <3>1, QueueInv
  <2>3. CASE e
    <3>1. UNCHANGED <<QueuedDMA, interrupt, chan>>
      BY <1>7, <2>3 DEF WriteEnable
    <3>2. TypeOK'
      BY <2>1, <3>1 DEF Inv, TypeOK
    <3>3. ASSUME NEW d \in Channels PROVE ChannelInv(d)'
      BY <2>1, <3>1 DEF Inv, ChannelInv
    <3> QED BY <3>2, <3>3 DEF Inv
  <2> QED BY <2>2, <2>3
<1>8. CASE Reset
  BY <1>8, ResetInv
<1>9. ASSUME NEW s \in Saves, Load(s) PROVE Inv'
  BY <1>9, LoadInv
<1>10. CASE UNCHANGED vars
  <2>1. TypeOK'
    BY <1>10 DEF vars, Inv, TypeOK
  <2>2. ASSUME NEW d \in Channels PROVE ChannelInv(d)'
    BY <1>10 DEF vars, Inv, ChannelInv
  <2> QED BY <2>1, <2>2 DEF Inv
<1> QED BY <1>1, <1>2, <1>3, <1>4, <1>5, <1>6, <1>7, <1>8, <1>9, <1>10 DEF Next

THEOREM Invariance == Spec => []Inv
<1> QED BY InitInv, NextInv, PTL DEF Spec

\* The registers, the queue and the events keep their types.
THEOREM TypeCorrect == Spec => []TypeOK
<1>1. Inv => TypeOK
  BY DEF Inv
<1> QED BY <1>1, Invariance, PTL

\* No start is lost, whatever the order of starts, stops, suspensions, enables and
\* resets.
THEOREM NoStartLost == Spec => []NothingLost
<1>1. Inv => NothingLost
  BY DEF Inv, ChannelInv, NothingLost
<1> QED BY <1>1, Invariance, PTL

\* A stopped channel has no event left.
THEOREM StopClearsEvent == Spec => []StoppedIsSilent
<1>1. Inv => StoppedIsSilent
  BY DEF Inv, ChannelInv, StoppedIsSilent, TypeOK
<1> QED BY <1>1, Invariance, PTL

\* Until a restart a queued channel has not begun, so it is started once.
THEOREM QueueFresh == Spec => []QueuedNotBegun
<1>1. Inv => QueuedNotBegun
  BY DEF Inv, ChannelInv, QueuedNotBegun, TypeOK
<1> QED BY <1>1, Invariance, PTL

\* Until a restart no channel reads past the end of its chain.
THEOREM ChainBounded == Spec => []TagsOfChain
<1>1. Inv => TagsOfChain
  BY DEF Inv, ChannelInv, TagsOfChain
<1> QED BY <1>1, Invariance, PTL

\* Only an event, of the channel's own, announces the end of its transfer.
LEMMA EndIsEvent ==
  ASSUME Inv, Next, NEW c \in Channels, c \in STAT' \ STAT, loads' = loads
  PROVE  Interrupt(c) /\ chan[c].finished /\ ~chan[c].qwc
<1>1. ASSUME NEW d \in Channels, Interrupt(d)
      PROVE  Interrupt(c) /\ chan[c].finished /\ ~chan[c].qwc
  <2>1. ~(~chan[d].finished \/ chan[d].qwc) /\ STAT' = STAT \cup {d}
    BY <1>1 DEF Interrupt
  <2>2. c = d
    BY <2>1
  <2> QED BY <1>1, <2>1, <2>2
<1>2. ASSUME NEW d \in Channels, WriteStat(d) PROVE FALSE
  BY <1>2 DEF WriteStat
<1>3. ASSUME NEW d \in Channels, NEW new \in Requests(chan[d].finished), DmaExec(d, new)
      PROVE  FALSE
  BY <1>3 DEF DmaExec
<1>4. ASSUME NEW d \in Channels, ForceStop(d) PROVE FALSE
  BY <1>4 DEF ForceStop
<1>5. ASSUME NEW d \in Channels, NEW q \in BOOLEAN, ChangeMode(d, q) PROVE FALSE
  BY <1>5 DEF ChangeMode
<1>6. ASSUME NEW e \in BOOLEAN, WriteCtrl(e) \/ WriteEnable(e) PROVE FALSE
  BY <1>6 DEF WriteCtrl, WriteEnable
<1>7. ASSUME Reset PROVE FALSE
  BY <1>7 DEF Reset
<1>8. ASSUME NEW s \in Saves, Load(s) PROVE FALSE
  <2>1. loads \in Nat /\ loads' = loads + 1
    BY <1>8, BoundAssumption DEF Load, Inv, TypeOK
  <2> QED BY <2>1
<1> QED BY <1>1, <1>2, <1>3, <1>4, <1>5, <1>6, <1>7, <1>8 DEF Next

\* The end of a transfer is announced only when nothing is left of it.
THEOREM EndsAreComplete == Spec => EndsComplete
<1>1. ASSUME Inv, Next, NEW c \in Channels, c \in STAT' \ STAT, loads' = loads
      PROVE  /\ ~chan'[c].str /\ ~chan[c].qwc
             /\ chan[c].mode = "CHAIN" => chan[c].tag \in {"irq", "end"}
  <2>1. Interrupt(c) /\ chan[c].finished /\ ~chan[c].qwc
    BY <1>1, EndIsEvent
  <2>2. chan' = [chan EXCEPT ![c].str = FALSE] /\ c \in interrupt
    BY <2>1 DEF Interrupt
  <2>3. chan[c] \in ChannelType /\ chan \in [Channels -> ChannelType] /\ EndRead(chan[c])
    BY <1>1, <2>2 DEF Inv, TypeOK, ChannelInv
  <2>4. chan'[c] = [chan[c] EXCEPT !.str = FALSE]
    BY <2>2, <2>3
  <2>5. ~chan'[c].str
    BY <2>3, <2>4, Fields
  <2> QED BY <2>1, <2>3, <2>5 DEF EndRead
<1> DEFINE Complete ==
      \A c \in Channels :
        (c \in STAT' \ STAT /\ loads' = loads) =>
           /\ ~chan'[c].str /\ ~chan[c].qwc
           /\ chan[c].mode = "CHAIN" => chan[c].tag \in {"irq", "end"}
<1>2. Inv /\ [Next]_vars => [Complete]_vars
  <2> SUFFICES ASSUME Inv, Next PROVE Complete
    OBVIOUS
  <2> QED BY <1>1
<1>3. Spec => [][Complete]_vars
  <2> HIDE DEF Complete
  <2> QED BY <1>2, Invariance, PTL DEF Spec
<1> QED BY <1>3 DEF EndsComplete

\* A disabled or suspended DMAC lets no started channel go on.
THEOREM HaltHolds == Spec => HaltedIsStill
<1> DEFINE Same(c) == /\ chan'[c].chain = chan[c].chain
                      /\ chan'[c].finished = chan[c].finished
                      /\ c \notin STAT' \ STAT
<1>1. ASSUME Inv, Next, ~Runs', resets' = resets, loads' = loads,
             NEW c \in Channels, chan[c].str
      PROVE  Same(c)
  <2>1. chan \in [Channels -> ChannelType] /\ chan[c] \in ChannelType
    BY <1>1 DEF Inv, TypeOK
  <2>2. ASSUME NEW d \in Channels, Interrupt(d) PROVE FALSE
    BY <1>1, <2>2 DEF Interrupt, Runs
  <2>3. ASSUME NEW d \in Channels, WriteStat(d) PROVE Same(c)
    BY <2>3 DEF WriteStat
  <2>4. ASSUME NEW d \in Channels, NEW new \in Requests(chan[d].finished), DmaExec(d, new)
        PROVE  Same(c)
    <3>1. c # d /\ STAT' = STAT
      BY <1>1, <2>4 DEF DmaExec
    <3>2. chan'[c] = chan[c]
      BY <2>1, <2>4, <3>1 DEF DmaExec
    <3> QED BY <3>1, <3>2
  <2>5. ASSUME NEW d \in Channels, ForceStop(d) PROVE Same(c)
    <3>1. chan' = [chan EXCEPT ![d].str = FALSE] /\ STAT' = STAT
      BY <2>5 DEF ForceStop
    <3>2. chan'[c] = chan[c] \/ chan'[c] = [chan[c] EXCEPT !.str = FALSE]
      BY <2>1, <3>1
    <3> QED BY <2>1, <3>1, <3>2, Fields
  <2>6. ASSUME NEW d \in Channels, NEW q \in BOOLEAN, ChangeMode(d, q) PROVE Same(c)
    <3>1. /\ chan' = [chan EXCEPT ![d].mode = "NORMAL", ![d].qwc = @ \/ q]
          /\ STAT' = STAT
      BY <2>6 DEF ChangeMode
    <3>2. \/ chan'[c] = chan[c]
          \/ chan'[c] = [chan[c] EXCEPT !.mode = "NORMAL", !.qwc = @ \/ q]
      BY <2>1, <3>1
    <3> QED BY <2>1, <3>1, <3>2, Fields
  <2>7. ASSUME NEW e \in BOOLEAN, WriteCtrl(e) PROVE Same(c)
    <3>1. STAT' = STAT /\ (e => StartQueuedDMA(e, suspended)) /\ (~e => chan' = chan)
          /\ DMAE' = e /\ suspended' = suspended
      BY <2>7 DEF WriteCtrl
    <3>2. chan'[c] = chan[c]
      BY <1>1, <3>1 DEF StartQueuedDMA, Startable, Runs
    <3> QED BY <3>1, <3>2
  <2>8. ASSUME NEW e \in BOOLEAN, WriteEnable(e) PROVE Same(c)
    <3>1. STAT' = STAT /\ (~e => StartQueuedDMA(DMAE, e)) /\ (e => chan' = chan)
          /\ DMAE' = DMAE /\ suspended' = e
      BY <2>8 DEF WriteEnable
    <3>2. chan'[c] = chan[c]
      BY <1>1, <3>1 DEF StartQueuedDMA, Startable, Runs
    <3> QED BY <3>1, <3>2
  <2>9. resets \in Nat /\ loads \in Nat
    BY <1>1, BoundAssumption DEF Inv, TypeOK
  <2>10. ASSUME Reset PROVE FALSE
    BY <1>1, <2>9, <2>10 DEF Reset
  <2>11. ASSUME NEW s \in Saves, Load(s) PROVE FALSE
    BY <1>1, <2>9, <2>11 DEF Load
  <2> HIDE DEF Same
  <2> QED BY <1>1, <2>2, <2>3, <2>4, <2>5, <2>6, <2>7, <2>8, <2>10, <2>11 DEF Next
<1>2. Inv /\ [Next]_vars => [Still]_vars
  <2> SUFFICES ASSUME Inv, Next PROVE Still
    OBVIOUS
  <2> QED BY <1>1 DEF Still
<1> QED BY <1>2, Invariance, PTL DEF Spec, HaltedIsStill
=============================================================================
