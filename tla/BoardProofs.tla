----------------------------- MODULE BoardProofs -----------------------------
(***************************************************************************)
(* Theorems about Board, for every build, delay and period.  What a        *)
(* program still has to do is a list put together from the lists of the    *)
(* drivers; the proofs say of each stretch of it which accesses it may     *)
(* hold, and name the few whose order matters.                             *)
(***************************************************************************)
EXTENDS Board, SequenceTheorems, TLAPS

-----------------------------------------------------------------------------
(* Lists in general. *)

(* The front of two lists put together is the front of the first.            *)
LEMMA Front ==
  ASSUME NEW S, NEW s \in Seq(S), NEW r \in Seq(S), s # <<>>
  PROVE  s \o r # <<>> /\ Head(s \o r) = Head(s) /\ Tail(s \o r) = Tail(s) \o r
<1>1. /\ s \o r \in Seq(S) /\ Len(s \o r) = Len(s) + Len(r)
      /\ \A i \in 1 .. Len(s) + Len(r) : (s \o r)[i] = IF i <= Len(s) THEN s[i] ELSE r[i - Len(s)]
  BY ConcatProperties
<1>2. Len(s) \in Nat \ {0} /\ Len(r) \in Nat
  BY EmptySeq, LenProperties
<1>3. s \o r # <<>>
  BY <1>1, <1>2, EmptySeq
<1>4. Head(s \o r) = (s \o r)[1] /\ Head(s) = s[1]
  BY <1>1, <1>3
<1>5. Head(s \o r) = Head(s)
  BY <1>1, <1>2, <1>4
<1>6. /\ Tail(s) \in Seq(S) /\ Len(Tail(s)) = Len(s) - 1
      /\ \A i \in 1 .. Len(Tail(s)) : Tail(s)[i] = s[i + 1]
  BY HeadTailProperties
<1>7. /\ Tail(s \o r) \in Seq(S) /\ Len(Tail(s \o r)) = Len(s \o r) - 1
      /\ \A i \in 1 .. Len(Tail(s \o r)) : Tail(s \o r)[i] = (s \o r)[i + 1]
  BY <1>1, <1>3, HeadTailProperties
<1>8. /\ Tail(s) \o r \in Seq(S) /\ Len(Tail(s) \o r) = Len(Tail(s)) + Len(r)
      /\ \A i \in 1 .. Len(Tail(s)) + Len(r) :
            (Tail(s) \o r)[i] = IF i <= Len(Tail(s)) THEN Tail(s)[i] ELSE r[i - Len(Tail(s))]
  BY <1>6, ConcatProperties
<1>9. ASSUME NEW i \in 1 .. Len(Tail(s \o r)) PROVE Tail(s \o r)[i] = (Tail(s) \o r)[i]
  <2>1. Tail(s \o r)[i] = (s \o r)[i + 1] /\ i \in Nat /\ i >= 1 /\ i + 1 <= Len(s) + Len(r)
    BY <1>1, <1>2, <1>7
  <2>2. i + 1 <= Len(s) <=> i <= Len(Tail(s))
    BY <1>2, <1>6, <2>1
  <2>3. CASE i <= Len(Tail(s))
    <3>1. (s \o r)[i + 1] = s[i + 1]
      BY <1>1, <1>2, <2>1, <2>2, <2>3
    <3>2. Tail(s)[i] = s[i + 1]
      BY <1>2, <1>6, <2>1, <2>3
    <3>3. (Tail(s) \o r)[i] = Tail(s)[i]
      BY <1>2, <1>6, <1>8, <2>1, <2>3
    <3> QED
      BY <2>1, <3>1, <3>2, <3>3
  <2>4. CASE i > Len(Tail(s))
    <3>1. (s \o r)[i + 1] = r[(i + 1) - Len(s)]
      BY <1>1, <1>2, <1>6, <2>1, <2>4
    <3>2. (Tail(s) \o r)[i] = r[i - Len(Tail(s))]
      BY <1>2, <1>6, <1>8, <2>1, <2>4
    <3>3. i - Len(Tail(s)) = (i + 1) - Len(s)
      BY <1>2, <1>6, <2>1
    <3> QED
      BY <2>1, <3>1, <3>2, <3>3
  <2> QED
    BY <1>2, <1>6, <2>1, <2>3, <2>4
<1>10. Len(Tail(s \o r)) = Len(Tail(s) \o r)
  BY <1>1, <1>2, <1>6, <1>7, <1>8
<1>11. Tail(s \o r) = Tail(s) \o r
  BY <1>7, <1>8, <1>9, <1>10, SeqEqual
<1> QED
  BY <1>3, <1>5, <1>11

(* Short lists put together, element by element: the library says it of      *)
(* sequences over a set, so each lemma names the set.                        *)
LEMMA Join11 == ASSUME NEW a, NEW b PROVE <<a>> \o <<b>> = <<a, b>>
<1> DEFINE S == {a, b}
           s == <<a>> \o <<b>>
           t == <<a, b>>
<1>1. <<a>> \in Seq(S) /\ <<b>> \in Seq(S) /\ t \in Seq(S) /\ Len(t) = 2
  OBVIOUS
<1>2. s \in Seq(S) /\ Len(s) = 2 /\ \A i \in 1 .. 2 : s[i] = t[i]
  BY <1>1
<1> HIDE DEF s, t, S
<1>3. s = t
  BY <1>1, <1>2, SeqEqual
<1> QED
  BY <1>3 DEF s, t

(* A list of two put behind a list of two.                                   *)
LEMMA Join22 ==
  ASSUME NEW a, NEW b, NEW c, NEW d PROVE <<a, b>> \o <<c, d>> = <<a, b, c, d>>
<1> DEFINE S == {a, b, c, d}
           s == <<a, b>> \o <<c, d>>
           t == <<a, b, c, d>>
<1>1. <<a, b>> \in Seq(S) /\ <<c, d>> \in Seq(S) /\ t \in Seq(S) /\ Len(t) = 4
  OBVIOUS
<1>2. s \in Seq(S) /\ Len(s) = 4 /\ \A i \in 1 .. 4 : s[i] = t[i]
  BY <1>1
<1> HIDE DEF s, t, S
<1>3. s = t
  BY <1>1, <1>2, SeqEqual
<1> QED
  BY <1>3 DEF s, t

-----------------------------------------------------------------------------
(* The accesses of each stretch.  Those before the reading of the button; in *)
(* stage 2 those before D+ is pulled low, the four that pull and hold it,    *)
(* and those that follow; and the application's.                             *)
Stage1Ops ==
  {Op("enable", "PB", 0), Op("enable", "PC", 0), Op("enable", "AF", 0),
   Op("level", FORCE_DFU_IO, 1), Op("mode", FORCE_DFU_IO, "pulled"), Op("read", FORCE_DFU_IO, 0)}
PortA == Op("enable", "PA", 0)
EarlyOps ==
  {Op("identify", "vendor", 0), Op("isGd32", "gd32", 0),
   Op("start", "hse", 0), Op("await", "hse", 0), Op("start", "pll", 0), Op("await", "pll", 0),
   Op("start", "irc48", 0), Op("await", "irc48", 0), Op("usbsel", "irc48", 0),
   Op("pll", "hse", 9), Op("pll", "hsi", 9), Op("psc", "usb", 0), Op("ppre1", "apb1", 2),
   Op("wait", "flash", 2), Op("switch", "pll", 0), Op("zero", "tick", 0),
   Op("tick", "tick", TRUE), Op("tick", "tick", FALSE),
   Op("enable", "PB", 0), Op("enable", "PC", 0), Op("enable", "AF", 0), Op("enable", "USB", 0),
   Op("cntr", "USB", {"pdwn"})}
Pull == Op("mode", DPlus, "output")
Low == Op("level", DPlus, 0)
Target == Op("target", "tick", DelayMs)
Sleep == Op("sleep", "tick", 0)
HoldOps == {Pull, Low, Target, Sleep}
LateOps ==
  {Op("level", DPlus, 1), Op("mode", DPlus, "floating"), Op("pageSize", "page", 0),
   Op("enable", "USB", 0), Op("reset", "USB", 0), Op("clear", "USB", {"pdwn"}),
   Op("clear", "USB", {"fres"}), Op("cntr", "USB", {}), Op("cntr", "USB", {"masks"}),
   Op("loop", "", 0)}
  \cup [do : {"mode"}, at : {"PC13", "PA0", "PA8", "PB13"}, v : {"output"}]
  \cup [do : {"level"}, at : {"PC13", "PA0", "PA8", "PB13"}, v : {0, 1}]
AppOps ==
  {Op("identify", "vendor", 0), Op("switch", "hsi", 0), Op("switched", "hsi", 0),
   Op("stop", "hse", 0), Op("stop", "pll", 0), Op("start", "hse", 0), Op("await", "hse", 0),
   Op("start", "pll", 0), Op("await", "pll", 0), Op("core", "", InputClock * Multiplier),
   Op("pll", "hse", Factor(Multipliers[Multiplier + 1])),
   Op("pll", "hsi", Factor(Multipliers[Multiplier + 1])),
   Op("ppre1", "apb1", 2), Op("stmWait", "flash", 0), Op("stmWait", "flash", 1),
   Op("stmWait", "flash", 2), Op("switch", "pll", 0), Op("scale", "usb", 0)}
StageTwoOps == EarlyOps \cup {PortA} \cup HoldOps \cup LateOps

(* A list with one access PortA between early ones, and what follows the     *)
(* hold of D+ in stage 2.                                                    *)
WithPortA(list) == \E s, u \in Seq(EarlyOps) : list = s \o (<<PortA>> \o u)
Hold4 == <<Pull, Low, Target, Sleep>>
Hold3 == <<Low, Target, Sleep>>
Hold2 == <<Target, Sleep>>
Hold1 == <<Sleep>>
Follows(hold, list) == \E r \in Seq(LateOps) : list = hold \o r

(* Lists of one and of a few accesses.                                       *)
LEMMA SmallLists ==
  ASSUME NEW S
  PROVE  /\ \A a \in S : <<a>> \in Seq(S)
         /\ \A a, b \in S : <<a, b>> \in Seq(S)
         /\ \A a, b, c \in S : <<a, b, c>> \in Seq(S)
         /\ \A s, t \in Seq(S) : s \o t \in Seq(S)
BY ConcatProperties

(* The sets are sets of accesses of stage 2.                                 *)
LEMMA Stretches ==
  /\ \A s \in Seq(EarlyOps) : s \in Seq(StageTwoOps)
  /\ \A s \in Seq(LateOps) : s \in Seq(StageTwoOps)
  /\ PortA \in StageTwoOps /\ HoldOps \subseteq StageTwoOps
<1>1. EarlyOps \subseteq StageTwoOps /\ LateOps \subseteq StageTwoOps
  BY DEF StageTwoOps
<1> QED
  BY <1>1, SeqMonotonic DEF StageTwoOps

(* The clock set-ups are early accesses.                                     *)
LEMMA ClockLists ==
  /\ ClockFromCrystal \in Seq(EarlyOps) /\ ClockFromRc \in Seq(EarlyOps)
<1>1. Start("hse") \in Seq(EarlyOps) /\ Start("pll") \in Seq(EarlyOps)
      /\ Start("irc48") \in Seq(EarlyOps)
  BY SmallLists DEF Start, EarlyOps
<1>2. Cfg0Word("hse") \in Seq(EarlyOps) /\ Cfg0Word("hsi") \in Seq(EarlyOps)
  BY SmallLists DEF Cfg0Word, Pll, EarlyOps
<1>3. <<WaitStates(2)>> \in Seq(EarlyOps) /\ <<Switch("pll")>> \in Seq(EarlyOps)
      /\ <<Op("usbsel", "irc48", 0)>> \in Seq(EarlyOps)
  BY SmallLists DEF WaitStates, Switch, EarlyOps
<1> HIDE DEF EarlyOps
<1>4. ClockFromCrystal \in Seq(EarlyOps)
  BY <1>1, <1>2, <1>3, SmallLists DEF ClockFromCrystal
<1>5. ClockFromRc \in Seq(EarlyOps)
  BY <1>1, <1>2, <1>3, SmallLists DEF ClockFromRc
<1> QED
  BY <1>4, <1>5

(* A list with one PortA keeps being one when early accesses are put before  *)
(* or behind it; its front is an early access or PortA.                      *)
LEMMA PortAGrows ==
  ASSUME NEW list, WithPortA(list), NEW e \in Seq(EarlyOps)
  PROVE  WithPortA(list \o e) /\ WithPortA(e \o list)
<1>1. PICK s \in Seq(EarlyOps), u \in Seq(EarlyOps) : list = s \o (<<PortA>> \o u)
  BY DEF WithPortA
<1>2. <<PortA>> \in Seq(StageTwoOps)
  BY Stretches, SmallLists
<1>3. s \in Seq(StageTwoOps) /\ u \in Seq(StageTwoOps) /\ e \in Seq(StageTwoOps)
  BY Stretches
<1>4. <<PortA>> \o u \in Seq(StageTwoOps)
  BY <1>2, <1>3, SmallLists
<1>5. list \o e = s \o (<<PortA>> \o (u \o e))
  <2>1. list \o e = s \o ((<<PortA>> \o u) \o e)
    BY <1>1, <1>3, <1>4, ConcatAssociative
  <2>2. (<<PortA>> \o u) \o e = <<PortA>> \o (u \o e)
    BY <1>2, <1>3, ConcatAssociative
  <2> QED
    BY <2>1, <2>2
<1>6. e \o list = (e \o s) \o (<<PortA>> \o u)
  <2>1. e \o (s \o (<<PortA>> \o u)) = (e \o s) \o (<<PortA>> \o u)
    BY <1>3, <1>4, ConcatAssociative
  <2> QED
    BY <1>1, <2>1
<1>7. u \o e \in Seq(EarlyOps) /\ e \o s \in Seq(EarlyOps)
  BY SmallLists
<1> QED
  BY <1>5, <1>6, <1>7 DEF WithPortA

(* The front of such a list is early or PortA; after PortA all are early.    *)
LEMMA PortAFront ==
  ASSUME NEW list, WithPortA(list)
  PROVE  /\ list # <<>> /\ list \in Seq(StageTwoOps)
         /\ \/ Head(list) \in EarlyOps /\ WithPortA(Tail(list))
            \/ Head(list) = PortA /\ Tail(list) \in Seq(EarlyOps)
<1>1. PICK s \in Seq(EarlyOps), u \in Seq(EarlyOps) : list = s \o (<<PortA>> \o u)
  BY DEF WithPortA
<1>2. <<PortA>> \in Seq(StageTwoOps)
  BY Stretches, SmallLists
<1>3. s \in Seq(StageTwoOps) /\ u \in Seq(StageTwoOps)
  BY Stretches
<1>4. <<PortA>> \o u \in Seq(StageTwoOps) /\ list \in Seq(StageTwoOps)
  BY <1>1, <1>2, <1>3, SmallLists
<1>5. CASE s = <<>>
  <2>1. list = <<PortA>> \o u
    BY <1>1, <1>4, <1>5, ConcatEmptySeq
  <2>2. <<PortA>> # <<>> /\ Head(<<PortA>>) = PortA /\ Tail(<<PortA>>) = <<>>
    OBVIOUS
  <2>3. list # <<>> /\ Head(list) = PortA /\ Tail(list) = <<>> \o u
    BY <1>2, <1>3, <2>1, <2>2, Front
  <2>4. Tail(list) = u
    BY <1>3, <2>3, ConcatEmptySeq
  <2> QED
    BY <1>4, <2>3, <2>4
<1>6. CASE s # <<>>
  <2>1. list # <<>> /\ Head(list) = Head(s) /\ Tail(list) = Tail(s) \o (<<PortA>> \o u)
    BY <1>1, <1>3, <1>4, <1>6, Front
  <2>2. Head(s) \in EarlyOps /\ Tail(s) \in Seq(EarlyOps)
    BY <1>6, HeadTailProperties
  <2>3. WithPortA(Tail(list))
    BY <2>1, <2>2 DEF WithPortA
  <2> QED
    BY <1>4, <2>1, <2>2, <2>3
<1> QED
  BY <1>5, <1>6

(* Stage 2 in order: early accesses and PortA, early accesses, the hold of   *)
(* D+, and the rest.                                                         *)
Ahead(list) == \E l, h : WithPortA(l) /\ Follows(Hold4, h) /\ list = l \o h
Near(list) == \E s \in Seq(EarlyOps) : \E h : Follows(Hold4, h) /\ list = s \o h

(* The hold of D+, and every list that starts with what is left of it, are   *)
(* lists of accesses of stage 2.                                             *)
LEMMA HoldLists ==
  /\ Hold4 \in Seq(StageTwoOps) /\ Hold3 \in Seq(StageTwoOps) /\ Hold2 \in Seq(StageTwoOps)
  /\ Hold1 \in Seq(StageTwoOps)
  /\ \A hold \in {Hold1, Hold2, Hold3, Hold4} : \A h :
        Follows(hold, h) => h \in Seq(StageTwoOps)
<1>1. Pull \in StageTwoOps /\ Low \in StageTwoOps /\ Target \in StageTwoOps /\ Sleep \in StageTwoOps
  BY Stretches DEF HoldOps
<1>2. Hold3 \in Seq(StageTwoOps) /\ Hold2 \in Seq(StageTwoOps) /\ Hold1 \in Seq(StageTwoOps)
  BY <1>1, SmallLists DEF Hold3, Hold2, Hold1
<1>3. Hold4 = <<Pull, Low>> \o <<Target, Sleep>>
  BY Join22 DEF Hold4
<1>4. Hold4 \in Seq(StageTwoOps)
  BY <1>1, <1>3, SmallLists
<1>5. ASSUME NEW hold \in {Hold1, Hold2, Hold3, Hold4}, NEW h, Follows(hold, h)
      PROVE  h \in Seq(StageTwoOps)
  <2>1. PICK r \in Seq(LateOps) : h = hold \o r
    BY <1>5 DEF Follows
  <2>2. r \in Seq(StageTwoOps) /\ hold \in Seq(StageTwoOps)
    BY <1>2, <1>4, Stretches
  <2> QED
    BY <2>1, <2>2, SmallLists
<1> QED
  BY <1>2, <1>4, <1>5

(* The hold of D+ is done in its order: the pin becomes an output, the       *)
(* output is made low, the delay is set and waited for (dfu.cpp:485-491).    *)
LEMMA HoldFront ==
  ASSUME NEW h
  PROVE  /\ Follows(Hold4, h) => h # <<>> /\ Head(h) = Pull /\ Follows(Hold3, Tail(h))
         /\ Follows(Hold3, h) => h # <<>> /\ Head(h) = Low /\ Follows(Hold2, Tail(h))
         /\ Follows(Hold2, h) => h # <<>> /\ Head(h) = Target /\ Follows(Hold1, Tail(h))
         /\ Follows(Hold1, h) => h # <<>> /\ Head(h) = Sleep /\ Tail(h) \in Seq(LateOps)
<1>1. ASSUME NEW hold \in Seq(StageTwoOps), hold # <<>>, Follows(hold, h)
      PROVE  h # <<>> /\ Head(h) = Head(hold) /\ Follows(Tail(hold), Tail(h))
  <2>1. PICK r \in Seq(LateOps) : h = hold \o r
    BY <1>1 DEF Follows
  <2>2. r \in Seq(StageTwoOps)
    BY Stretches
  <2>3. h # <<>> /\ Head(h) = Head(hold) /\ Tail(h) = Tail(hold) \o r
    BY <1>1, <2>1, <2>2, Front
  <2> QED
    BY <2>3 DEF Follows
<1>2. Hold4 # <<>> /\ Head(Hold4) = Pull /\ Tail(Hold4) = Hold3
  BY DEF Hold4, Hold3
<1>3. Hold3 # <<>> /\ Head(Hold3) = Low /\ Tail(Hold3) = Hold2
  BY DEF Hold3, Hold2
<1>4. Hold2 # <<>> /\ Head(Hold2) = Target /\ Tail(Hold2) = Hold1
  BY DEF Hold2, Hold1
<1>5. Hold1 # <<>> /\ Head(Hold1) = Sleep /\ Tail(Hold1) = <<>>
  BY DEF Hold1
<1>6. Follows(<<>>, Tail(h)) => Tail(h) \in Seq(LateOps)
  BY ConcatEmptySeq DEF Follows
<1> QED
  BY <1>1, <1>2, <1>3, <1>4, <1>5, <1>6, HoldLists

(* What comes next once the port of D+ has its clock.                        *)
LEMMA NearFront ==
  ASSUME NEW list, Near(list)
  PROVE  /\ list # <<>>
         /\ \/ Head(list) \in EarlyOps /\ Near(Tail(list))
            \/ Head(list) = Pull /\ Follows(Hold3, Tail(list))
<1>1. PICK s \in Seq(EarlyOps) : \E h : Follows(Hold4, h) /\ list = s \o h
  BY DEF Near
<1>2. PICK h : Follows(Hold4, h) /\ list = s \o h
  BY <1>1
<1>3. s \in Seq(StageTwoOps) /\ h \in Seq(StageTwoOps)
  BY <1>2, Stretches, HoldLists
<1>4. CASE s = <<>>
  <2>1. list = h
    BY <1>2, <1>3, <1>4, ConcatEmptySeq
  <2> QED
    BY <1>2, <2>1, HoldFront
<1>5. CASE s # <<>>
  <2>1. list # <<>> /\ Head(list) = Head(s) /\ Tail(list) = Tail(s) \o h
    BY <1>2, <1>3, <1>5, Front
  <2>2. Head(s) \in EarlyOps /\ Tail(s) \in Seq(EarlyOps)
    BY <1>5, HeadTailProperties
  <2> QED
    BY <1>2, <2>1, <2>2 DEF Near
<1> QED
  BY <1>4, <1>5

(* What comes next before that.                                              *)
LEMMA AheadFront ==
  ASSUME NEW list, Ahead(list)
  PROVE  /\ list # <<>>
         /\ \/ Head(list) \in EarlyOps /\ Ahead(Tail(list))
            \/ Head(list) = PortA /\ Near(Tail(list))
<1>1. PICK l, h : WithPortA(l) /\ Follows(Hold4, h) /\ list = l \o h
  BY DEF Ahead
<1>2. l \in Seq(StageTwoOps) /\ h \in Seq(StageTwoOps) /\ l # <<>>
  BY <1>1, PortAFront, HoldLists
<1>3. list # <<>> /\ Head(list) = Head(l) /\ Tail(list) = Tail(l) \o h
  BY <1>1, <1>2, Front
<1>4. CASE Head(l) \in EarlyOps /\ WithPortA(Tail(l))
  BY <1>1, <1>3, <1>4 DEF Ahead
<1>5. CASE Head(l) = PortA /\ Tail(l) \in Seq(EarlyOps)
  BY <1>1, <1>3, <1>5 DEF Near
<1> QED
  BY <1>1, <1>4, <1>5, PortAFront

(* The identification of the chip and setupForUsb are early accesses, with   *)
(* the clock of D+'s port among them (dfu.cpp:440-467).                      *)
LEMMA SetupList == WithPortA(Identify \o SetupForUsb)
<1> DEFINE C == IF build.crystal THEN ClockFromCrystal ELSE ClockFromRc
           I == <<Op("isGd32", "gd32", 0)>>
<1>1. C \in Seq(EarlyOps)
  BY ClockLists
<1>2. /\ I \in Seq(EarlyOps) /\ Identify \in Seq(EarlyOps) /\ Enable("PB") \in Seq(EarlyOps)
      /\ Enable("PC") \in Seq(EarlyOps) /\ Enable("AF") \in Seq(EarlyOps)
      /\ Enable("USB") \in Seq(EarlyOps) /\ <<Op("zero", "tick", 0)>> \in Seq(EarlyOps)
      /\ TickControl(FALSE) \in Seq(EarlyOps) /\ TickControl(TRUE) \in Seq(EarlyOps)
      /\ <<Op("cntr", "USB", {"pdwn"})>> \in Seq(EarlyOps)
  BY SmallLists DEF EarlyOps, Identify, Enable, TickControl
<1> DEFINE L0 == I \o C
           L1 == L0 \o Enable("PA")
           L2 == L1 \o Enable("PB")
           L3 == L2 \o Enable("PC")
           L4 == L3 \o Enable("AF")
           L5 == L4 \o <<Op("zero", "tick", 0)>>
           L6 == L5 \o TickControl(FALSE)
           L7 == L6 \o TickControl(TRUE)
           L8 == L7 \o Enable("USB")
           L9 == L8 \o <<Op("cntr", "USB", {"pdwn"})>>
<1>3. SetupForUsb = L9
  BY DEF SetupForUsb
<1>4. WithPortA(L1)
  <2>1. L0 \in Seq(EarlyOps) /\ <<>> \in Seq(EarlyOps)
    BY <1>1, <1>2, SmallLists, EmptySeq
  <2>2. Enable("PA") = <<PortA>> \o <<>>
    BY DEF Enable, PortA
  <2> QED
    BY <2>1, <2>2 DEF WithPortA
<1> HIDE DEF L1
<1>5. WithPortA(L2)
  BY <1>2, <1>4, PortAGrows
<1> HIDE DEF L2
<1>6. WithPortA(L3)
  BY <1>2, <1>5, PortAGrows
<1> HIDE DEF L3
<1>7. WithPortA(L4)
  BY <1>2, <1>6, PortAGrows
<1> HIDE DEF L4
<1>8. WithPortA(L5)
  BY <1>2, <1>7, PortAGrows
<1> HIDE DEF L5
<1>9. WithPortA(L6)
  BY <1>2, <1>8, PortAGrows
<1> HIDE DEF L6
<1>10. WithPortA(L7)
  BY <1>2, <1>9, PortAGrows
<1> HIDE DEF L7
<1>11. WithPortA(L8)
  BY <1>2, <1>10, PortAGrows
<1> HIDE DEF L8
<1>12. WithPortA(L9)
  BY <1>2, <1>11, PortAGrows
<1> QED
  BY <1>2, <1>3, <1>12, PortAGrows

(* Late accesses put behind the hold leave it at the front.                  *)
LEMMA HoldGrows ==
  ASSUME NEW h, Follows(Hold4, h), NEW e \in Seq(LateOps)
  PROVE  Follows(Hold4, h \o e)
<1>1. PICK r \in Seq(LateOps) : h = Hold4 \o r
  BY DEF Follows
<1>2. r \in Seq(StageTwoOps) /\ e \in Seq(StageTwoOps)
  BY Stretches
<1>3. h \o e = Hold4 \o (r \o e)
  <2>1. Hold4 \in Seq(StageTwoOps)
    BY HoldLists
  <2> QED
    BY <1>1, <1>2, <2>1, ConcatAssociative
<1>4. r \o e \in Seq(LateOps)
  BY SmallLists
<1> QED
  BY <1>3, <1>4 DEF Follows

(* A write to the pin of an LED is a late access.                            *)
LEMMA LatePins ==
  ASSUME NEW p \in {"PC13", "PA0", "PA8", "PB13"}
  PROVE  /\ PinMode(p, "output") \in Seq(LateOps)
         /\ \A bit \in {0, 1} : DigitalWrite(p, bit) \in Seq(LateOps)
<1>1. Op("mode", p, "output") \in LateOps /\ \A bit \in {0, 1} : Op("level", p, bit) \in LateOps
  BY DEF Op, LateOps
<1>2. PinMode(p, "output") = <<Op("mode", p, "output")>>
  BY DEF PinMode
<1> QED
  BY <1>1, <1>2, SmallLists DEF DigitalWrite

(* So are the accesses of runDfu and usbInit after the delay.                *)
LEMMA LateLists ==
  /\ DigitalWrite(DPlus, 1) \in Seq(LateOps) /\ PinMode(DPlus, "floating") \in Seq(LateOps)
  /\ <<Op("pageSize", "page", 0)>> \in Seq(LateOps) /\ UsbInit \in Seq(LateOps)
  /\ <<Op("loop", "", 0)>> \in Seq(LateOps)
<1>1. PinMode(DPlus, "floating") = <<Op("mode", DPlus, "floating")>>
  BY DEF PinMode
<1>2. /\ Op("level", DPlus, 1) \in LateOps /\ Op("mode", DPlus, "floating") \in LateOps
      /\ Op("pageSize", "page", 0) \in LateOps /\ Op("loop", "", 0) \in LateOps
      /\ Op("enable", "USB", 0) \in LateOps /\ Op("reset", "USB", 0) \in LateOps
      /\ Op("clear", "USB", {"pdwn"}) \in LateOps /\ Op("clear", "USB", {"fres"}) \in LateOps
      /\ Op("cntr", "USB", {}) \in LateOps /\ Op("cntr", "USB", {"masks"}) \in LateOps
  BY DEF LateOps
<1> HIDE DEF LateOps
<1>3. UsbInit \in Seq(LateOps)
  <2> DEFINE a == Op("reset", "USB", 0)
             b == Op("clear", "USB", {"pdwn"})
             c == Op("clear", "USB", {"fres"})
             d == Op("cntr", "USB", {})
             e == Op("cntr", "USB", {"masks"})
  <2>1. Enable("USB") \in Seq(LateOps)
    BY <1>2, SmallLists DEF Enable
  <2>2. a \in LateOps /\ b \in LateOps /\ c \in LateOps /\ d \in LateOps /\ e \in LateOps
    BY <1>2
  <2>3. UsbInit = Enable("USB") \o <<a, b, c, d, e>>
    BY DEF UsbInit
  <2> HIDE DEF a, b, c, d, e
  <2>4. <<a, b, c, d, e>> \in Seq(LateOps)
    BY <2>2
  <2> QED
    BY <2>1, <2>3, <2>4, SmallLists
<1> QED
  BY <1>1, <1>2, <1>3, SmallLists DEF DigitalWrite

(* runDfu holds D+ low first (dfu.cpp:478-503).                              *)
LEMMA DfuList == Follows(Hold4, RunDfu)
<1> DEFINE ledPin == IF build.crystal THEN "PC13" ELSE "PA0"
           L0 == PinMode(DPlus, "output") \o DigitalWrite(DPlus, 0) \o Delay(DelayMs)
           L1 == L0 \o DigitalWrite(DPlus, 1)
           L2 == L1 \o PinMode(DPlus, "floating")
           L3 == L2 \o <<Op("pageSize", "page", 0)>>
           L4 == L3 \o UsbInit
           L5 == L4 \o PinMode(ledPin, "output")
           L6 == L5 \o PinMode("PA8", "output")
           L7 == L6 \o PinMode("PB13", "output")
           L8 == L7 \o <<Op("loop", "", 0)>>
<1>1. RunDfu = L8
  BY DEF RunDfu
<1>2. ledPin \in {"PC13", "PA0", "PA8", "PB13"}
  OBVIOUS
<1>3. /\ PinMode(ledPin, "output") \in Seq(LateOps) /\ PinMode("PA8", "output") \in Seq(LateOps)
      /\ PinMode("PB13", "output") \in Seq(LateOps)
  BY <1>2, LatePins
<1>4. Follows(Hold4, L0)
  <2>1. PinMode(DPlus, "output") = <<Pull>> /\ DigitalWrite(DPlus, 0) = <<Low>>
        /\ Delay(DelayMs) = <<Target, Sleep>>
    BY DEF PinMode, DigitalWrite, Delay, Pull, Low, Target, Sleep
  <2>2. L0 = Hold4
    <3>1. <<Pull>> \o <<Low>> = <<Pull, Low>>
      BY Join11
    <3>2. <<Pull, Low>> \o <<Target, Sleep>> = <<Pull, Low, Target, Sleep>>
      BY Join22
    <3> QED
      BY <2>1, <3>1, <3>2 DEF Hold4
  <2>3. <<>> \in Seq(LateOps) /\ Hold4 \o <<>> = Hold4
    BY EmptySeq, HoldLists, ConcatEmptySeq
  <2> QED
    BY <2>2, <2>3 DEF Follows
<1> HIDE DEF L0, ledPin
<1>5. Follows(Hold4, L1)
  BY <1>4, LateLists, HoldGrows
<1> HIDE DEF L1
<1>6. Follows(Hold4, L2)
  BY <1>5, LateLists, HoldGrows
<1> HIDE DEF L2
<1>7. Follows(Hold4, L3)
  BY <1>6, LateLists, HoldGrows
<1> HIDE DEF L3
<1>8. Follows(Hold4, L4)
  BY <1>7, LateLists, HoldGrows
<1> HIDE DEF L4
<1>9. Follows(Hold4, L5)
  BY <1>3, <1>8, HoldGrows
<1> HIDE DEF L5
<1>10. Follows(Hold4, L6)
  BY <1>3, <1>9, HoldGrows
<1> HIDE DEF L6
<1>11. Follows(Hold4, L7)
  BY <1>3, <1>10, HoldGrows
<1> HIDE DEF L7
<1>12. Follows(Hold4, L8)
  BY <1>11, LateLists, HoldGrows
<1> QED
  BY <1>1, <1>12

(* So stage 2 starts Ahead.                                                  *)
LEMMA EntryList == Ahead(Stage2Entry)
BY SetupList, DfuList DEF Ahead, Stage2Entry

(* The main loop between two polls only writes to the LEDs.                  *)
LEMMA BlinkList ==
  ASSUME NEW bit \in {0, 1}
  PROVE  DigitalWrite(IF build.crystal THEN "PC13" ELSE "PA0", bit) \o DigitalWrite("PA8", bit)
           \o DigitalWrite("PB13", bit) \in Seq(LateOps)
<1> DEFINE ledPin == IF build.crystal THEN "PC13" ELSE "PA0"
<1>1. ledPin \in {"PC13", "PA0", "PA8", "PB13"}
  OBVIOUS
<1> HIDE DEF ledPin
<1>2. /\ DigitalWrite(ledPin, bit) \in Seq(LateOps) /\ DigitalWrite("PA8", bit) \in Seq(LateOps)
      /\ DigitalWrite("PB13", bit) \in Seq(LateOps)
  BY <1>1, LatePins
<1>3. DigitalWrite(ledPin, bit) \o DigitalWrite("PA8", bit) \o DigitalWrite("PB13", bit)
        \in Seq(LateOps)
  BY <1>2, SmallLists
<1> QED
  BY <1>3 DEF ledPin

(* The clock set-up of an application is made of its accesses.               *)
LEMMA AppList ==
  InitSystemClock \o (IF build.external THEN EnableUsb48Mhz ELSE <<>>) \in Seq(AppOps)
<1> DEFINE code == Factor(Multipliers[Multiplier + 1])
           core == InputClock * Multiplier
           w == IF build.speed > 48 THEN 2 ELSE IF build.speed > 24 THEN 1 ELSE 0
           src == IF build.external THEN "hse" ELSE "hsi"
<1>1. /\ Op("identify", "vendor", 0) \in AppOps /\ Op("switch", "hsi", 0) \in AppOps
      /\ Op("switched", "hsi", 0) \in AppOps /\ Op("stop", "hse", 0) \in AppOps
      /\ Op("stop", "pll", 0) \in AppOps /\ Op("start", "hse", 0) \in AppOps
      /\ Op("await", "hse", 0) \in AppOps /\ Op("start", "pll", 0) \in AppOps
      /\ Op("await", "pll", 0) \in AppOps /\ Op("switch", "pll", 0) \in AppOps
      /\ Op("ppre1", "apb1", 2) \in AppOps /\ Op("scale", "usb", 0) \in AppOps
  BY DEF AppOps
<1>2. Op("core", "", core) \in AppOps /\ Op("pll", src, code) \in AppOps
  BY DEF AppOps
<1>3. Op("stmWait", "flash", w) \in AppOps
  BY DEF AppOps
<1> HIDE DEF AppOps
<1>4. Identify \in Seq(AppOps) /\ Start("hse") \in Seq(AppOps) /\ Start("pll") \in Seq(AppOps)
      /\ EnableUsb48Mhz \in Seq(AppOps) /\ <<>> \in Seq(AppOps)
  BY <1>1, SmallLists, EmptySeq DEF Identify, Start, EnableUsb48Mhz
<1>5. SetPll \in Seq(AppOps)
  <2>1. SetPll = <<Op("core", "", core), Op("pll", src, code)>> \o Start("pll")
    BY DEF SetPll, Pll
  <2>2. <<Op("core", "", core), Op("pll", src, code)>> \in Seq(AppOps)
    BY <1>2, SmallLists
  <2> QED
    BY <1>4, <2>1, <2>2, SmallLists
<1> DEFINE Stops == <<Switch("hsi"), Op("switched", "hsi", 0), Op("stop", "hse", 0),
                      Op("stop", "pll", 0)>>
           Crystal == IF build.external THEN Start("hse") ELSE <<>>
           Last == <<Op("ppre1", "apb1", 2), Op("stmWait", "flash", w), Switch("pll")>>
<1>6. Stops \in Seq(AppOps) /\ Last \in Seq(AppOps) /\ Crystal \in Seq(AppOps)
  <2>1. Last \in Seq(AppOps)
    BY <1>1, <1>3, SmallLists DEF Switch
  <2>2. Stops = <<Switch("hsi"), Op("switched", "hsi", 0)>>
                  \o <<Op("stop", "hse", 0), Op("stop", "pll", 0)>>
    BY Join22
  <2>3. /\ <<Switch("hsi"), Op("switched", "hsi", 0)>> \in Seq(AppOps)
        /\ <<Op("stop", "hse", 0), Op("stop", "pll", 0)>> \in Seq(AppOps)
    BY <1>1, SmallLists DEF Switch
  <2> HIDE DEF Stops
  <2>4. Stops \in Seq(AppOps)
    BY <2>2, <2>3, SmallLists
  <2> QED
    BY <1>4, <2>1, <2>4
<1>7. InitSystemClock = Identify \o Stops \o Crystal \o SetPll \o Last
  BY DEF InitSystemClock
<1> HIDE DEF Stops, Crystal, Last
<1>8. InitSystemClock \in Seq(AppOps)
  BY <1>4, <1>5, <1>6, <1>7, SmallLists
<1> QED
  BY <1>4, <1>8, SmallLists

-----------------------------------------------------------------------------
(* What is left of stage 1, from the end.                                    *)
Boot1 == <<Op("read", FORCE_DFU_IO, 0)>>
Boot2 == <<Op("mode", FORCE_DFU_IO, "pulled")>> \o Boot1
Boot3 == <<Op("level", FORCE_DFU_IO, 1)>> \o Boot2
Boot4 == <<Op("enable", "AF", 0)>> \o Boot3
Boot5 == <<Op("enable", "PC", 0)>> \o Boot4
Boot6 == <<Op("enable", "PB", 0)>> \o Boot5

(* Stage 1 is Boot6, and each access leads to the next one: the clocks of    *)
(* the ports, the pull-up, and the reading of the pin (main.cpp:124-136).    *)
LEMMA BootLists ==
  /\ StageOne = Boot6
  /\ Boot6 # <<>> /\ Head(Boot6) = Op("enable", "PB", 0) /\ Tail(Boot6) = Boot5
  /\ Boot5 # <<>> /\ Head(Boot5) = Op("enable", "PC", 0) /\ Tail(Boot5) = Boot4
  /\ Boot4 # <<>> /\ Head(Boot4) = Op("enable", "AF", 0) /\ Tail(Boot4) = Boot3
  /\ Boot3 # <<>> /\ Head(Boot3) = Op("level", FORCE_DFU_IO, 1) /\ Tail(Boot3) = Boot2
  /\ Boot2 # <<>> /\ Head(Boot2) = Op("mode", FORCE_DFU_IO, "pulled") /\ Tail(Boot2) = Boot1
  /\ Boot1 # <<>> /\ Head(Boot1) = Op("read", FORCE_DFU_IO, 0) /\ Tail(Boot1) = <<>>
<1> DEFINE a == Op("enable", "PB", 0)
           b == Op("enable", "PC", 0)
           c == Op("enable", "AF", 0)
           d == Op("level", FORCE_DFU_IO, 1)
           e == Op("mode", FORCE_DFU_IO, "pulled")
           f == Op("read", FORCE_DFU_IO, 0)
<1>1. /\ Boot1 = <<f>> /\ Boot2 = <<e>> \o Boot1 /\ Boot3 = <<d>> \o Boot2
      /\ Boot4 = <<c>> \o Boot3 /\ Boot5 = <<b>> \o Boot4 /\ Boot6 = <<a>> \o Boot5
  BY DEF Boot1, Boot2, Boot3, Boot4, Boot5, Boot6
<1>2. PinMode(FORCE_DFU_IO, "pullup") = <<d, e>>
  BY DEF PinMode
<1>3. StageOne = (((<<a>> \o <<b>>) \o <<c>>) \o <<d, e>>) \o <<f>>
  BY <1>2 DEF StageOne, Enable
<1>4. a \in Stage1Ops /\ b \in Stage1Ops /\ c \in Stage1Ops /\ d \in Stage1Ops /\ e \in Stage1Ops
      /\ f \in Stage1Ops
  BY DEF Stage1Ops
<1> HIDE DEF a, b, c, d, e, f
<1>5. /\ <<a>> \in Seq(Stage1Ops) /\ <<b>> \in Seq(Stage1Ops) /\ <<c>> \in Seq(Stage1Ops)
      /\ <<d>> \in Seq(Stage1Ops) /\ <<e>> \in Seq(Stage1Ops) /\ <<f>> \in Seq(Stage1Ops)
  BY <1>4, SmallLists
<1>6. /\ Boot1 \in Seq(Stage1Ops) /\ Boot2 \in Seq(Stage1Ops) /\ Boot3 \in Seq(Stage1Ops)
      /\ Boot4 \in Seq(Stage1Ops) /\ Boot5 \in Seq(Stage1Ops)
  BY <1>1, <1>5, SmallLists
<1>7. StageOne = Boot6
  <2>1. <<d, e>> = <<d>> \o <<e>> /\ <<d, e>> \in Seq(Stage1Ops)
    BY <1>4, Join11, SmallLists
  <2>2. <<a>> \o <<b>> \in Seq(Stage1Ops) /\ (<<a>> \o <<b>>) \o <<c>> \in Seq(Stage1Ops)
    BY <1>5, SmallLists
  <2>3. <<d, e>> \o <<f>> = Boot3
    BY <1>1, <1>5, <2>1, ConcatAssociative
  <2>4. StageOne = ((<<a>> \o <<b>>) \o <<c>>) \o Boot3
    <3> DEFINE s == (<<a>> \o <<b>>) \o <<c>>
               t == <<d, e>>
               u == <<f>>
    <3>1. s \in Seq(Stage1Ops) /\ t \in Seq(Stage1Ops) /\ u \in Seq(Stage1Ops)
      BY <1>5, <2>1, <2>2
    <3>2. StageOne = (s \o t) \o u /\ t \o u = Boot3
      BY <1>3, <2>3
    <3> HIDE DEF s, t, u
    <3>3. (s \o t) \o u = s \o (t \o u)
      BY <3>1, ConcatAssociative
    <3>4. StageOne = s \o Boot3
      BY <3>2, <3>3
    <3> QED
      BY <3>4 DEF s
  <2>5. StageOne = (<<a>> \o <<b>>) \o Boot4
    BY <1>1, <1>5, <1>6, <2>2, <2>4, ConcatAssociative
  <2> QED
    BY <1>1, <1>5, <1>6, <2>5, ConcatAssociative
<1>8. ASSUME NEW x \in Stage1Ops, NEW r \in Seq(Stage1Ops)
      PROVE  <<x>> \o r # <<>> /\ Head(<<x>> \o r) = x /\ Tail(<<x>> \o r) = r
  <2>1. <<x>> \in Seq(Stage1Ops) /\ <<x>> # <<>> /\ Head(<<x>>) = x /\ Tail(<<x>>) = <<>>
    BY SmallLists
  <2>2. <<>> \o r = r
    BY ConcatEmptySeq
  <2> QED
    BY <2>1, <2>2, Front
<1>9. Boot1 # <<>> /\ Head(Boot1) = f /\ Tail(Boot1) = <<>>
  BY <1>1
<1>10. /\ Boot6 # <<>> /\ Head(Boot6) = a /\ Tail(Boot6) = Boot5
       /\ Boot5 # <<>> /\ Head(Boot5) = b /\ Tail(Boot5) = Boot4
       /\ Boot4 # <<>> /\ Head(Boot4) = c /\ Tail(Boot4) = Boot3
  BY <1>1, <1>4, <1>6, <1>8
<1>11. /\ Boot3 # <<>> /\ Head(Boot3) = d /\ Tail(Boot3) = Boot2
       /\ Boot2 # <<>> /\ Head(Boot2) = e /\ Tail(Boot2) = Boot1
  BY <1>1, <1>4, <1>6, <1>8
<1> QED
  BY <1>7, <1>9, <1>10, <1>11, Zenon DEF a, b, c, d, e, f

-----------------------------------------------------------------------------
(* What the accesses of a stretch can do. *)
Modes == {"floating", "pulled", "output"}

(* The fields of an access.                                                  *)
LEMMA Fields == \A do, at, v : Op(do, at, v).do = do /\ Op(do, at, v).at = at /\ Op(do, at, v).v = v
BY DEF Op

(* An early access writes no pin, waits for no tick, and what it writes to   *)
(* the control register of the USB peripheral keeps it powered down.         *)
LEMMA EarlyFacts ==
  \A o \in EarlyOps :
     /\ o.do \notin {"clear", "reset", "level", "mode", "target", "sleep", "read", "loop"}
     /\ o.do = "cntr" => o.v = {"pdwn"}
<1> SUFFICES ASSUME NEW o \in EarlyOps
             PROVE  /\ o.do \notin {"clear", "reset", "level", "mode", "target", "sleep", "read",
                                    "loop"}
                    /\ o.do = "cntr" => o.v = {"pdwn"}
  OBVIOUS
<1> QED
  BY DEF EarlyOps, Op

(* A late access leaves the tick alone, reads no button and writes pins with *)
(* what they can hold.                                                       *)
LEMMA LateFacts ==
  \A o \in LateOps :
     /\ o.do \notin {"target", "sleep", "read", "zero", "tick"}
     /\ o.do = "mode" => o.at \in Pins /\ o.v \in Modes
     /\ o.do = "level" => o.at \in Pins /\ o.v \in {0, 1}
<1> SUFFICES ASSUME NEW o \in LateOps
             PROVE  /\ o.do \notin {"target", "sleep", "read", "zero", "tick"}
                    /\ o.do = "mode" => o.at \in Pins /\ o.v \in Modes
                    /\ o.do = "level" => o.at \in Pins /\ o.v \in {0, 1}
  OBVIOUS
<1>1. CASE o \in [do : {"mode"}, at : {"PC13", "PA0", "PA8", "PB13"}, v : {"output"}]
  BY <1>1 DEF Pins, Modes
<1>2. CASE o \in [do : {"level"}, at : {"PC13", "PA0", "PA8", "PB13"}, v : {0, 1}]
  BY <1>2 DEF Pins
<1>3. CASE o \in {Op("level", DPlus, 1), Op("mode", DPlus, "floating"), Op("pageSize", "page", 0)}
  BY <1>3 DEF Op, Pins, Modes
<1>4. CASE o \in {Op("enable", "USB", 0), Op("reset", "USB", 0), Op("clear", "USB", {"pdwn"}),
                  Op("clear", "USB", {"fres"}), Op("cntr", "USB", {}),
                  Op("cntr", "USB", {"masks"})}
  BY <1>4, Fields
<1>5. CASE o = Op("loop", "", 0)
  <2>1. o.do = "loop"
    BY <1>5, Fields, Zenon
  <2> QED
    BY <2>1
<1> QED
  BY <1>1, <1>2, <1>3, <1>4, <1>5 DEF LateOps

(* An access of the application touches clocks only.                         *)
LEMMA AppFacts ==
  \A o \in AppOps :
     o.do \notin {"cntr", "clear", "reset", "level", "mode", "target", "sleep", "read", "loop",
                  "zero", "tick", "enable"}
<1> SUFFICES ASSUME NEW o \in AppOps
             PROVE  o.do \notin {"cntr", "clear", "reset", "level", "mode", "target", "sleep",
                                 "read", "loop", "zero", "tick", "enable"}
  OBVIOUS
<1> DEFINE core == InputClock * Multiplier
           code == Factor(Multipliers[Multiplier + 1])
<1>1. CASE o \in {Op("core", "", core), Op("pll", "hse", code), Op("pll", "hsi", code)}
  <2> HIDE DEF core, code
  <2>1. CASE o = Op("core", "", core)
    <3>1. o.do = "core"
      BY <2>1, Fields, Zenon
    <3> QED
      BY <3>1
  <2>2. CASE o = Op("pll", "hse", code) \/ o = Op("pll", "hsi", code)
    BY <2>2, Fields
  <2> QED
    BY <1>1, <2>1, <2>2
<1>2. CASE o \notin {Op("core", "", core), Op("pll", "hse", code), Op("pll", "hsi", code)}
  <2>1. o \in {Op("identify", "vendor", 0), Op("switch", "hsi", 0), Op("switched", "hsi", 0),
               Op("stop", "hse", 0), Op("stop", "pll", 0), Op("start", "hse", 0),
               Op("await", "hse", 0), Op("start", "pll", 0), Op("await", "pll", 0),
               Op("ppre1", "apb1", 2), Op("stmWait", "flash", 0), Op("stmWait", "flash", 1),
               Op("stmWait", "flash", 2), Op("switch", "pll", 0), Op("scale", "usb", 0)}
    BY <1>2 DEF AppOps
  <2> QED
    BY <2>1 DEF Op
<1> QED
  BY <1>1, <1>2

-----------------------------------------------------------------------------
(* The inductive invariant. *)
Types ==
  /\ pin \in [Pins -> [mode : Modes, bit : {0, 1}]]
  /\ sysTick \in Nat /\ tgt \in Nat /\ low \in Nat

(* Stage 1 has the clock of the button's port before it writes to the pin,   *)
(* and both writes before it reads it.                                       *)
Pulled == "PB" \in clocked /\ pin[FORCE_DFU_IO].bit = 1
Booting ==
  /\ "pdwn" \in cntr
  /\ \/ todo = Boot6
     \/ todo \in {Boot5, Boot4, Boot3} /\ "PB" \in clocked
     \/ todo = Boot2 /\ Pulled
     \/ todo = Boot1 /\ Pulled /\ pin[FORCE_DFU_IO].mode = "pulled"

(* Stage 2 powers nothing before D+ has been low for long enough: its port   *)
(* has a clock when the pin is written, and while the delay runs, as many    *)
(* ticks have counted as D+ low as have come since the delay began.          *)
Down == pin[DPlus] = [mode |-> "output", bit |-> 0]
Counted == low > DelayMs \/ low + tgt >= sysTick + DelayMs
Held ==
  \/ Near(todo)
  \/ Follows(Hold3, todo) /\ pin[DPlus].mode = "output"
  \/ Follows(Hold2, todo) /\ Down
  \/ Follows(Hold1, todo) /\ Down /\ Counted
Holding == "pdwn" \in cntr /\ (Ahead(todo) \/ ("PA" \in clocked /\ Held))
Late == low > DelayMs /\ todo \in Seq(LateOps)

(* An application never touches the USB peripheral.                          *)
Application == "pdwn" \in cntr /\ todo \in Seq(AppOps)

BoardInv ==
  /\ Types
  /\ stage \in {"stage1", "stage2", "loop", "app"}
  /\ stage = "stage1" => Booting
  /\ stage = "stage2" => Late \/ Holding
  /\ stage = "loop" => Late
  /\ stage = "app" => Application
  /\ stage # "stage1" => (forced <=> pressed)

-----------------------------------------------------------------------------
(* The steps. *)
LEMMA EarlyStep ==
  ASSUME Types, stage = "stage2", "pdwn" \in cntr, todo # <<>>, Next1 \in EarlyOps, Program
  PROVE  /\ Types' /\ stage' = stage /\ todo' = Tail(todo) /\ "pdwn" \in cntr'
         /\ clocked \subseteq clocked' /\ UNCHANGED verdict
<1>1. /\ Next1.do \notin {"clear", "reset", "level", "mode", "target", "sleep", "read", "loop"}
      /\ Next1.do = "cntr" => Next1.v = {"pdwn"}
  BY EarlyFacts
<1> USE DEF Does, Types, pads, timing, verdict
<1> HIDE DEF Next1
<1>2. CASE ClockOp
  BY <1>2 DEF ClockOp
<1>3. CASE ChipOp
  BY <1>3 DEF ChipOp
<1>4. CASE EnableOp
  BY <1>4 DEF EnableOp
<1>5. CASE PinOp
  BY <1>1, <1>5 DEF PinOp
<1>6. CASE UsbOp
  BY <1>1, <1>6 DEF UsbOp
<1>7. CASE TickOp
  BY <1>1, <1>7 DEF TickOp
<1>8. CASE ReadButton \/ EnterLoop
  BY <1>1, <1>8 DEF ReadButton, EnterLoop
<1>9. CASE Blink
  BY <1>9 DEF Blink
<1> QED
  BY <1>2, <1>3, <1>4, <1>5, <1>6, <1>7, <1>8, <1>9 DEF Program

(* A write to a pin changes that pin, if its port has a clock.               *)
LEMMA PinStep ==
  ASSUME Types, PinOp, Next1.at \in Pins, Next1.do = "mode" => Next1.v \in Modes,
         Next1.do = "level" => Next1.v \in {0, 1}
  PROVE  /\ Types' /\ UNCHANGED <<stage, clocked, cntr, sysTick, tgt, low, verdict>>
         /\ todo' = Tail(todo)
         /\ Port(Next1.at) \in clocked /\ Next1.do = "mode" =>
               pin' = [pin EXCEPT ![Next1.at] = [pin[Next1.at] EXCEPT !.mode = Next1.v]]
         /\ Port(Next1.at) \in clocked /\ Next1.do = "level" =>
               pin' = [pin EXCEPT ![Next1.at] = [pin[Next1.at] EXCEPT !.bit = Next1.v]]
<1> USE DEF Does, timing, verdict
<1> HIDE DEF Next1
<1>1. UNCHANGED <<stage, clocked, cntr, sysTick, tgt, low, verdict>> /\ todo' = Tail(todo)
      /\ Next1.do \in {"mode", "level"}
  BY DEF PinOp
<1>2. CASE Port(Next1.at) \notin clocked
  BY <1>1, <1>2 DEF PinOp, Types
<1>3. CASE Port(Next1.at) \in clocked /\ Next1.do = "mode"
  <2>1. pin' = [pin EXCEPT ![Next1.at].mode = Next1.v]
    BY <1>3 DEF PinOp
  <2>2. pin[Next1.at] \in [mode : Modes, bit : {0, 1}] /\ Next1.v \in Modes
    BY <1>3 DEF Types
  <2> QED
    BY <1>1, <1>3, <2>1, <2>2 DEF Types
<1>4. CASE Port(Next1.at) \in clocked /\ Next1.do = "level"
  <2>1. pin' = [pin EXCEPT ![Next1.at].bit = Next1.v]
    BY <1>4 DEF PinOp
  <2>2. pin[Next1.at] \in [mode : Modes, bit : {0, 1}] /\ Next1.v \in {0, 1}
    BY <1>4 DEF Types
  <2> QED
    BY <1>1, <1>4, <2>1, <2>2 DEF Types
<1> QED
  BY <1>1, <1>2, <1>3, <1>4

(* After the delay, stage 2 and the loop stay Late.                          *)
LEMMA LateStep ==
  ASSUME Types, stage \in {"stage2", "loop"}, Late, todo # <<>>, Program
  PROVE  Types' /\ stage' \in {"stage2", "loop"} /\ Late' /\ UNCHANGED verdict
<1>1. Next1 \in LateOps /\ Tail(todo) \in Seq(LateOps)
  BY HeadTailProperties DEF Next1, Late
<1>2. /\ Next1.do \notin {"target", "sleep", "read", "zero", "tick"}
      /\ Next1.do = "mode" => Next1.at \in Pins /\ Next1.v \in Modes
      /\ Next1.do = "level" => Next1.at \in Pins /\ Next1.v \in {0, 1}
  BY <1>1, LateFacts
<1>3. low > DelayMs
  BY DEF Late
<1> USE DEF Does, pads, timing, verdict
<1> HIDE DEF Next1, LateOps
<1>4. CASE ClockOp
  BY <1>1, <1>3, <1>4 DEF ClockOp, Late, Types
<1>5. CASE ChipOp
  BY <1>1, <1>3, <1>5 DEF ChipOp, Late, Types
<1>6. CASE EnableOp
  BY <1>1, <1>3, <1>6 DEF EnableOp, Late, Types
<1>7. CASE PinOp
  <2>1. Next1.do \in {"mode", "level"}
    BY <1>7 DEF PinOp
  <2>2. Types' /\ UNCHANGED <<stage, low, verdict>> /\ todo' = Tail(todo)
    BY <1>2, <1>7, <2>1, PinStep
  <2> QED
    BY <1>1, <1>3, <2>2 DEF Late
<1>8. CASE UsbOp
  BY <1>1, <1>3, <1>8 DEF UsbOp, Late, Types
<1>9. CASE TickOp \/ ReadButton
  BY <1>2, <1>9 DEF TickOp, ReadButton
<1>10. CASE EnterLoop
  <2>1. <<>> \in Seq(LateOps)
    BY EmptySeq
  <2> QED
    BY <1>3, <1>10, <2>1 DEF EnterLoop, Late, Types
<1>11. CASE Blink
  BY <1>11 DEF Blink
<1> QED
  BY <1>4, <1>5, <1>6, <1>7, <1>8, <1>9, <1>10, <1>11 DEF Program

(* An application stays one.                                                 *)
LEMMA AppStep ==
  ASSUME Types, stage = "app", Application, Program
  PROVE  Types' /\ stage' = "app" /\ Application' /\ UNCHANGED verdict
<1>1. todo # <<>> => Next1 \in AppOps /\ Tail(todo) \in Seq(AppOps)
  BY HeadTailProperties DEF Next1, Application
<1>2. todo # <<>> =>
        Next1.do \notin {"cntr", "clear", "reset", "level", "mode", "target", "sleep", "read",
                         "loop", "zero", "tick", "enable"}
  BY <1>1, AppFacts
<1>3. UNCHANGED build => UNCHANGED AppOps
  BY DEF AppOps, InputClock, Multiplier
<1>4. Program => UNCHANGED build
  BY DEF Program, ClockOp, ChipOp, EnableOp, PinOp, UsbOp, TickOp, ReadButton, EnterLoop, Blink
<1>5. UNCHANGED AppOps
  BY <1>3, <1>4
<1>6. "pdwn" \in cntr
  BY DEF Application
<1> USE DEF Does, pads, timing, verdict
<1> HIDE DEF Next1, AppOps
<1>7. CASE ClockOp
  <2>1. todo # <<>> /\ todo' = Tail(todo) /\ UNCHANGED <<stage, cntr, verdict>> /\ Types'
    BY <1>7 DEF ClockOp, Types
  <2> QED
    BY <1>1, <1>5, <1>6, <2>1 DEF Application
<1>8. CASE ChipOp
  <2>1. todo # <<>> /\ todo' = Tail(todo) /\ UNCHANGED <<stage, cntr, verdict>> /\ Types'
    BY <1>8 DEF ChipOp, Types
  <2> QED
    BY <1>1, <1>5, <1>6, <2>1 DEF Application
<1>9. CASE EnableOp \/ PinOp \/ UsbOp \/ TickOp \/ ReadButton \/ EnterLoop
  BY <1>2, <1>9 DEF EnableOp, PinOp, UsbOp, TickOp, ReadButton, EnterLoop
<1>10. CASE Blink
  BY <1>10 DEF Blink
<1> QED
  BY <1>7, <1>8, <1>9, <1>10 DEF Program

(* One access of stage 1. *)
LEMMA BootStep ==
  ASSUME Types, stage = "stage1", Booting, Program
  PROVE  \/ Types' /\ stage' = "stage1" /\ Booting'
         \/ /\ Types' /\ UNCHANGED <<clocked, cntr>> /\ (forced' <=> pressed')
            /\ \/ stage' = "stage2" /\ Holding'
               \/ stage' = "app" /\ Application'
<1> USE DEF Does, pads, timing, verdict, clock
<1>1. todo # <<>>
  BY BootLists DEF Booting
<1>2. ~Blink
  BY DEF Blink
<1>3. CASE todo = Boot6
  <2>1. Next1 = Op("enable", "PB", 0) /\ Tail(todo) = Boot5
    BY <1>3, BootLists DEF Next1
  <2>2. Next1.do = "enable" /\ Next1.at = "PB"
    BY <2>1, Fields
  <2> HIDE DEF Next1
  <2>3. EnableOp
    BY <1>2, <2>2 DEF Program, ClockOp, ChipOp, PinOp, UsbOp, TickOp, ReadButton, EnterLoop
  <2> QED
    BY <2>1, <2>2, <2>3 DEF EnableOp, Booting, Types
<1>4. CASE todo \in {Boot5, Boot4} /\ "PB" \in clocked
  <2>1. /\ Next1 = Op("enable", "PC", 0) \/ Next1 = Op("enable", "AF", 0)
        /\ Tail(todo) \in {Boot4, Boot3}
    BY <1>4, BootLists DEF Next1
  <2>2. Next1.do = "enable"
    BY <2>1, Fields
  <2> HIDE DEF Next1
  <2>3. EnableOp
    BY <1>2, <2>2 DEF Program, ClockOp, ChipOp, PinOp, UsbOp, TickOp, ReadButton, EnterLoop
  <2> QED
    BY <1>4, <2>1, <2>3 DEF EnableOp, Booting, Types
<1>5. CASE todo = Boot3 /\ "PB" \in clocked
  <2>1. Next1 = Op("level", FORCE_DFU_IO, 1) /\ Tail(todo) = Boot2
    BY <1>5, BootLists DEF Next1
  <2>2. Next1.do = "level" /\ Next1.at = FORCE_DFU_IO /\ Next1.v = 1
    BY <2>1, Fields
  <2> HIDE DEF Next1
  <2>3. PinOp
    BY <1>2, <2>2 DEF Program, ClockOp, ChipOp, EnableOp, UsbOp, TickOp, ReadButton, EnterLoop
  <2>4. FORCE_DFU_IO \in Pins /\ Port(FORCE_DFU_IO) = "PB"
    BY DEF FORCE_DFU_IO, Pins, Port
  <2>5. /\ Types' /\ UNCHANGED <<stage, clocked, cntr, sysTick, tgt, low, verdict>>
        /\ todo' = Tail(todo)
        /\ pin' = [pin EXCEPT ![FORCE_DFU_IO] = [pin[FORCE_DFU_IO] EXCEPT !.bit = 1]]
    BY <1>5, <2>2, <2>3, <2>4, PinStep
  <2>6. pin'[FORCE_DFU_IO].bit = 1
    BY <2>4, <2>5 DEF Types
  <2> QED
    BY <1>5, <2>1, <2>5, <2>6 DEF Booting, Pulled
<1>6. CASE todo = Boot2 /\ Pulled
  <2>1. Next1 = Op("mode", FORCE_DFU_IO, "pulled") /\ Tail(todo) = Boot1
    BY <1>6, BootLists DEF Next1
  <2>2. Next1.do = "mode" /\ Next1.at = FORCE_DFU_IO /\ Next1.v = "pulled" /\ Next1.v \in Modes
    BY <2>1, Fields DEF Modes
  <2> HIDE DEF Next1
  <2>3. PinOp
    BY <1>2, <2>2 DEF Program, ClockOp, ChipOp, EnableOp, UsbOp, TickOp, ReadButton, EnterLoop
  <2>4. FORCE_DFU_IO \in Pins /\ Port(FORCE_DFU_IO) = "PB"
    BY DEF FORCE_DFU_IO, Pins, Port
  <2>5. /\ Types' /\ UNCHANGED <<stage, clocked, cntr, sysTick, tgt, low, verdict>>
        /\ todo' = Tail(todo)
        /\ pin' = [pin EXCEPT ![FORCE_DFU_IO] = [pin[FORCE_DFU_IO] EXCEPT !.mode = "pulled"]]
    BY <1>6, <2>2, <2>3, <2>4, PinStep DEF Pulled
  <2>6. pin'[FORCE_DFU_IO].bit = 1 /\ pin'[FORCE_DFU_IO].mode = "pulled"
    BY <1>6, <2>4, <2>5 DEF Types, Pulled
  <2> QED
    BY <1>6, <2>1, <2>5, <2>6 DEF Booting, Pulled
<1>7. CASE todo = Boot1 /\ Pulled /\ pin[FORCE_DFU_IO].mode = "pulled"
  <2>1. Next1 = Op("read", FORCE_DFU_IO, 0)
    BY <1>7, BootLists DEF Next1
  <2>2. Next1.do = "read" /\ Next1.at = FORCE_DFU_IO
    BY <2>1, Fields
  <2> HIDE DEF Next1
  <2>3. ReadButton
    BY <1>2, <2>2 DEF Program, ClockOp, ChipOp, EnableOp, PinOp, UsbOp, TickOp, EnterLoop
  <2>4. Port(FORCE_DFU_IO) = "PB"
    BY DEF FORCE_DFU_IO, Port
  <2>5. Levels(FORCE_DFU_IO) = IF button THEN {0} ELSE {1}
    BY <1>7, <2>4 DEF Levels, Pulled
  <2>6. pressed' = button /\ \E level \in Levels(FORCE_DFU_IO) : forced' = (level = 0)
    BY <2>2, <2>3 DEF ReadButton
  <2>7. forced' <=> pressed'
    <3>1. PICK level \in Levels(FORCE_DFU_IO) : forced' = (level = 0)
      BY <2>6
    <3>2. (level = 0) <=> button
      BY <2>5
    <3>3. forced' <=> (level = 0)
      BY <3>1
    <3>4. pressed' <=> button
      BY <2>6
    <3> QED
      BY <3>2, <3>3, <3>4, Zenon
  <2>8. Types' /\ UNCHANGED <<build, clocked, cntr>>
    BY <2>3 DEF ReadButton, Types
  <2>9. CASE stage' = "stage2" /\ todo' = Stage2Entry
    <3>1. Holding'
      BY <2>8, <2>9, EntryList DEF Holding, Booting
    <3> QED
      BY <2>7, <2>8, <2>9, <3>1
  <2>10. CASE /\ stage' = "app"
              /\ todo' = InitSystemClock \o (IF build.external THEN EnableUsb48Mhz ELSE <<>>)
    <3>1. UNCHANGED AppOps
      BY <2>8 DEF AppOps, InputClock, Multiplier
    <3>2. Application'
      BY <2>8, <2>10, <3>1, AppList DEF Application, Booting
    <3> QED
      BY <2>7, <2>8, <2>10, <3>2
  <2> QED
    BY <2>3, <2>9, <2>10 DEF ReadButton
<1> QED
  BY <1>3, <1>4, <1>5, <1>6, <1>7 DEF Booting

(* The accesses that give D+'s port its clock and hold the pin.              *)
LEMMA HoldFacts ==
  /\ PortA.do = "enable" /\ PortA.at = "PA"
  /\ Pull.do = "mode" /\ Pull.at = DPlus /\ Pull.v = "output"
  /\ Low.do = "level" /\ Low.at = DPlus /\ Low.v = 0
  /\ Target.do = "target" /\ Target.v = DelayMs
  /\ Sleep.do = "sleep"
  /\ DPlus \in Pins /\ Port(DPlus) = "PA"
<1>1. DPlus \in Pins /\ Port(DPlus) = "PA"
  BY DEF DPlus, Pins, Port
<1> QED
  BY <1>1, Fields DEF PortA, Pull, Low, Target, Sleep

(* Stage 2 stays Holding until the delay is over: what was counted since it  *)
(* began is then more than DelayMs (stubs.cpp:26-35).                        *)
LEMMA HoldStep ==
  ASSUME Types, stage = "stage2", Holding, Program
  PROVE  Types' /\ stage' = "stage2" /\ (Late' \/ Holding') /\ UNCHANGED verdict
<1>1. ~Blink /\ "pdwn" \in cntr
  BY DEF Blink, Holding
<1> USE DEF Does, pads, timing, verdict
<1>2. CASE Ahead(todo)
  <2>1. todo # <<>>
    BY <1>2, AheadFront
  <2>2. CASE Next1 \in EarlyOps /\ Ahead(Tail(todo))
    BY <1>1, <2>1, <2>2, EarlyStep DEF Holding
  <2>3. CASE Next1 = PortA /\ Near(Tail(todo))
    <3>1. Next1.do = "enable" /\ Next1.at = "PA"
      BY <2>3, HoldFacts
    <3> HIDE DEF Next1
    <3>2. EnableOp
      BY <1>1, <3>1 DEF Program, ClockOp, ChipOp, PinOp, UsbOp, TickOp, ReadButton, EnterLoop
    <3>3. /\ Types' /\ UNCHANGED <<stage, cntr, verdict>> /\ "PA" \in clocked'
          /\ todo' = Tail(todo)
      BY <3>1, <3>2 DEF EnableOp, Types
    <3> QED
      BY <1>1, <2>3, <3>3 DEF Holding, Held
  <2> QED
    BY <1>2, <2>2, <2>3, AheadFront DEF Next1
<1>3. CASE "PA" \in clocked /\ Near(todo)
  <2>1. todo # <<>>
    BY <1>3, NearFront
  <2>2. CASE Next1 \in EarlyOps /\ Near(Tail(todo))
    BY <1>1, <1>3, <2>1, <2>2, EarlyStep DEF Holding, Held
  <2>3. CASE Next1 = Pull /\ Follows(Hold3, Tail(todo))
    <3>1. Next1.do = "mode" /\ Next1.at = DPlus /\ Next1.v = "output" /\ Next1.v \in Modes
      BY <2>3, HoldFacts DEF Modes
    <3> HIDE DEF Next1
    <3>2. PinOp
      BY <1>1, <3>1 DEF Program, ClockOp, ChipOp, EnableOp, UsbOp, TickOp, ReadButton, EnterLoop
    <3>3. /\ Types' /\ UNCHANGED <<stage, clocked, cntr, verdict>> /\ todo' = Tail(todo)
          /\ pin' = [pin EXCEPT ![DPlus] = [pin[DPlus] EXCEPT !.mode = "output"]]
      BY <1>3, <3>1, <3>2, HoldFacts, PinStep
    <3>4. pin'[DPlus].mode = "output"
      BY <3>3, HoldFacts DEF Types
    <3> QED
      BY <1>1, <1>3, <2>3, <3>3, <3>4 DEF Holding, Held
  <2> QED
    BY <1>3, <2>2, <2>3, NearFront DEF Next1
<1>4. CASE "PA" \in clocked /\ Follows(Hold3, todo) /\ pin[DPlus].mode = "output"
  <2>1. Next1 = Low /\ Follows(Hold2, Tail(todo))
    BY <1>4, HoldFront DEF Next1
  <2>2. Next1.do = "level" /\ Next1.at = DPlus /\ Next1.v = 0
    BY <2>1, HoldFacts
  <2> HIDE DEF Next1
  <2>3. PinOp
    BY <1>1, <2>2 DEF Program, ClockOp, ChipOp, EnableOp, UsbOp, TickOp, ReadButton, EnterLoop
  <2>4. /\ Types' /\ UNCHANGED <<stage, clocked, cntr, verdict>> /\ todo' = Tail(todo)
        /\ pin' = [pin EXCEPT ![DPlus] = [pin[DPlus] EXCEPT !.bit = 0]]
    BY <1>4, <2>2, <2>3, HoldFacts, PinStep
  <2>5. Down'
    BY <1>4, <2>4, HoldFacts DEF Types, Down
  <2> QED
    BY <1>1, <1>4, <2>1, <2>4, <2>5 DEF Holding, Held
<1>5. CASE "PA" \in clocked /\ Follows(Hold2, todo) /\ Down
  <2>1. Next1 = Target /\ Follows(Hold1, Tail(todo))
    BY <1>5, HoldFront DEF Next1
  <2>2. Next1.do = "target" /\ Next1.v = DelayMs
    BY <2>1, HoldFacts
  <2> HIDE DEF Next1
  <2>3. TickOp
    BY <1>1, <2>2 DEF Program, ClockOp, ChipOp, EnableOp, PinOp, UsbOp, ReadButton, EnterLoop
  <2>4. /\ UNCHANGED <<stage, clocked, cntr, pin, low, sysTick, verdict>> /\ todo' = Tail(todo)
        /\ tgt' = sysTick + DelayMs
    BY <2>2, <2>3 DEF TickOp
  <2>5. Types' /\ Counted' /\ Down'
    BY <1>5, <2>4, BoardAssumption DEF Types, Counted, Down
  <2> QED
    BY <1>1, <1>5, <2>1, <2>4, <2>5 DEF Holding, Held
<1>6. CASE "PA" \in clocked /\ Follows(Hold1, todo) /\ Down /\ Counted
  <2>1. Next1 = Sleep /\ Tail(todo) \in Seq(LateOps)
    BY <1>6, HoldFront DEF Next1
  <2>2. Next1.do = "sleep"
    BY <2>1, HoldFacts
  <2> HIDE DEF Next1
  <2>3. TickOp
    BY <1>1, <2>2 DEF Program, ClockOp, ChipOp, EnableOp, PinOp, UsbOp, ReadButton, EnterLoop
  <2>4. /\ UNCHANGED <<stage, clocked, cntr, pin, low, sysTick, tgt, verdict>>
        /\ todo' = Tail(todo) /\ sysTick > tgt
    BY <2>2, <2>3 DEF TickOp, Elapsed
  <2>5. low > DelayMs
    BY <1>6, <2>4, BoardAssumption DEF Types, Counted
  <2> QED
    BY <2>1, <2>4, <2>5 DEF Late, Types
<1> QED
  BY <1>2, <1>3, <1>4, <1>5, <1>6 DEF Holding, Held

(* Every access of the program. *)
LEMMA ProgramStep == BoardInv /\ Program => BoardInv'
<1> SUFFICES ASSUME BoardInv, Program PROVE BoardInv'
  OBVIOUS
<1>1. CASE stage = "stage1"
  BY <1>1, BootStep DEF BoardInv
<1>2. CASE stage = "stage2" /\ Holding
  BY <1>2, HoldStep DEF BoardInv, verdict
<1>3. CASE stage \in {"stage2", "loop"} /\ Late
  <2>1. CASE todo # <<>>
    BY <1>3, <2>1, LateStep DEF BoardInv, verdict
  <2>2. CASE todo = <<>>
    <3>1. Blink
      BY <2>2 DEF Program, ClockOp, ChipOp, EnableOp, PinOp, UsbOp, TickOp, ReadButton, EnterLoop,
                  Does
    <3>2. todo' \in Seq(LateOps)
      BY <3>1, BlinkList DEF Blink
    <3>3. UNCHANGED <<stage, pin, cntr, sysTick, tgt, low, verdict>> /\ stage = "loop"
      BY <3>1 DEF Blink, pads
    <3> QED
      BY <1>3, <3>2, <3>3 DEF BoardInv, Late, Types, verdict
  <2> QED
    BY <2>1, <2>2
<1>4. CASE stage = "app"
  BY <1>4, AppStep DEF BoardInv, verdict
<1> QED
  BY <1>1, <1>2, <1>3, <1>4 DEF BoardInv

(* The tick: it counts D+ low, since the pin is driven low and the USB       *)
(* peripheral has no power.                                                  *)
LEMMA TickStep == BoardInv /\ Tick => BoardInv'
<1> SUFFICES ASSUME BoardInv, Tick PROVE BoardInv'
  OBVIOUS
<1>1. /\ UNCHANGED <<build, stage, todo, clocked, pin, cntr, tgt, verdict>>
      /\ sysTick' = sysTick + 1
      /\ low' = IF DPlusLow /\ low <= DelayMs THEN low + 1 ELSE low
  BY DEF Tick, pads
<1>2. Types /\ DelayMs \in Nat
  BY BoardAssumption DEF BoardInv
<1>3. Types' /\ (low > DelayMs => low' > DelayMs)
  BY <1>1, <1>2 DEF Types
<1>4. Down /\ "pdwn" \in cntr => DPlusLow
  BY DEF DPlusLow, UsbDrives, Down
<1>5. Down /\ "pdwn" \in cntr /\ Counted => Counted'
  BY <1>1, <1>2, <1>4 DEF Types, Counted
<1>6. Late => Late'
  BY <1>1, <1>3 DEF Late
<1>7. Held /\ "pdwn" \in cntr => Held'
  BY <1>1, <1>5 DEF Held, Down
<1>8. Holding => Holding'
  BY <1>1, <1>7 DEF Holding
<1>9. Booting => Booting'
  BY <1>1 DEF Booting, Pulled
<1>10. Application => Application'
  BY <1>1 DEF Application, AppOps, InputClock, Multiplier
<1> QED
  BY <1>1, <1>3, <1>6, <1>8, <1>9, <1>10 DEF BoardInv, verdict

(* The other steps of the hardware and of the user touch nothing of this.    *)
LEMMA Still ==
  ASSUME BoardInv,
         UNCHANGED <<build, stage, todo, clocked, pin, cntr, sysTick, tgt, low, forced, pressed>>
  PROVE  BoardInv'
<1>1. (Holding => Holding') /\ (Late => Late')
  BY DEF Holding, Held, Down, Counted, Late
<1>2. (Booting => Booting') /\ (Application => Application')
  BY DEF Booting, Pulled, Application, AppOps, InputClock, Multiplier
<1> QED
  BY <1>1, <1>2 DEF BoardInv, Types

(* The pins after a reset.                                                   *)
LEMMA Fresh ==
  /\ [p \in Pins |-> [mode |-> "floating", bit |-> 0]] \in [Pins -> [mode : Modes, bit : {0, 1}]]
BY DEF Modes

(* A board that is switched on satisfies the invariant.                      *)
LEMMA BoardStart == Init => BoardInv
BY Fresh, BootLists DEF Init, BoardInv, Types, Booting

(* So does one that is reset.                                                *)
LEMMA ResetStep == Reset => BoardInv'
<1>1. StageOne' = Boot6
  BY BootLists DEF StageOne, Enable, PinMode, Op, FORCE_DFU_IO
<1> QED
  BY <1>1, Fresh, BootLists DEF Reset, BoardInv, Types, Booting

(* Every step preserves it.                                                  *)
LEMMA BoardStep == BoardInv /\ [Next]_vars => BoardInv'
<1> SUFFICES ASSUME BoardInv, [Next]_vars PROVE BoardInv'
  OBVIOUS
<1>1. CASE Program
  BY <1>1, ProgramStep
<1>2. CASE Tick
  BY <1>2, TickStep
<1>3. CASE Reset
  BY <1>3, ResetStep
<1>4. CASE Stable \/ Switched \/ Press \/ UNCHANGED vars
  BY <1>4, Still DEF Stable, Switched, Press, vars, pads, timing, verdict
<1> QED
  BY <1>1, <1>2, <1>3, <1>4 DEF Next

(* The conjunction is an invariant of both stages and of the loop.           *)
THEOREM BoardInvariance == Spec => []BoardInv
<1>1. Init => BoardInv
  BY BoardStart
<1>2. BoardInv /\ [Next]_vars => BoardInv'
  BY BoardStep
<1> QED
  BY <1>1, <1>2, PTL DEF Spec

(* Whatever the delay, the build and the moments at which the ticks come: D+ *)
(* has been low for more than DelayMs ticks when the transceiver is powered  *)
(* (dfu.cpp:465-493, stubs.cpp:26-35).                                       *)
THEOREM DisconnectIsSeen == Spec => []HostSeesDisconnect
<1>1. BoardInv => HostSeesDisconnect
  BY DEF BoardInv, HostSeesDisconnect, UsbDrives, Booting, Holding, Late, Application
<1> QED
  BY <1>1, BoardInvariance, PTL

(* Stage 1 takes the button as pressed exactly if it is, after any number of *)
(* resets (main.cpp:124-136).                                                *)
THEOREM ButtonIsObeyed == Spec => []ButtonObeyed
<1>1. BoardInv => ButtonObeyed
  BY DEF BoardInv, ButtonObeyed
<1> QED
  BY <1>1, BoardInvariance, PTL

-----------------------------------------------------------------------------
(* Types: how long a program can be, and the order of an application's       *)
(* accesses, since the prescaler of USB is computed from the frequency.      *)

(* A list over a set, no longer than a bound.                                *)
Within(S, list, n) == list \in Seq(S) /\ Len(list) <= n

(* Lists put together are as long as both.                                   *)
LEMMA WithinGrows ==
  ASSUME NEW S, NEW s, NEW t, NEW m \in Nat, NEW n \in Nat, Within(S, s, m), Within(S, t, n)
  PROVE  Within(S, s \o t, m + n)
<1>1. s \o t \in Seq(S) /\ Len(s \o t) = Len(s) + Len(t) /\ Len(s) \in Nat /\ Len(t) \in Nat
  BY ConcatProperties, LenProperties DEF Within
<1> QED
  BY <1>1 DEF Within

(* Short lists of accesses.                                                  *)
LEMMA WithinSmall ==
  ASSUME NEW S
  PROVE  /\ Within(S, <<>>, 0)
         /\ \A a \in S : Within(S, <<a>>, 1)
         /\ \A a, b \in S : Within(S, <<a, b>>, 2)
         /\ \A a, b, c \in S : Within(S, <<a, b, c>>, 3)
         /\ \A a, b, c, d \in S : Within(S, <<a, b, c, d>>, 4)
<1>1. Within(S, <<>>, 0)
  BY EmptySeq DEF Within
<1>2. \A a \in S : Within(S, <<a>>, 1)
  BY DEF Within
<1>3. \A a, b \in S : Within(S, <<a, b>>, 2)
  BY DEF Within
<1>4. \A a, b, c \in S : Within(S, <<a, b, c>>, 3)
  BY DEF Within
<1>5. \A a, b, c, d \in S : Within(S, <<a, b, c, d>>, 4)
  BY DEF Within
<1> QED
  BY <1>1, <1>2, <1>3, <1>4, <1>5

(* A longer bound bounds as well, and so does a larger set.                  *)
LEMMA WithinMore ==
  ASSUME NEW S, NEW T, S \subseteq T, NEW s, NEW m \in Nat, NEW n \in Nat, m <= n, Within(S, s, m)
  PROVE  Within(T, s, n)
<1>1. s \in Seq(T) /\ Len(s) \in Nat
  BY SeqMonotonic, LenProperties DEF Within
<1> QED
  BY <1>1 DEF Within

(* Stage 2 has at most forty accesses.                                       *)
LEMMA EntryLength == Len(Stage2Entry) <= 50
<1> DEFINE S == StageTwoOps
           ledPin == IF build.crystal THEN "PC13" ELSE "PA0"
           C == IF build.crystal THEN ClockFromCrystal ELSE ClockFromRc
<1>1. EarlyOps \subseteq S /\ LateOps \subseteq S /\ PortA \in S /\ HoldOps \subseteq S
  BY DEF StageTwoOps
<1> DEFINE T0 == TickControl(FALSE)
           T1 == TickControl(TRUE)
<1>2. /\ Within(EarlyOps, Identify, 1) /\ Within(EarlyOps, <<Op("isGd32", "gd32", 0)>>, 1)
      /\ Within(EarlyOps, Enable("PB"), 1) /\ Within(EarlyOps, Enable("PC"), 1)
      /\ Within(EarlyOps, Enable("AF"), 1) /\ Within(EarlyOps, Enable("USB"), 1)
      /\ Within(EarlyOps, <<Op("zero", "tick", 0)>>, 1)
      /\ Within(EarlyOps, T0, 1) /\ Within(EarlyOps, T1, 1)
      /\ Within(EarlyOps, <<Op("cntr", "USB", {"pdwn"})>>, 1)
  <2>1. /\ Op("identify", "vendor", 0) \in EarlyOps /\ Op("isGd32", "gd32", 0) \in EarlyOps
        /\ Op("enable", "PB", 0) \in EarlyOps /\ Op("enable", "PC", 0) \in EarlyOps
        /\ Op("enable", "AF", 0) \in EarlyOps /\ Op("enable", "USB", 0) \in EarlyOps
        /\ Op("zero", "tick", 0) \in EarlyOps /\ Op("tick", "tick", FALSE) \in EarlyOps
        /\ Op("tick", "tick", TRUE) \in EarlyOps /\ Op("cntr", "USB", {"pdwn"}) \in EarlyOps
    BY DEF EarlyOps
  <2>2. \A a \in EarlyOps : Within(EarlyOps, <<a>>, 1)
    BY WithinSmall
  <2> QED
    BY <2>1, <2>2, Zenon DEF Identify, Enable, TickControl
<1>3. /\ Within(EarlyOps, Start("hse"), 2) /\ Within(EarlyOps, Start("pll"), 2)
      /\ Within(EarlyOps, Start("irc48"), 2)
      /\ Within(EarlyOps, Cfg0Word("hse"), 3) /\ Within(EarlyOps, Cfg0Word("hsi"), 3)
      /\ Within(EarlyOps, <<WaitStates(2)>>, 1) /\ Within(EarlyOps, <<Switch("pll")>>, 1)
      /\ Within(EarlyOps, <<Op("usbsel", "irc48", 0)>>, 1)
  <2>1. /\ Op("start", "hse", 0) \in EarlyOps /\ Op("await", "hse", 0) \in EarlyOps
        /\ Op("start", "pll", 0) \in EarlyOps /\ Op("await", "pll", 0) \in EarlyOps
        /\ Op("start", "irc48", 0) \in EarlyOps /\ Op("await", "irc48", 0) \in EarlyOps
        /\ Op("pll", "hse", 9) \in EarlyOps /\ Op("pll", "hsi", 9) \in EarlyOps
        /\ Op("psc", "usb", 0) \in EarlyOps /\ Op("ppre1", "apb1", 2) \in EarlyOps
        /\ Op("wait", "flash", 2) \in EarlyOps /\ Op("switch", "pll", 0) \in EarlyOps
        /\ Op("usbsel", "irc48", 0) \in EarlyOps
    BY DEF EarlyOps
  <2>2. /\ \A a \in EarlyOps : Within(EarlyOps, <<a>>, 1)
        /\ \A a, b \in EarlyOps : Within(EarlyOps, <<a, b>>, 2)
        /\ \A a, b, c \in EarlyOps : Within(EarlyOps, <<a, b, c>>, 3)
    BY WithinSmall
  <2> QED
    BY <2>1, <2>2, Zenon DEF Start, Cfg0Word, Pll, WaitStates, Switch
<1> HIDE DEF EarlyOps, T0, T1
<1>4. Within(EarlyOps, C, 12)
  <2>1. Within(EarlyOps, ClockFromCrystal, 9)
    <3>1. Within(EarlyOps, Start("hse") \o Cfg0Word("hse"), 5)
      BY <1>3, WithinGrows
    <3>2. Within(EarlyOps, Start("hse") \o Cfg0Word("hse") \o <<WaitStates(2)>>, 6)
      BY <1>3, <3>1, WithinGrows
    <3>3. Within(EarlyOps, Start("hse") \o Cfg0Word("hse") \o <<WaitStates(2)>> \o Start("pll"), 8)
      BY <1>3, <3>2, WithinGrows
    <3> QED
      BY <1>3, <3>3, WithinGrows DEF ClockFromCrystal
  <2>2. Within(EarlyOps, ClockFromRc, 10)
    <3>1. Within(EarlyOps, Cfg0Word("hsi") \o <<WaitStates(2)>>, 4)
      BY <1>3, WithinGrows
    <3>2. Within(EarlyOps, Cfg0Word("hsi") \o <<WaitStates(2)>> \o Start("pll"), 6)
      BY <1>3, <3>1, WithinGrows
    <3>3. Within(EarlyOps, Cfg0Word("hsi") \o <<WaitStates(2)>> \o Start("pll")
                             \o <<Switch("pll")>>, 7)
      BY <1>3, <3>2, WithinGrows
    <3>4. Within(EarlyOps, Cfg0Word("hsi") \o <<WaitStates(2)>> \o Start("pll")
                             \o <<Switch("pll")>> \o Start("irc48"), 9)
      BY <1>3, <3>3, WithinGrows
    <3> QED
      BY <1>3, <3>4, WithinGrows DEF ClockFromRc
  <2> QED
    BY <2>1, <2>2, WithinMore
<1> HIDE DEF C
<1>5. Within(S, Identify \o SetupForUsb, 23)
  <2> DEFINE A0 == <<Op("isGd32", "gd32", 0)>> \o C
             A1 == A0 \o Enable("PA")
             A2 == A1 \o Enable("PB")
             A3 == A2 \o Enable("PC")
             A4 == A3 \o Enable("AF")
             A5 == A4 \o <<Op("zero", "tick", 0)>>
             A6 == A5 \o T0
             A7 == A6 \o T1
             A8 == A7 \o Enable("USB")
             A9 == A8 \o <<Op("cntr", "USB", {"pdwn"})>>
  <2>1. SetupForUsb = A9
    BY DEF SetupForUsb, C, T0, T1
  <2>2. \A l, n : n \in Nat /\ Within(EarlyOps, l, n) => Within(S, l, n)
    BY <1>1, WithinMore
  <2>3. Within(S, Enable("PA"), 1)
    BY <1>1, WithinSmall DEF Enable, PortA
  <2> HIDE DEF S
  <2>4. Within(EarlyOps, A0, 13)
    BY <1>2, <1>4, WithinGrows
  <2>5. Within(S, A0, 13)
    BY <2>2, <2>4
  <2> HIDE DEF A0
  <2>6. Within(S, A1, 14)
    BY <2>3, <2>5, WithinGrows
  <2> HIDE DEF A1
  <2>7. Within(S, A2, 15)
    BY <1>2, <2>2, <2>6, WithinGrows
  <2> HIDE DEF A2
  <2>8. Within(S, A3, 16)
    BY <1>2, <2>2, <2>7, WithinGrows
  <2> HIDE DEF A3
  <2>9. Within(S, A4, 17)
    BY <1>2, <2>2, <2>8, WithinGrows
  <2> HIDE DEF A4
  <2>10. Within(S, A5, 18)
    BY <1>2, <2>2, <2>9, WithinGrows
  <2> HIDE DEF A5
  <2>11. Within(S, A6, 19)
    BY <1>2, <2>2, <2>10, WithinGrows
  <2> HIDE DEF A6
  <2>12. Within(S, A7, 20)
    BY <1>2, <2>2, <2>11, WithinGrows
  <2> HIDE DEF A7
  <2>13. Within(S, A8, 21)
    BY <1>2, <2>2, <2>12, WithinGrows
  <2> HIDE DEF A8
  <2>14. Within(S, A9, 22)
    BY <1>2, <2>2, <2>13, WithinGrows
  <2>15. Within(S, Identify, 1)
    BY <1>2, <2>2
  <2> QED
    BY <2>1, <2>14, <2>15, WithinGrows
<1>6. Within(S, RunDfu, 17)
  <2> DEFINE Enter == <<Op("loop", "", 0)>>
  <2>1. /\ Within(LateOps, DigitalWrite(DPlus, 1), 1)
        /\ Within(LateOps, PinMode(DPlus, "floating"), 1)
        /\ Within(LateOps, <<Op("pageSize", "page", 0)>>, 1)
        /\ Within(LateOps, Enter, 1)
        /\ Within(LateOps, PinMode(ledPin, "output"), 1)
        /\ Within(LateOps, PinMode("PA8", "output"), 1)
        /\ Within(LateOps, PinMode("PB13", "output"), 1)
    <3>1. ledPin \in {"PC13", "PA0", "PA8", "PB13"}
      OBVIOUS
    <3> HIDE DEF ledPin
    <3>2. /\ DigitalWrite(DPlus, 1) \in Seq(LateOps) /\ PinMode(DPlus, "floating") \in Seq(LateOps)
          /\ <<Op("pageSize", "page", 0)>> \in Seq(LateOps) /\ Enter \in Seq(LateOps)
          /\ PinMode(ledPin, "output") \in Seq(LateOps) /\ PinMode("PA8", "output") \in Seq(LateOps)
          /\ PinMode("PB13", "output") \in Seq(LateOps)
      BY <3>1, LateLists, LatePins
    <3>3. \A o : Len(<<o>>) = 1
      OBVIOUS
    <3>e. Len(Enter) = 1
      BY <3>3, Zenon
    <3> HIDE DEF Enter
    <3>4. \A p : Len(DigitalWrite(p, 1)) = 1 /\ Len(PinMode(p, "output")) = 1
                 /\ Len(PinMode(p, "floating")) = 1
      BY <3>3 DEF DigitalWrite, PinMode
    <3>5. \A l \in Seq(LateOps) : Len(l) = 1 => Within(LateOps, l, 1)
      BY DEF Within
    <3> QED
      BY <3>2, <3>3, <3>4, <3>5, <3>e, Zenon
  <2>2. Within(LateOps, UsbInit, 6)
    <3> DEFINE a == Op("enable", "USB", 0)
               b == Op("reset", "USB", 0)
               c == Op("clear", "USB", {"pdwn"})
               d == Op("clear", "USB", {"fres"})
               e == Op("cntr", "USB", {})
               f == Op("cntr", "USB", {"masks"})
    <3>1. UsbInit = <<a>> \o <<b, c, d, e, f>>
      BY DEF UsbInit, Enable
    <3>2. /\ a \in LateOps /\ b \in LateOps /\ c \in LateOps /\ d \in LateOps /\ e \in LateOps
          /\ f \in LateOps
      BY DEF LateOps
    <3> HIDE DEF a, b, c, d, e, f, LateOps
    <3>3. Within(LateOps, <<a>>, 1) /\ Within(LateOps, <<b, c, d, e, f>>, 5)
      BY <3>2 DEF Within
    <3> QED
      BY <3>1, <3>3, WithinGrows
  <2>3. Within(S, PinMode(DPlus, "output"), 1) /\ Within(S, DigitalWrite(DPlus, 0), 1)
        /\ Within(S, Delay(DelayMs), 2)
    <3>1. PinMode(DPlus, "output") = <<Pull>> /\ DigitalWrite(DPlus, 0) = <<Low>>
          /\ Delay(DelayMs) = <<Target, Sleep>>
      BY DEF PinMode, DigitalWrite, Delay, Pull, Low, Target, Sleep
    <3>2. Pull \in S /\ Low \in S /\ Target \in S /\ Sleep \in S
      BY <1>1 DEF HoldOps
    <3> HIDE DEF S
    <3> QED
      BY <3>1, <3>2, WithinSmall
  <2> DEFINE A0 == PinMode(DPlus, "output") \o DigitalWrite(DPlus, 0)
             A1 == A0 \o Delay(DelayMs)
             A2 == A1 \o DigitalWrite(DPlus, 1)
             A3 == A2 \o PinMode(DPlus, "floating")
             A4 == A3 \o <<Op("pageSize", "page", 0)>>
             A5 == A4 \o UsbInit
             A6 == A5 \o PinMode(ledPin, "output")
             A7 == A6 \o PinMode("PA8", "output")
             A8 == A7 \o PinMode("PB13", "output")
             A9 == A8 \o Enter
  <2>4. RunDfu = A9
    BY Zenon DEF RunDfu
  <2>5. \A l, n : n \in Nat /\ Within(LateOps, l, n) => Within(S, l, n)
    BY <1>1, WithinMore
  <2>s. ASSUME NEW s, NEW l, NEW m \in Nat, NEW k \in Nat, Within(S, s, m), Within(LateOps, l, k)
        PROVE  Within(S, s \o l, m + k)
    BY <2>5, <2>s, WithinGrows
  <2> HIDE DEF S, ledPin, Enter
  <2>6. Within(S, A0, 2)
    BY <2>3, WithinGrows
  <2> HIDE DEF A0
  <2>7. Within(S, A1, 4)
    BY <2>3, <2>6, WithinGrows
  <2> HIDE DEF A1
  <2>8. Within(S, A2, 5)
    BY <2>1, <2>s, <2>7
  <2> HIDE DEF A2
  <2>9. Within(S, A3, 6)
    BY <2>1, <2>s, <2>8
  <2> HIDE DEF A3
  <2>10. Within(S, A4, 7)
    BY <2>1, <2>s, <2>9
  <2> HIDE DEF A4
  <2>11. Within(S, A5, 13)
    BY <2>2, <2>s, <2>10
  <2> HIDE DEF A5
  <2>12. Within(S, A6, 14)
    BY <2>1, <2>s, <2>11
  <2> HIDE DEF A6
  <2>13. Within(S, A7, 15)
    BY <2>1, <2>s, <2>12
  <2> HIDE DEF A7
  <2>14. Within(S, A8, 16)
    BY <2>1, <2>s, <2>13
  <2> HIDE DEF A8
  <2>15. Within(S, A9, 17)
    BY <2>1, <2>s, <2>14
  <2> QED
    BY <2>4, <2>15
<1>7. Within(S, Stage2Entry, 40)
  BY <1>5, <1>6, WithinGrows DEF Stage2Entry
<1> QED
  BY <1>7, LenProperties DEF Within

(* Stage 1 has six accesses.                                                 *)
LEMMA BootLength == Len(Boot6) <= 50
<1>1. \A o \in Stage1Ops : Within(Stage1Ops, <<o>>, 1)
  BY WithinSmall
<1>2. /\ Op("enable", "PB", 0) \in Stage1Ops /\ Op("enable", "PC", 0) \in Stage1Ops
      /\ Op("enable", "AF", 0) \in Stage1Ops /\ Op("level", FORCE_DFU_IO, 1) \in Stage1Ops
      /\ Op("mode", FORCE_DFU_IO, "pulled") \in Stage1Ops
      /\ Op("read", FORCE_DFU_IO, 0) \in Stage1Ops
  BY DEF Stage1Ops
<1>3. Within(Stage1Ops, Boot1, 1)
  BY <1>1, <1>2 DEF Boot1
<1>4. Within(Stage1Ops, Boot2, 2)
  BY <1>1, <1>2, <1>3, WithinGrows DEF Boot2
<1>5. Within(Stage1Ops, Boot3, 3)
  BY <1>1, <1>2, <1>4, WithinGrows DEF Boot3
<1>6. Within(Stage1Ops, Boot4, 4)
  BY <1>1, <1>2, <1>5, WithinGrows DEF Boot4
<1>7. Within(Stage1Ops, Boot5, 5)
  BY <1>1, <1>2, <1>6, WithinGrows DEF Boot5
<1>8. Within(Stage1Ops, Boot6, 6)
  BY <1>1, <1>2, <1>7, WithinGrows DEF Boot6
<1> QED
  BY <1>8, LenProperties DEF Within

(* What an access may write.                                                 *)
Fits(o) ==
  /\ o.do \in {"start", "stop"} => o.at \in {"hse", "pll", "irc48"}
  /\ o.do = "psc" => o.v \in 0 .. 3
  /\ o.do \in {"wait", "stmWait"} => o.v \in 0 .. 2
  /\ o.do = "enable" => o.at \in {"PA", "PB", "PC", "AF", "USB"}
  /\ o.do = "cntr" => o.v \subseteq {"pdwn", "fres", "masks"}

(* Every access of either stage does, and only an application scales.        *)
LEMMA EarlyFits == \A o \in EarlyOps : Fits(o) /\ o.do # "scale"
<1> SUFFICES ASSUME NEW o \in EarlyOps PROVE Fits(o) /\ o.do # "scale"
  OBVIOUS
<1>1. CASE o = Op("cntr", "USB", {"pdwn"})
  BY <1>1, Fields DEF Fits
<1>2. CASE o \in {Op("tick", "tick", TRUE), Op("tick", "tick", FALSE)}
  <2>1. CASE o = Op("tick", "tick", TRUE)
    <3>1. o.do = "tick"
      BY <2>1, Fields, Zenon
    <3> QED
      BY <3>1 DEF Fits
  <2>2. CASE o = Op("tick", "tick", FALSE)
    <3>1. o.do = "tick"
      BY <2>2, Fields, Zenon
    <3> QED
      BY <3>1 DEF Fits
  <2> QED
    BY <1>2, <2>1, <2>2
<1>3. CASE o \in {Op("identify", "vendor", 0), Op("isGd32", "gd32", 0), Op("start", "hse", 0),
                  Op("await", "hse", 0), Op("start", "pll", 0), Op("await", "pll", 0),
                  Op("start", "irc48", 0), Op("await", "irc48", 0), Op("usbsel", "irc48", 0)}
  BY <1>3 DEF Fits, Op
<1>4. CASE o \in {Op("pll", "hse", 9), Op("pll", "hsi", 9), Op("psc", "usb", 0),
                  Op("ppre1", "apb1", 2), Op("wait", "flash", 2), Op("switch", "pll", 0),
                  Op("zero", "tick", 0)}
  BY <1>4 DEF Fits, Op
<1>5. CASE o \in {Op("enable", "PB", 0), Op("enable", "PC", 0), Op("enable", "AF", 0),
                  Op("enable", "USB", 0)}
  BY <1>5 DEF Fits, Op
<1> QED
  BY <1>1, <1>2, <1>3, <1>4, <1>5 DEF EarlyOps

(* The same of the accesses after the delay.                                 *)
LEMMA LateFits == \A o \in LateOps : Fits(o) /\ o.do # "scale"
<1> SUFFICES ASSUME NEW o \in LateOps PROVE Fits(o) /\ o.do # "scale"
  OBVIOUS
<1>1. CASE o \in [do : {"mode"}, at : {"PC13", "PA0", "PA8", "PB13"}, v : {"output"}]
           \/ o \in [do : {"level"}, at : {"PC13", "PA0", "PA8", "PB13"}, v : {0, 1}]
  BY <1>1 DEF Fits
<1>2. CASE o \in {Op("level", DPlus, 1), Op("mode", DPlus, "floating"), Op("pageSize", "page", 0)}
  BY <1>2, Fields DEF Fits
<1>3. CASE o \in {Op("enable", "USB", 0), Op("reset", "USB", 0), Op("clear", "USB", {"pdwn"}),
                  Op("clear", "USB", {"fres"}), Op("cntr", "USB", {}),
                  Op("cntr", "USB", {"masks"})}
  BY <1>3, Fields DEF Fits
<1>4. CASE o = Op("loop", "", 0)
  <2>1. o.do = "loop"
    BY <1>4, Fields, Zenon
  <2> QED
    BY <2>1 DEF Fits
<1> QED
  BY <1>1, <1>2, <1>3, <1>4 DEF LateOps

(* And of an application's.                                                  *)
LEMMA AppFits == \A o \in AppOps : Fits(o)
<1> SUFFICES ASSUME NEW o \in AppOps PROVE Fits(o)
  OBVIOUS
<1> DEFINE core == InputClock * Multiplier
           code == Factor(Multipliers[Multiplier + 1])
<1>1. CASE o \in {Op("core", "", core), Op("pll", "hse", code), Op("pll", "hsi", code)}
  <2> HIDE DEF core, code
  <2>1. CASE o = Op("core", "", core)
    <3>1. o.do = "core"
      BY <2>1, Fields, Zenon
    <3> QED
      BY <3>1 DEF Fits
  <2>2. CASE o = Op("pll", "hse", code) \/ o = Op("pll", "hsi", code)
    BY <2>2, Fields DEF Fits
  <2> QED
    BY <1>1, <2>1, <2>2
<1>2. CASE o \notin {Op("core", "", core), Op("pll", "hse", code), Op("pll", "hsi", code)}
  <2>1. o \in {Op("identify", "vendor", 0), Op("switch", "hsi", 0), Op("switched", "hsi", 0),
               Op("stop", "hse", 0), Op("stop", "pll", 0), Op("start", "hse", 0),
               Op("await", "hse", 0), Op("start", "pll", 0), Op("await", "pll", 0),
               Op("ppre1", "apb1", 2), Op("stmWait", "flash", 0), Op("stmWait", "flash", 1),
               Op("stmWait", "flash", 2), Op("switch", "pll", 0), Op("scale", "usb", 0)}
    BY <1>2 DEF AppOps
  <2> QED
    BY <2>1 DEF Op, Fits
<1> QED
  BY <1>1, <1>2

(* Of the access that is next, in every state; and the list gets shorter.    *)
LEMMA NextFits ==
  ASSUME BoardInv, todo # <<>>
  PROVE  /\ Fits(Next1) /\ (Next1.do = "scale" => stage = "app")
         /\ Len(todo) \in Nat /\ Len(Tail(todo)) = Len(todo) - 1
<1>1. ASSUME NEW S, todo \in Seq(S)
      PROVE  Len(todo) \in Nat /\ Len(Tail(todo)) = Len(todo) - 1 /\ Next1 \in S
  BY <1>1, LenProperties, HeadTailProperties DEF Next1
<1>2. CASE stage = "stage1"
  <2>1. Next1 \in Stage1Ops /\ todo \in Seq(Stage1Ops)
    <3>1. Boot1 \in Seq(Stage1Ops) /\ Boot2 \in Seq(Stage1Ops) /\ Boot3 \in Seq(Stage1Ops)
          /\ Boot4 \in Seq(Stage1Ops) /\ Boot5 \in Seq(Stage1Ops) /\ Boot6 \in Seq(Stage1Ops)
      <4>1. \A o \in Stage1Ops : <<o>> \in Seq(Stage1Ops)
        BY SmallLists
      <4>2. /\ Op("enable", "PB", 0) \in Stage1Ops /\ Op("enable", "PC", 0) \in Stage1Ops
            /\ Op("enable", "AF", 0) \in Stage1Ops /\ Op("level", FORCE_DFU_IO, 1) \in Stage1Ops
            /\ Op("mode", FORCE_DFU_IO, "pulled") \in Stage1Ops
            /\ Op("read", FORCE_DFU_IO, 0) \in Stage1Ops
        BY DEF Stage1Ops
      <4> QED
        BY <4>1, <4>2, SmallLists DEF Boot1, Boot2, Boot3, Boot4, Boot5, Boot6
    <3>2. todo \in Seq(Stage1Ops)
      BY <1>2, <3>1 DEF BoardInv, Booting
    <3> QED
      BY <1>1, <3>2
  <2>2. \A o \in Stage1Ops : Fits(o) /\ o.do # "scale"
    BY Fields DEF Stage1Ops, Fits
  <2> QED
    BY <1>1, <2>1, <2>2
<1>3. CASE stage \in {"stage2", "loop"} /\ Late
  BY <1>1, <1>3, LateFits DEF Late
<1>4. CASE stage = "stage2" /\ Holding
  <2>1. \A o \in StageTwoOps : Fits(o) /\ o.do # "scale"
    BY EarlyFits, LateFits, HoldFacts DEF StageTwoOps, HoldOps, Fits
  <2>2. \A list : Near(list) => list \in Seq(StageTwoOps)
    BY Stretches, SmallLists, HoldLists DEF Near
  <2>3. \A list : Ahead(list) => list \in Seq(StageTwoOps)
    BY PortAFront, SmallLists, HoldLists DEF Ahead
  <2>4. todo \in Seq(StageTwoOps)
    BY <1>4, <2>2, <2>3, HoldLists DEF Holding, Held
  <2> QED
    BY <1>1, <2>1, <2>4
<1>5. CASE stage = "app"
  BY <1>1, <1>5, AppFits DEF BoardInv, Application
<1> QED
  BY <1>2, <1>3, <1>4, <1>5 DEF BoardInv

(* The order of an application's accesses: the chip is identified, setPll    *)
(* records the frequency, and enableUsb48Mhz, which reads both, is last.     *)
Frequency == InputClock * Multiplier
Core == Op("core", "", Frequency)
Scale == Op("scale", "usb", 0)
ClockOps == {o \in AppOps : o.do \notin {"identify", "isGd32", "pageSize", "core", "scale"}}
Rest(list) ==
  \E u \in Seq(ClockOps), e \in {<<>>, <<Scale>>} :
     (e = <<Scale>> => build.external) /\ list = u \o e
CoreFirst(list) == \E s \in Seq(ClockOps) : \E r : Rest(r) /\ list = s \o (<<Core>> \o r)
AppOrder ==
  \/ chip = Unknown /\ \E list : CoreFirst(list) /\ todo = Identify \o list
  \/ chip.vendor = Vendor /\ CoreFirst(todo)
  \/ chip.vendor = Vendor /\ SystemCoreClock = Frequency /\ Rest(todo)

(* These sets and values only depend on the build.                           *)
LEMMA BuildFixed == UNCHANGED build => UNCHANGED <<AppOps, ClockOps, Frequency, Core, Vendor>>
<1> SUFFICES ASSUME UNCHANGED build PROVE UNCHANGED <<AppOps, ClockOps, Frequency, Core, Vendor>>
  OBVIOUS
<1>1. UNCHANGED <<InputClock, Multiplier>>
  BY DEF InputClock, Multiplier
<1>2. UNCHANGED AppOps
  BY <1>1 DEF AppOps
<1>3. UNCHANGED ClockOps
  BY <1>2 DEF ClockOps
<1>4. UNCHANGED <<Frequency, Core>>
  BY <1>1 DEF Frequency, Core
<1>5. UNCHANGED Vendor
  BY DEF Vendor, RamSize
<1> QED
  BY <1>2, <1>3, <1>4, <1>5

(* The accesses in question.                                                 *)
LEMMA OrderFacts ==
  /\ Core \in AppOps /\ Core.do = "core" /\ Core.v = Frequency
  /\ Scale \in AppOps /\ Scale.do = "scale"
  /\ Op("identify", "vendor", 0) \in AppOps
  /\ ClockOps \subseteq AppOps
<1>1. Core \in AppOps /\ Scale \in AppOps /\ Op("identify", "vendor", 0) \in AppOps
  BY DEF AppOps, Core, Scale, Frequency
<1>2. Core.do = "core" /\ Core.v = Frequency
  <2>1. \A at, v : Op("core", at, v).do = "core" /\ Op("core", at, v).v = v
    BY Fields
  <2> HIDE DEF Frequency
  <2>2. Op("core", "", Frequency).do = "core" /\ Op("core", "", Frequency).v = Frequency
    BY <2>1, Zenon
  <2> QED
    BY <2>2, Zenon DEF Core
<1>3. Scale.do = "scale"
  BY Fields DEF Scale
<1> QED
  BY <1>1, <1>2, <1>3 DEF ClockOps

(* The front of what follows setPll's record of the frequency.               *)
LEMMA RestFront ==
  ASSUME NEW list, Rest(list)
  PROVE  /\ list \in Seq(AppOps)
         /\ list # <<>> => \/ Head(list) \in ClockOps /\ Rest(Tail(list))
                           \/ Head(list) = Scale /\ build.external /\ Rest(Tail(list))
<1>1. PICK u \in Seq(ClockOps), e \in {<<>>, <<Scale>>} :
         (e = <<Scale>> => build.external) /\ list = u \o e
  BY DEF Rest
<1>2. u \in Seq(AppOps) /\ e \in Seq(AppOps)
  BY <1>1, OrderFacts, SeqMonotonic, SmallLists, EmptySeq
<1>3. list \in Seq(AppOps)
  BY <1>1, <1>2, SmallLists
<1>4. CASE u # <<>>
  <2>1. Head(list) = Head(u) /\ Tail(list) = Tail(u) \o e
    BY <1>1, <1>2, <1>4, Front
  <2>2. Head(u) \in ClockOps /\ Tail(u) \in Seq(ClockOps)
    BY <1>4, HeadTailProperties
  <2> QED
    BY <1>1, <1>3, <2>1, <2>2 DEF Rest
<1>5. CASE u = <<>>
  <2>1. list = e
    BY <1>1, <1>2, <1>5, ConcatEmptySeq
  <2>2. list # <<>> => list = <<Scale>> /\ build.external
    BY <1>1, <2>1
  <2>3. Rest(<<>>)
    <3>1. <<>> \in Seq(ClockOps) /\ <<>> \o <<>> = <<>> /\ <<>> # <<Scale>>
      BY EmptySeq, ConcatEmptySeq
    <3> QED
      BY <3>1 DEF Rest
  <2>4. Head(<<Scale>>) = Scale /\ Tail(<<Scale>>) = <<>>
    OBVIOUS
  <2> QED
    BY <1>3, <2>2, <2>3, <2>4
<1> QED
  BY <1>4, <1>5

(* The front of a list in which that record is still to come.                *)
LEMMA CoreFront ==
  ASSUME NEW list, CoreFirst(list)
  PROVE  /\ list \in Seq(AppOps) /\ list # <<>>
         /\ \/ Head(list) \in ClockOps /\ CoreFirst(Tail(list))
            \/ Head(list) = Core /\ Rest(Tail(list))
<1>1. PICK s \in Seq(ClockOps) : \E r : Rest(r) /\ list = s \o (<<Core>> \o r)
  BY DEF CoreFirst
<1>2. PICK r : Rest(r) /\ list = s \o (<<Core>> \o r)
  BY <1>1
<1>3. s \in Seq(AppOps) /\ r \in Seq(AppOps) /\ <<Core>> \in Seq(AppOps)
  BY <1>2, OrderFacts, SeqMonotonic, SmallLists, RestFront
<1>4. <<Core>> \o r \in Seq(AppOps) /\ list \in Seq(AppOps)
  BY <1>2, <1>3, SmallLists
<1>5. CASE s # <<>>
  <2>1. list # <<>> /\ Head(list) = Head(s) /\ Tail(list) = Tail(s) \o (<<Core>> \o r)
    BY <1>2, <1>3, <1>4, <1>5, Front
  <2>2. Head(s) \in ClockOps /\ Tail(s) \in Seq(ClockOps)
    BY <1>5, HeadTailProperties
  <2> QED
    BY <1>2, <1>4, <2>1, <2>2 DEF CoreFirst
<1>6. CASE s = <<>>
  <2>1. list = <<Core>> \o r
    BY <1>2, <1>4, <1>6, ConcatEmptySeq
  <2>2. <<Core>> # <<>> /\ Head(<<Core>>) = Core /\ Tail(<<Core>>) = <<>>
    OBVIOUS
  <2>3. list # <<>> /\ Head(list) = Core /\ Tail(list) = <<>> \o r
    BY <1>3, <2>1, <2>2, Front
  <2>4. Tail(list) = r
    BY <1>3, <2>3, ConcatEmptySeq
  <2> QED
    BY <1>2, <1>4, <2>3, <2>4
<1> QED
  BY <1>5, <1>6

(* One access keeps the order; the prescaler is computed when the frequency  *)
(* and the vendor are known.                                                 *)
LEMMA OrderStep ==
  ASSUME AppOrder, Application, stage = "app", Program
  PROVE  /\ UNCHANGED build => AppOrder'
         /\ Does({"scale"}) =>
              SystemCoreClock = Frequency /\ chip.vendor = Vendor /\ build.external
<1> USE DEF Does
<1>1. UNCHANGED build /\ UNCHANGED <<AppOps, ClockOps, Frequency, Core, Vendor>>
  <2>1. UNCHANGED build
    BY DEF Program, ClockOp, ChipOp, EnableOp, PinOp, UsbOp, TickOp, ReadButton, EnterLoop, Blink
  <2> QED
    BY <2>1, BuildFixed
<1>2. \A list : (Rest(list) => Rest(list)') /\ (CoreFirst(list) => CoreFirst(list)')
  BY <1>1 DEF Rest, CoreFirst
<1>3. \A o \in AppOps : o.do \notin {"cntr", "clear", "reset", "level", "mode", "target", "sleep",
                                    "read", "loop", "zero", "tick", "enable"}
  BY AppFacts
<1>4. todo # <<>> => Next1 \in AppOps
  BY HeadTailProperties DEF Next1, Application
<1>5. ~Blink
  BY DEF Blink
<1>6. todo # <<>> /\ (ClockOp \/ ChipOp)
  <2> HIDE DEF Next1
  <2> QED
    BY <1>3, <1>4, <1>5 DEF Program, ClockOp, ChipOp, EnableOp, PinOp, UsbOp, TickOp, ReadButton,
                            EnterLoop
<1>7. todo' = Tail(todo)
  BY <1>6 DEF ClockOp, ChipOp
<1>8. CASE chip = Unknown /\ \E list : CoreFirst(list) /\ todo = Identify \o list
  <2>1. PICK list : CoreFirst(list) /\ todo = Identify \o list
    BY <1>8
  <2>2. Identify \in Seq(AppOps) /\ Identify # <<>> /\ Tail(Identify) = <<>>
        /\ Head(Identify) = Op("identify", "vendor", 0)
    BY OrderFacts, SmallLists DEF Identify
  <2>3. Next1 = Op("identify", "vendor", 0) /\ Tail(todo) = list
    <3>1. list \in Seq(AppOps)
      BY <2>1, CoreFront
    <3>2. Head(todo) = Head(Identify) /\ Tail(todo) = Tail(Identify) \o list
      BY <2>1, <2>2, <3>1, Front
    <3> QED
      BY <2>2, <3>1, <3>2, ConcatEmptySeq DEF Next1
  <2>4. Next1.do = "identify"
    BY <2>3, Fields
  <2> HIDE DEF Next1
  <2>5. ChipOp
    BY <1>6, <2>4 DEF ClockOp
  <2>6. chip'.vendor = Vendor
    BY <1>8, <2>4, <2>5 DEF ChipOp, Unknown
  <2> QED
    BY <1>1, <1>2, <1>7, <2>1, <2>3, <2>4, <2>6 DEF AppOrder
<1>9. CASE chip.vendor = Vendor /\ CoreFirst(todo)
  <2>1. CASE Next1 \in ClockOps /\ CoreFirst(Tail(todo))
    <3>1. Next1.do \notin {"identify", "isGd32", "pageSize", "core", "scale"}
      BY <2>1 DEF ClockOps
    <3> HIDE DEF Next1
    <3>2. UNCHANGED chip
      BY <1>6, <3>1 DEF ClockOp, ChipOp
    <3> QED
      BY <1>1, <1>2, <1>7, <1>9, <2>1, <3>1, <3>2 DEF AppOrder
  <2>2. CASE Next1 = Core /\ Rest(Tail(todo))
    <3>1. Next1.do = "core" /\ Next1.v = Frequency
      BY <2>2, OrderFacts
    <3> HIDE DEF Next1
    <3>2. UNCHANGED chip /\ SystemCoreClock' = Frequency
      BY <1>6, <3>1 DEF ClockOp, ChipOp
    <3> QED
      BY <1>1, <1>2, <1>7, <1>9, <2>2, <3>1, <3>2 DEF AppOrder
  <2> QED
    BY <1>9, <2>1, <2>2, CoreFront DEF Next1
<1>10. CASE chip.vendor = Vendor /\ SystemCoreClock = Frequency /\ Rest(todo)
  <2>1. \/ Next1 \in ClockOps
        \/ Next1 = Scale /\ build.external
    BY <1>6, <1>10, RestFront DEF Next1
  <2>2. Rest(Tail(todo))
    BY <1>6, <1>10, RestFront DEF Next1
  <2>3. Next1.do \notin {"identify", "isGd32", "pageSize", "core"}
    BY <2>1, OrderFacts DEF ClockOps
  <2>4. Next1.do = "scale" => build.external
    BY <2>1 DEF ClockOps
  <2> HIDE DEF Next1
  <2>5. UNCHANGED <<chip, SystemCoreClock>>
    BY <1>6, <2>3 DEF ClockOp, ChipOp
  <2> QED
    BY <1>1, <1>2, <1>7, <1>10, <2>2, <2>4, <2>5 DEF AppOrder
<1> QED
  BY <1>8, <1>9, <1>10 DEF AppOrder

(* Lists put together from the left are lists put together from the right.   *)
IsList(S, list) == list \in Seq(S)

(* The parentheses of three lists.                                           *)
LEMMA Assoc ==
  ASSUME NEW S, NEW s, NEW t, NEW u, IsList(S, s), IsList(S, t), IsList(S, u)
  PROVE  (s \o t) \o u = s \o (t \o u) /\ IsList(S, s \o t)
<1>1. s \in Seq(S) /\ t \in Seq(S) /\ u \in Seq(S)
  BY DEF IsList
<1>2. s \o t \in Seq(S)
  BY <1>1, SmallLists
<1>3. (s \o t) \o u = s \o (t \o u)
  BY <1>1, ConcatAssociative
<1> QED
  BY <1>2, <1>3 DEF IsList

(* Six lists put together from the left, the fourth of two parts.            *)
AreLists(S, i, a, b, k, q, z, e) ==
  /\ IsList(S, i) /\ IsList(S, a) /\ IsList(S, b) /\ IsList(S, k) /\ IsList(S, q)
  /\ IsList(S, z) /\ IsList(S, e)

FromLeft(i, a, b, k, q, z, e) == ((((i \o a) \o b) \o (k \o q)) \o z) \o e
FromRight(i, a, b, k, q, z, e) == i \o ((a \o b) \o (k \o ((q \o z) \o e)))

(* They are the same list.                                                   *)
LEMMA Regroup ==
  ASSUME NEW S, NEW i, NEW a, NEW b, NEW k, NEW q, NEW z, NEW e,
         AreLists(S, i, a, b, k, q, z, e)
  PROVE  FromLeft(i, a, b, k, q, z, e) = FromRight(i, a, b, k, q, z, e)
<1> DEFINE ab == a \o b
           kq == k \o q
           qz == q \o z
<1>i. IsList(S, i)
  BY DEF AreLists
<1>a. IsList(S, a) /\ IsList(S, b)
  BY DEF AreLists
<1>k. IsList(S, k)
  BY DEF AreLists
<1>q. IsList(S, q)
  BY DEF AreLists
<1>z. IsList(S, z)
  BY DEF AreLists
<1>e. IsList(S, e)
  BY DEF AreLists
<1>1. IsList(S, ab)
  BY <1>a, Assoc
<1>2. (i \o a) \o b = i \o ab
  BY <1>i, <1>a, Assoc
<1>3. IsList(S, kq)
  BY <1>k, <1>q, Assoc
<1>4. kq \o z = k \o qz
  BY <1>k, <1>q, <1>z, Assoc
<1>5. IsList(S, qz)
  BY <1>q, <1>z, Assoc
<1> HIDE DEF ab, kq, qz
<1>6. (i \o ab) \o kq = i \o (ab \o kq)
  BY <1>i, <1>1, <1>3, Assoc
<1>7. IsList(S, ab \o kq)
  BY <1>1, <1>3, Assoc
<1>8. (ab \o kq) \o z = ab \o (kq \o z)
  BY <1>z, <1>1, <1>3, Assoc
<1>9. (k \o qz) \o e = k \o (qz \o e)
  BY <1>k, <1>e, <1>5, Assoc
<1>10. IsList(S, k \o qz)
  BY <1>k, <1>5, Assoc
<1> DEFINE abkq == ab \o kq
           kqz == k \o qz
<1>11. IsList(S, abkq) /\ IsList(S, kqz)
  BY <1>7, <1>10
<1> HIDE DEF abkq, kqz
<1>12. (i \o abkq) \o z = i \o (abkq \o z)
  BY <1>i, <1>z, <1>11, Assoc
<1>13. (ab \o kqz) \o e = ab \o (kqz \o e)
  BY <1>e, <1>1, <1>11, Assoc
<1>14. IsList(S, ab \o kqz)
  BY <1>1, <1>11, Assoc
<1>15. (i \o (ab \o kqz)) \o e = i \o ((ab \o kqz) \o e)
  BY <1>i, <1>e, <1>14, Assoc
<1>16. abkq \o z = ab \o kqz
  BY <1>4, <1>8, Zenon DEF abkq, kqz
<1>17. kqz \o e = k \o (qz \o e)
  BY <1>9, Zenon DEF kqz
<1>18. (i \o ab) \o kq = i \o abkq
  BY <1>6, Zenon DEF abkq
<1>19. (((i \o ab) \o kq) \o z) \o e = i \o (ab \o (k \o (qz \o e)))
  BY <1>12, <1>13, <1>15, <1>16, <1>17, <1>18, Zenon
<1>20. ((((i \o a) \o b) \o kq) \o z) \o e = i \o (ab \o (k \o (qz \o e)))
  BY <1>2, <1>19, Zenon
<1> QED
  BY <1>20, Zenon DEF ab, kq, qz, FromLeft, FromRight

(* The stretches of an application's clock set-up: what comes before the     *)
(* record of the frequency, the PLL's word, the divider of APB1 with the     *)
(* wait states and the switch, and enableUsb48Mhz                            *)
(* (lnRCU_systemClock_arm_gd32fx.cpp:165-242).                               *)
StopOps ==
  {Op("switch", "hsi", 0), Op("switched", "hsi", 0), Op("stop", "hse", 0), Op("stop", "pll", 0),
   Op("start", "hse", 0), Op("await", "hse", 0)}
AppSource == IF build.external THEN "hse" ELSE "hsi"
PllWord == Op("pll", AppSource, Factor(Multipliers[Multiplier + 1]))
FlashWait == IF build.speed > 48 THEN 2 ELSE IF build.speed > 24 THEN 1 ELSE 0
BusList == <<Op("ppre1", "apb1", 2), Op("stmWait", "flash", FlashWait), Switch("pll")>>
UsbList == IF build.external THEN <<Scale>> ELSE <<>>

(* An application's accesses are in order, and at most twenty.               *)
LEMMA AppShape ==
  LET program == InitSystemClock \o (IF build.external THEN EnableUsb48Mhz ELSE <<>>)
  IN /\ \E list : CoreFirst(list) /\ program = Identify \o list
     /\ Len(program) <= 50
     /\ \E t \in Seq(StopOps) :
          program = Identify \o (t \o (<<Core>> \o (((<<PllWord>> \o Start("pll")) \o BusList)
                                                      \o UsbList)))
<1> DEFINE code == Factor(Multipliers[Multiplier + 1])
           w == IF build.speed > 48 THEN 2 ELSE IF build.speed > 24 THEN 1 ELSE 0
           src == IF build.external THEN "hse" ELSE "hsi"
           a == <<Switch("hsi"), Op("switched", "hsi", 0), Op("stop", "hse", 0),
                  Op("stop", "pll", 0)>>
           b == IF build.external THEN Start("hse") ELSE <<>>
           k == <<Core>>
           q == <<Op("pll", src, code)>> \o Start("pll")
           z == <<Op("ppre1", "apb1", 2), Op("stmWait", "flash", w), Switch("pll")>>
           e == IF build.external THEN EnableUsb48Mhz ELSE <<>>
<1>1. /\ Op("switch", "hsi", 0) \in ClockOps /\ Op("switched", "hsi", 0) \in ClockOps
      /\ Op("stop", "hse", 0) \in ClockOps /\ Op("stop", "pll", 0) \in ClockOps
      /\ Op("start", "hse", 0) \in ClockOps /\ Op("await", "hse", 0) \in ClockOps
      /\ Op("start", "pll", 0) \in ClockOps /\ Op("await", "pll", 0) \in ClockOps
      /\ Op("switch", "pll", 0) \in ClockOps /\ Op("ppre1", "apb1", 2) \in ClockOps
  <2>1. /\ Op("switch", "hsi", 0) \in AppOps /\ Op("switched", "hsi", 0) \in AppOps
        /\ Op("stop", "hse", 0) \in AppOps /\ Op("stop", "pll", 0) \in AppOps
        /\ Op("start", "hse", 0) \in AppOps /\ Op("await", "hse", 0) \in AppOps
        /\ Op("start", "pll", 0) \in AppOps /\ Op("await", "pll", 0) \in AppOps
        /\ Op("switch", "pll", 0) \in AppOps /\ Op("ppre1", "apb1", 2) \in AppOps
    BY DEF AppOps
  <2> QED
    BY <2>1, Fields DEF ClockOps
<1>2. Op("pll", src, code) \in ClockOps /\ Op("stmWait", "flash", w) \in ClockOps
  <2>1. Op("pll", src, code) \in AppOps /\ Op("stmWait", "flash", w) \in AppOps
    BY DEF AppOps
  <2> HIDE DEF src, code, w
  <2> QED
    BY <2>1, Fields DEF ClockOps
<1>3. InitSystemClock \o e = ((((Identify \o a) \o b) \o (k \o q)) \o z) \o e
  <2>1. SetPll = k \o q
    <3>1. SetPll = <<Core, Op("pll", src, code)>> \o Start("pll")
      BY DEF SetPll, Pll, Core, Frequency
    <3>2. <<Core, Op("pll", src, code)>> = <<Core>> \o <<Op("pll", src, code)>>
      BY Join11
    <3>3. <<Core>> \in Seq(AppOps) /\ <<Op("pll", src, code)>> \in Seq(AppOps)
          /\ Start("pll") \in Seq(AppOps)
      BY <1>1, <1>2, OrderFacts, SmallLists DEF Start
    <3> HIDE DEF src, code
    <3> QED
      BY <3>1, <3>2, <3>3, ConcatAssociative
  <2> QED
    BY <2>1 DEF InitSystemClock
<1>4. Within(ClockOps, a, 4) /\ Within(ClockOps, z, 3) /\ Within(ClockOps, b, 2)
      /\ Within(ClockOps, q, 3)
  <2> HIDE DEF w, src, code
  <2>1. \A S : Within(S, <<>>, 2)
    BY EmptySeq DEF Within
  <2>2. Within(ClockOps, a, 4) /\ Within(ClockOps, z, 3)
    BY <1>1, <1>2, WithinSmall DEF Switch
  <2>3. Within(ClockOps, Start("hse"), 2) /\ Within(ClockOps, Start("pll"), 2)
    BY <1>1, WithinSmall DEF Start
  <2>4. Within(ClockOps, <<Op("pll", src, code)>>, 1)
    BY <1>2, WithinSmall
  <2>5. Within(ClockOps, q, 3)
    BY <2>3, <2>4, WithinGrows
  <2> QED
    BY <2>1, <2>2, <2>3, <2>5
<1>5. Within(AppOps, Identify, 1) /\ Within(AppOps, k, 1) /\ Within(AppOps, e, 1)
  <2>1. EnableUsb48Mhz = <<Scale>>
    BY DEF EnableUsb48Mhz, Scale
  <2>2. Within(AppOps, <<>>, 1)
    BY EmptySeq DEF Within
  <2> QED
    BY <2>1, <2>2, OrderFacts, WithinSmall DEF Identify
<1>6. e \in {<<>>, <<Scale>>} /\ (e = <<Scale>> => build.external)
  BY DEF EnableUsb48Mhz, Scale
<1>13. q = <<PllWord>> \o Start("pll") /\ z = BusList /\ e = UsbList
  BY DEF PllWord, AppSource, BusList, FlashWait, UsbList, EnableUsb48Mhz, Scale
<1>14. a \in Seq(StopOps) /\ b \in Seq(StopOps)
  <2>1. Within(StopOps, a, 4)
    BY WithinSmall DEF StopOps, Switch
  <2>2. Within(StopOps, Start("hse"), 2)
    BY WithinSmall DEF StopOps, Start
  <2>3. <<>> \in Seq(StopOps)
    BY EmptySeq
  <2> QED
    BY <2>1, <2>2, <2>3 DEF Within
<1> HIDE DEF a, b, k, q, z, e, code, w, src
<1>7. /\ Within(AppOps, a, 4) /\ Within(AppOps, z, 3) /\ Within(AppOps, b, 2)
      /\ Within(AppOps, q, 3)
  BY <1>4, OrderFacts, WithinMore
<1>8. InitSystemClock \o e = Identify \o ((a \o b) \o (k \o ((q \o z) \o e)))
  <2>1. /\ IsList(AppOps, Identify) /\ IsList(AppOps, a) /\ IsList(AppOps, b)
        /\ IsList(AppOps, k) /\ IsList(AppOps, q) /\ IsList(AppOps, z) /\ IsList(AppOps, e)
    BY <1>5, <1>7 DEF Within, IsList
  <2>2. ((((Identify \o a) \o b) \o (k \o q)) \o z) \o e
          = Identify \o ((a \o b) \o (k \o ((q \o z) \o e)))
    <3>1. AreLists(AppOps, Identify, a, b, k, q, z, e)
      BY <2>1 DEF AreLists
    <3>2. FromLeft(Identify, a, b, k, q, z, e) = FromRight(Identify, a, b, k, q, z, e)
      BY <3>1, Regroup
    <3> QED
      BY <3>2, Zenon DEF FromLeft, FromRight
  <2> QED
    BY <1>3, <2>2, Zenon
<1>9. a \o b \in Seq(ClockOps) /\ q \o z \in Seq(ClockOps)
  BY <1>4, SmallLists DEF Within
<1>10. CoreFirst((a \o b) \o (k \o ((q \o z) \o e)))
  <2>1. Rest((q \o z) \o e)
    BY <1>6, <1>9 DEF Rest
  <2> QED
    BY <1>9, <2>1 DEF CoreFirst, k
<1>11. Within(AppOps, InitSystemClock \o e, 20)
  <2>1. Within(AppOps, a \o b, 6) /\ Within(AppOps, q \o z, 6)
    BY <1>7, WithinGrows
  <2>2. Within(AppOps, (q \o z) \o e, 7)
    BY <1>5, <2>1, WithinGrows
  <2>3. Within(AppOps, k \o ((q \o z) \o e), 8)
    BY <1>5, <2>2, WithinGrows
  <2>4. Within(AppOps, (a \o b) \o (k \o ((q \o z) \o e)), 14)
    BY <2>1, <2>3, WithinGrows
  <2>5. Within(AppOps, Identify \o ((a \o b) \o (k \o ((q \o z) \o e))), 15)
    BY <1>5, <2>4, WithinGrows
  <2> QED
    BY <1>8, <2>5, WithinMore
<1>12. Len(InitSystemClock \o e) <= 50
  BY <1>11, LenProperties DEF Within
<1>15. \E t \in Seq(StopOps) :
         InitSystemClock \o e
           = Identify \o (t \o (<<Core>> \o (((<<PllWord>> \o Start("pll")) \o BusList)
                                                 \o UsbList)))
  <2>1. a \o b \in Seq(StopOps)
    BY <1>14, SmallLists
  <2> QED
    BY <1>8, <1>13, <2>1 DEF k
<1> QED
  BY <1>8, <1>10, <1>12, <1>15 DEF e

-----------------------------------------------------------------------------
(* The types, and what keeps the prescaler in its range.                     *)
Oscs == {"hse", "pll", "irc48"}
Settings ==
  /\ build \in Builds /\ Len(todo) <= 50
  /\ osc \in [Oscs -> {"off", "starting", "on"}]
  /\ "psc" \in DOMAIN cfg0 /\ cfg0.psc \in 0 .. 3 /\ wait \in 0 .. 2
  /\ clocked \subseteq {"PA", "PB", "PC", "AF", "USB"}
  /\ cntr \subseteq {"pdwn", "fres", "masks"}
  /\ sysTick \in 0 .. MaxTick /\ nextTick \in Nat /\ low <= DelayMs + 1
  /\ stage = "app" => AppOrder

(* An application starts in order, and stays so.                             *)
LEMMA OrderKept ==
  ASSUME BoardInv, Settings, Program
  PROVE  /\ stage' = "app" => AppOrder'
         /\ Does({"scale"}) =>
              SystemCoreClock = Frequency /\ chip.vendor = Vendor /\ build.external
<1>1. UNCHANGED build
  BY DEF Program, ClockOp, ChipOp, EnableOp, PinOp, UsbOp, TickOp, ReadButton, EnterLoop, Blink
<1>2. CASE stage = "app"
  BY <1>1, <1>2, OrderStep DEF BoardInv, Settings
<1>3. CASE stage # "app"
  <2>1. ~Does({"scale"})
    BY <1>3, NextFits DEF Does
  <2>2. stage' = "app" => ReadButton
    BY <1>3 DEF Program, ClockOp, ChipOp, EnableOp, PinOp, UsbOp, TickOp, EnterLoop, Blink
  <2>3. ReadButton /\ stage' = "app" =>
          /\ todo' = InitSystemClock \o (IF build.external THEN EnableUsb48Mhz ELSE <<>>)
          /\ chip' = Unknown
    BY DEF ReadButton
  <2>4. \E list : CoreFirst(list)
                  /\ InitSystemClock \o (IF build.external THEN EnableUsb48Mhz ELSE <<>>)
                       = Identify \o list
    BY AppShape
  <2>5. \A list : CoreFirst(list) => CoreFirst(list)'
    BY <1>1, BuildFixed DEF Rest, CoreFirst
  <2>6. stage' = "app" => chip' = Unknown /\ \E list : CoreFirst(list)' /\ todo' = Identify \o list
    BY <2>2, <2>3, <2>4, <2>5
  <2> QED
    BY <2>1, <2>6 DEF AppOrder
<1> QED
  BY <1>2, <1>3

(* enableUsb48Mhz finds a divider that the chip knows, as it asserts         *)
(* (lnRCU_armgd32.cpp:51-96).                                                *)
LEMMA PrescalerFits ==
  ASSUME build \in Builds, SystemCoreClock = Frequency, chip.vendor = Vendor, build.external
  PROVE  UsbPrescaler((2 * getClock("pSYSCLOCK")) \div 48) \in 0 .. 3
<1> DEFINE d == (2 * Frequency) \div 48
<1>1. Frequency = 8 * (build.speed \div 8)
  BY DEF Frequency, InputClock, Multiplier
<1>2. d \in (IF build.gd THEN 2 .. 5 ELSE 2 .. 3)
  BY <1>1, SpeedAssumption
<1>3. getClock("pSYSCLOCK") = Frequency
  BY DEF getClock
<1>4. is_gd32 <=> build.gd
  BY BoardAssumption DEF is_gd32, Vendor, RamSize
<1> HIDE DEF d
<1>5. UsbPrescaler(d) \in 0 .. 3
  BY <1>2, <1>4, BoardAssumption DEF UsbPrescaler
<1> QED
  BY <1>3, <1>5 DEF d

(* One access of the clock unit.                                             *)
LEMMA ClockTypes == ASSUME BoardInv, Settings, ClockOp PROVE Settings'
<1>1. todo # <<>> /\ Program
  BY DEF ClockOp, Does, Program
<1>2. Fits(Next1) /\ Len(todo) \in Nat /\ Len(Tail(todo)) = Len(todo) - 1
  BY <1>1, NextFits
<1>3. stage' = "app" => AppOrder'
  BY <1>1, OrderKept
<1>4. Next1.do = "scale" => UsbPrescaler((2 * getClock("pSYSCLOCK")) \div 48) \in 0 .. 3
  BY <1>1, OrderKept, PrescalerFits DEF Settings, Does
<1> DEFINE p == UsbPrescaler((2 * getClock("pSYSCLOCK")) \div 48)
<1> HIDE DEF p, Next1
<1>5. todo' = Tail(todo) /\ UNCHANGED <<build, stage, clocked, cntr, sysTick, nextTick, low>>
  BY DEF ClockOp, pads, timing
<1>6. osc' \in [Oscs -> {"off", "starting", "on"}]
  <2>1. Next1.do \in {"start", "stop"} => Next1.at \in Oscs
    BY <1>2 DEF Fits, Oscs
  <2>2. \/ osc' = osc
        \/ Next1.do = "start" /\ osc' = [osc EXCEPT ![Next1.at] = "starting"]
        \/ Next1.do = "stop" /\ osc' = [osc EXCEPT ![Next1.at] = "off"]
    BY DEF ClockOp
  <2> QED
    BY <2>1, <2>2 DEF Settings
<1>7. "psc" \in DOMAIN cfg0' /\ cfg0'.psc \in 0 .. 3
  <2>1. \/ cfg0' = cfg0
        \/ cfg0' = [cfg0 EXCEPT !.src = Next1.at, !.mul = Next1.v]
        \/ Next1.do = "psc" /\ cfg0' = [cfg0 EXCEPT !.psc = Next1.v]
        \/ Next1.do = "scale" /\ cfg0' = [cfg0 EXCEPT !.psc = p]
        \/ cfg0' = [cfg0 EXCEPT !.ppre1 = Next1.v]
        \/ cfg0' = [cfg0 EXCEPT !.sw = Next1.at]
    BY DEF ClockOp, p
  <2>2. (Next1.do = "psc" => Next1.v \in 0 .. 3) /\ (Next1.do = "scale" => p \in 0 .. 3)
    BY <1>2, <1>4 DEF Fits, p
  <2> QED
    BY <2>1, <2>2 DEF Settings
<1>8. wait' \in 0 .. 2
  BY <1>2 DEF ClockOp, Fits, Settings
<1> QED
  BY <1>2, <1>3, <1>5, <1>6, <1>7, <1>8 DEF Settings

(* An access to anything else, or the end of a program.                      *)
LEMMA OtherTypes ==
  ASSUME BoardInv, Settings, ChipOp \/ EnableOp \/ PinOp \/ UsbOp \/ TickOp \/ EnterLoop
  PROVE  Settings'
<1>1. todo # <<>> /\ Program
  BY DEF ChipOp, EnableOp, PinOp, UsbOp, TickOp, EnterLoop, Does, Program
<1>2. Fits(Next1) /\ Len(todo) \in Nat /\ Len(Tail(todo)) = Len(todo) - 1
  BY <1>1, NextFits
<1>3. stage' = "app" => AppOrder'
  BY <1>1, OrderKept
<1> HIDE DEF Next1
<1>4. UNCHANGED <<build, osc, cfg0, wait, low>>
  BY DEF ChipOp, EnableOp, PinOp, UsbOp, TickOp, EnterLoop, clock
<1>5. Len(todo') <= 50
  <2>1. todo' = Tail(todo) \/ todo' = <<>>
    BY DEF ChipOp, EnableOp, PinOp, UsbOp, TickOp, EnterLoop
  <2>2. Len(<<>>) = 0
    OBVIOUS
  <2> QED
    BY <1>2, <2>1, <2>2 DEF Settings
<1>6. clocked' \subseteq {"PA", "PB", "PC", "AF", "USB"}
  <2>1. clocked' = clocked \/ (Next1.do = "enable" /\ clocked' = clocked \cup {Next1.at})
    BY DEF ChipOp, EnableOp, PinOp, UsbOp, TickOp, EnterLoop, Does
  <2> QED
    BY <1>2, <2>1 DEF Fits, Settings
<1>7. cntr' \subseteq {"pdwn", "fres", "masks"}
  <2>1. \/ cntr' = cntr
        \/ Next1.do = "cntr" /\ cntr' = Next1.v
        \/ cntr' = cntr \ Next1.v
        \/ cntr' = {"pdwn", "fres"}
    BY DEF ChipOp, EnableOp, PinOp, UsbOp, TickOp, EnterLoop, pads
  <2> QED
    BY <1>2, <2>1 DEF Fits, Settings
<1>8. sysTick' \in 0 .. MaxTick /\ nextTick' \in Nat
  <2>1. \/ sysTick' = sysTick
        \/ sysTick' = 0
    BY DEF ChipOp, EnableOp, PinOp, UsbOp, TickOp, EnterLoop, timing
  <2>2. nextTick' = nextTick \/ nextTick' = sysTick + Period
    BY DEF ChipOp, EnableOp, PinOp, UsbOp, TickOp, EnterLoop, timing
  <2> QED
    BY <2>1, <2>2, BoardAssumption DEF Settings
<1> QED
  BY <1>3, <1>4, <1>5, <1>6, <1>7, <1>8 DEF Settings

(* The decision of stage 1, and the program it starts.                       *)
LEMMA ReadTypes == ASSUME BoardInv, Settings, ReadButton PROVE Settings'
<1>1. stage' = "app" => AppOrder'
  BY OrderKept DEF Program
<1>2. UNCHANGED <<build, osc, cfg0, wait, clocked, cntr, sysTick, nextTick, low>>
  BY DEF ReadButton, clock, pads, timing
<1>3. \/ todo' = Stage2Entry
      \/ todo' = InitSystemClock \o (IF build.external THEN EnableUsb48Mhz ELSE <<>>)
  BY DEF ReadButton
<1>4. Len(todo') <= 50
  BY <1>3, EntryLength, AppShape
<1> QED
  BY <1>1, <1>2, <1>4 DEF Settings

(* The three writes of the LEDs.                                             *)
LEMMA BlinkTypes == ASSUME BoardInv, Settings, Blink PROVE Settings'
<1> DEFINE bit == IF led THEN 1 ELSE 0
           a == Op("level", IF build.crystal THEN "PC13" ELSE "PA0", bit)
           b == Op("level", "PA8", bit)
           c == Op("level", "PB13", bit)
<1>1. todo' = (<<a>> \o <<b>>) \o <<c>>
  BY DEF Blink, DigitalWrite
<1>2. UNCHANGED <<build, stage, osc, cfg0, wait, clocked, cntr, sysTick, low>>
      /\ nextTick' = nextTick + Period /\ stage # "app"
  BY DEF Blink, clock, pads
<1> HIDE DEF a, b, c
<1>3. Len(todo') <= 50
  <2> DEFINE S == {a, b, c}
  <2>1. Within(S, <<a>>, 1) /\ Within(S, <<b>>, 1) /\ Within(S, <<c>>, 1)
    BY WithinSmall
  <2> HIDE DEF S
  <2>2. Within(S, <<a>> \o <<b>>, 2)
    BY <2>1, WithinGrows
  <2>3. Within(S, (<<a>> \o <<b>>) \o <<c>>, 3)
    BY <2>1, <2>2, WithinGrows
  <2> QED
    BY <1>1, <2>3, LenProperties DEF Within
<1> QED
  BY <1>2, <1>3, BoardAssumption DEF Settings

(* Every access keeps the types.                                             *)
LEMMA ProgramTypes == BoardInv /\ Settings /\ Program => Settings'
BY ClockTypes, OtherTypes, ReadTypes, BlinkTypes DEF Program

(* So does everything that happens around the program.                       *)
LEMMA AroundTypes ==
  ASSUME BoardInv, Settings, Stable \/ Switched \/ Tick \/ Press \/ UNCHANGED vars
  PROVE  Settings'
<1>1. UNCHANGED <<build, stage, todo, chip, wait, clocked, cntr, nextTick, SystemCoreClock>>
  BY DEF Stable, Switched, Tick, Press, vars, clock, pads, timing
<1>2. AppOrder => AppOrder'
  <2>1. UNCHANGED <<AppOps, ClockOps, Frequency, Core, Vendor>>
    BY <1>1, BuildFixed
  <2>2. \A list : (Rest(list) => Rest(list)') /\ (CoreFirst(list) => CoreFirst(list)')
    BY <1>1, <2>1 DEF Rest, CoreFirst
  <2> QED
    BY <1>1, <2>1, <2>2 DEF AppOrder
<1>3. osc' \in [Oscs -> {"off", "starting", "on"}]
  <2>1. osc' = osc \/ \E o \in Oscs : osc' = [osc EXCEPT ![o] = "on"]
    BY DEF Stable, Switched, Tick, Press, vars, clock, Oscs
  <2> QED
    BY <2>1 DEF Settings
<1>4. "psc" \in DOMAIN cfg0' /\ cfg0'.psc \in 0 .. 3
  <2>1. cfg0' = cfg0 \/ cfg0' = [cfg0 EXCEPT !.sws = cfg0.sw]
    BY DEF Stable, Switched, Tick, Press, vars, clock
  <2> QED
    BY <2>1 DEF Settings
<1>5. sysTick' \in 0 .. MaxTick /\ low' <= DelayMs + 1
  <2>1. low \in Nat /\ DelayMs \in Nat /\ MaxTick \in Nat
    BY BoardAssumption DEF BoardInv, Types
  <2>2. \/ UNCHANGED <<sysTick, low>>
        \/ /\ sysTick < MaxTick /\ sysTick' = sysTick + 1
           /\ low' = IF DPlusLow /\ low <= DelayMs THEN low + 1 ELSE low
    BY DEF Stable, Switched, Tick, Press, vars, timing
  <2> QED
    BY <2>1, <2>2 DEF Settings
<1> QED
  BY <1>1, <1>2, <1>3, <1>4, <1>5 DEF Settings

(* The types of a board that is switched on.                                 *)
LEMMA StartTypes == Init => Settings
<1>1. Init => "psc" \in DOMAIN cfg0 /\ cfg0.psc = 0
  BY DEF Init
<1>2. Init => osc \in [Oscs -> {"off", "starting", "on"}]
  BY DEF Init, Oscs
<1>3. Init => Len(todo) <= 50
  BY BootLists, BootLength DEF Init
<1> QED
  BY <1>1, <1>2, <1>3, BoardAssumption DEF Init, Settings

(* Those of one that is reset.                                               *)
LEMMA ResetTypes == Settings /\ Reset => Settings'
<1>1. Reset => "psc" \in DOMAIN cfg0' /\ cfg0'.psc = 0
  BY DEF Reset
<1>2. Reset => osc' \in [Oscs -> {"off", "starting", "on"}]
  BY DEF Reset, Oscs
<1>3. Reset => Len(todo') <= 50
  BY BootLists, BootLength DEF Reset
<1> QED
  BY <1>1, <1>2, <1>3, BoardAssumption DEF Reset, Settings

(* The types of every build: no program has more than fifty accesses, a      *)
(* write leaves every register in its range, and the prescaler of USB is a   *)
(* code that the chip has, since setPll has recorded the frequency and the   *)
(* chip is identified whenever enableUsb48Mhz computes it                    *)
(* (lnRCU_armgd32.cpp:51-96).                                                *)
THEOREM BoardTypeCorrect == Spec => []BoardTypeOK
<1>1. Init => BoardInv /\ Settings
  BY BoardStart, StartTypes
<1>2. BoardInv /\ Settings /\ [Next]_vars => (BoardInv /\ Settings)'
  <2>1. BoardInv /\ Settings /\ [Next]_vars => Settings'
    BY ProgramTypes, AroundTypes, ResetTypes DEF Next
  <2> QED
    BY <2>1, BoardStep
<1>3. BoardInv /\ Settings => BoardTypeOK
  BY DEF BoardInv, Settings, BoardTypeOK, Types, Oscs
<1> QED
  BY <1>1, <1>2, <1>3, PTL DEF Spec

-----------------------------------------------------------------------------
(* The settings.  Here the order of all accesses to the clock unit matters,  *)
(* so a list is followed from one landmark to the next: accesses of a set Z, *)
(* the landmark m, and the rest r.                                           *)
Leads(Z, m, r, list) == \E s \in Seq(Z) : list = s \o (<<m>> \o r)

(* The front of such a list.                                                 *)
LEMMA LeadsFront ==
  ASSUME NEW U, NEW Z, Z \subseteq U, NEW m \in U, NEW r \in Seq(U), NEW list,
         Leads(Z, m, r, list)
  PROVE  /\ list \in Seq(U) /\ list # <<>>
         /\ \/ Head(list) \in Z /\ Leads(Z, m, r, Tail(list))
            \/ Head(list) = m /\ Tail(list) = r
<1>1. PICK s \in Seq(Z) : list = s \o (<<m>> \o r)
  BY DEF Leads
<1>2. s \in Seq(U) /\ <<m>> \in Seq(U)
  BY SeqMonotonic, SmallLists
<1>3. <<m>> \o r \in Seq(U)
  BY <1>2, SmallLists
<1>4. list \in Seq(U)
  BY <1>1, <1>2, <1>3, SmallLists
<1>5. CASE s = <<>>
  <2>1. list = <<m>> \o r
    BY <1>1, <1>3, <1>5, ConcatEmptySeq
  <2>2. <<m>> # <<>> /\ Head(<<m>>) = m /\ Tail(<<m>>) = <<>>
    OBVIOUS
  <2>3. list # <<>> /\ Head(list) = m /\ Tail(list) = <<>> \o r
    BY <1>2, <2>1, <2>2, Front
  <2> QED
    BY <1>4, <2>3, ConcatEmptySeq
<1>6. CASE s # <<>>
  <2>1. list # <<>> /\ Head(list) = Head(s) /\ Tail(list) = Tail(s) \o (<<m>> \o r)
    BY <1>1, <1>2, <1>3, <1>6, Front
  <2>2. Head(s) \in Z /\ Tail(s) \in Seq(Z)
    BY <1>6, HeadTailProperties
  <2> QED
    BY <1>4, <2>1, <2>2 DEF Leads
<1> QED
  BY <1>5, <1>6

(* The landmark at the front.                                                *)
LEMMA LeadsNow ==
  ASSUME NEW U, NEW Z, NEW m \in U, NEW r \in Seq(U)
  PROVE  Leads(Z, m, r, <<m>> \o r)
<1>1. <<m>> \o r \in Seq(U)
  BY SmallLists
<1>2. <<>> \o (<<m>> \o r) = <<m>> \o r
  BY <1>1, ConcatEmptySeq
<1>3. <<>> \in Seq(Z)
  BY EmptySeq
<1> QED
  BY <1>2, <1>3, Zenon DEF Leads

(* More accesses of the set before it.                                       *)
LEMMA LeadsBefore ==
  ASSUME NEW U, NEW Z, Z \subseteq U, NEW m \in U, NEW r \in Seq(U), NEW list,
         Leads(Z, m, r, list), NEW a \in Seq(Z)
  PROVE  Leads(Z, m, r, a \o list)
<1>1. PICK s \in Seq(Z) : list = s \o (<<m>> \o r)
  BY DEF Leads
<1>2. s \in Seq(U) /\ a \in Seq(U) /\ <<m>> \in Seq(U)
  BY SeqMonotonic, SmallLists
<1>3. <<m>> \o r \in Seq(U)
  BY <1>2, SmallLists
<1>4. a \o (s \o (<<m>> \o r)) = (a \o s) \o (<<m>> \o r)
  BY <1>2, <1>3, ConcatAssociative
<1>5. a \o s \in Seq(Z)
  BY SmallLists
<1> QED
  BY <1>1, <1>4, <1>5, Zenon DEF Leads

(* More behind it.                                                           *)
LEMMA LeadsBehind ==
  ASSUME NEW U, NEW Z, Z \subseteq U, NEW m \in U, NEW r \in Seq(U), NEW list,
         Leads(Z, m, r, list), NEW b \in Seq(U)
  PROVE  Leads(Z, m, r \o b, list \o b)
<1>1. PICK s \in Seq(Z) : list = s \o (<<m>> \o r)
  BY DEF Leads
<1>2. s \in Seq(U) /\ <<m>> \in Seq(U)
  BY SeqMonotonic, SmallLists
<1>3. <<m>> \o r \in Seq(U)
  BY <1>2, SmallLists
<1>4. (s \o (<<m>> \o r)) \o b = s \o ((<<m>> \o r) \o b)
  BY <1>2, <1>3, ConcatAssociative
<1>5. (<<m>> \o r) \o b = <<m>> \o (r \o b)
  BY <1>2, ConcatAssociative
<1> QED
  BY <1>1, <1>4, <1>5, Zenon DEF Leads

(* The clock set-up of stage 2 from the end: the accesses that leave the     *)
(* clocks alone; in a crystal-less build the IRC48M; the switch to the PLL;  *)
(* the wait states; and the PLL's source and factor                          *)
(* (clocking.h:60-90, 103-139).                                              *)
StartOps(c) == {Op("start", c, 0), Op("await", c, 0)}
BusOps == {Op("psc", "usb", 0), Op("ppre1", "apb1", 2)}
CalmOps == {o \in StageTwoOps : o.do \in {"enable", "zero", "tick", "cntr", "mode", "level",
                                          "target", "sleep", "pageSize", "reset", "clear", "loop"}}
Source == IF build.crystal THEN "hse" ELSE "hsi"
PllTimes9 == Op("pll", Source, 9)
TwoWaits == Op("wait", "flash", 2)
ToPll == Op("switch", "pll", 0)
UseIrc48 == Op("usbsel", "irc48", 0)

Clocked(list) ==
  IF build.crystal THEN list \in Seq(CalmOps)
  ELSE \E r \in Seq(CalmOps) : Leads(StartOps("irc48"), UseIrc48, r, list)
Waited(list) == \E r : Clocked(r) /\ Leads(StartOps("pll"), ToPll, r, list)
Divided(list) == \E r : Waited(r) /\ Leads(BusOps, TwoWaits, r, list)
Unset(list) == \E r : Divided(r) /\ Leads(StartOps("hse"), PllTimes9, r, list)

(* All of these are accesses of stage 2.                                     *)
LEMMA ClockSets ==
  /\ CalmOps \subseteq StageTwoOps /\ BusOps \subseteq StageTwoOps
  /\ StartOps("hse") \subseteq StageTwoOps /\ StartOps("pll") \subseteq StageTwoOps
  /\ StartOps("irc48") \subseteq StageTwoOps
  /\ PllTimes9 \in StageTwoOps /\ TwoWaits \in StageTwoOps /\ ToPll \in StageTwoOps
  /\ UseIrc48 \in StageTwoOps
<1>1. EarlyOps \subseteq StageTwoOps
  BY DEF StageTwoOps
<1>2. /\ BusOps \subseteq EarlyOps
      /\ StartOps("hse") \subseteq EarlyOps /\ StartOps("pll") \subseteq EarlyOps
      /\ StartOps("irc48") \subseteq EarlyOps
      /\ PllTimes9 \in EarlyOps /\ TwoWaits \in EarlyOps /\ ToPll \in EarlyOps
      /\ UseIrc48 \in EarlyOps
  BY DEF EarlyOps, BusOps, StartOps, PllTimes9, Source, TwoWaits, ToPll, UseIrc48
<1> QED
  BY <1>1, <1>2 DEF CalmOps

(* So are the lists.                                                         *)
LEMMA ClockSeqs ==
  \A list : Clocked(list) \/ Waited(list) \/ Divided(list) \/ Unset(list)
              => list \in Seq(StageTwoOps)
<1>1. \A list : list \in Seq(CalmOps) => list \in Seq(StageTwoOps)
  BY ClockSets, SeqMonotonic
<1>2. \A list : Clocked(list) => list \in Seq(StageTwoOps)
  BY <1>1, ClockSets, LeadsFront DEF Clocked
<1>3. \A list : Waited(list) => list \in Seq(StageTwoOps)
  BY <1>2, ClockSets, LeadsFront DEF Waited
<1>4. \A list : Divided(list) => list \in Seq(StageTwoOps)
  BY <1>3, ClockSets, LeadsFront DEF Divided
<1>5. \A list : Unset(list) => list \in Seq(StageTwoOps)
  BY <1>4, ClockSets, LeadsFront DEF Unset
<1> QED
  BY <1>2, <1>3, <1>4, <1>5

(* Accesses that leave the clocks alone may follow.                          *)
LEMMA ClockGrows ==
  ASSUME NEW b \in Seq(CalmOps)
  PROVE  \A list : /\ Clocked(list) => Clocked(list \o b)
                   /\ Waited(list) => Waited(list \o b)
                   /\ Divided(list) => Divided(list \o b)
                   /\ Unset(list) => Unset(list \o b)
<1>1. b \in Seq(StageTwoOps)
  BY ClockSets, SeqMonotonic
<1>2. ASSUME NEW list, Clocked(list) PROVE Clocked(list \o b)
  <2>1. CASE build.crystal
    BY <1>2, <2>1, SmallLists DEF Clocked
  <2>2. CASE ~build.crystal
    <3>1. PICK r \in Seq(CalmOps) : Leads(StartOps("irc48"), UseIrc48, r, list)
      BY <1>2, <2>2 DEF Clocked
    <3>2. r \in Seq(StageTwoOps) /\ r \o b \in Seq(CalmOps)
      BY ClockSets, SeqMonotonic, SmallLists
    <3>3. Leads(StartOps("irc48"), UseIrc48, r \o b, list \o b)
      BY <1>1, <3>1, <3>2, ClockSets, LeadsBehind
    <3> QED
      BY <2>2, <3>2, <3>3 DEF Clocked
  <2> QED
    BY <2>1, <2>2
<1>3. ASSUME NEW list, Waited(list) PROVE Waited(list \o b)
  <2>1. PICK r : Clocked(r) /\ Leads(StartOps("pll"), ToPll, r, list)
    BY <1>3 DEF Waited
  <2>2. Leads(StartOps("pll"), ToPll, r \o b, list \o b)
    BY <1>1, <2>1, ClockSets, ClockSeqs, LeadsBehind
  <2> QED
    BY <1>2, <2>1, <2>2 DEF Waited
<1>4. ASSUME NEW list, Divided(list) PROVE Divided(list \o b)
  <2>1. PICK r : Waited(r) /\ Leads(BusOps, TwoWaits, r, list)
    BY <1>4 DEF Divided
  <2>2. Leads(BusOps, TwoWaits, r \o b, list \o b)
    BY <1>1, <2>1, ClockSets, ClockSeqs, LeadsBehind
  <2> QED
    BY <1>3, <2>1, <2>2 DEF Divided
<1>5. ASSUME NEW list, Unset(list) PROVE Unset(list \o b)
  <2>1. PICK r : Divided(r) /\ Leads(StartOps("hse"), PllTimes9, r, list)
    BY <1>5 DEF Unset
  <2>2. Leads(StartOps("hse"), PllTimes9, r \o b, list \o b)
    BY <1>1, <2>1, ClockSets, ClockSeqs, LeadsBehind
  <2> QED
    BY <1>4, <2>1, <2>2 DEF Unset
<1> QED
  BY <1>2, <1>3, <1>4, <1>5

(* Both set-ups have the landmarks up to the switch.                         *)
UpToSwitch(t, list) ==
  \E r, q \in Seq(StageTwoOps) :
     /\ Leads(StartOps("hse"), PllTimes9, q, list)
     /\ Leads(BusOps, TwoWaits, r, q)
     /\ Leads(StartOps("pll"), ToPll, t, r)

(* A list of two behind one.                                                 *)
LEMMA Join12 == ASSUME NEW a, NEW b, NEW c PROVE <<a>> \o <<b, c>> = <<a, b, c>>
<1> DEFINE S == {a, b, c}
           s == <<a>> \o <<b, c>>
           t == <<a, b, c>>
<1>1. <<a>> \in Seq(S) /\ <<b, c>> \in Seq(S) /\ t \in Seq(S) /\ Len(t) = 3
  OBVIOUS
<1>2. s \in Seq(S) /\ Len(s) = 3 /\ \A i \in 1 .. 3 : s[i] = t[i]
  BY <1>1
<1> HIDE DEF s, t, S
<1>3. s = t
  BY <1>1, <1>2, SeqEqual
<1> QED
  BY <1>3 DEF s, t

(* More may follow.                                                          *)
LEMMA UpGrows ==
  ASSUME NEW t \in Seq(StageTwoOps), NEW list, UpToSwitch(t, list), NEW b \in Seq(StageTwoOps)
  PROVE  UpToSwitch(t \o b, list \o b)
<1>1. PICK r, q \in Seq(StageTwoOps) :
         /\ Leads(StartOps("hse"), PllTimes9, q, list)
         /\ Leads(BusOps, TwoWaits, r, q)
         /\ Leads(StartOps("pll"), ToPll, t, r)
  BY DEF UpToSwitch
<1>2. Leads(StartOps("hse"), PllTimes9, q \o b, list \o b)
  BY <1>1, ClockSets, LeadsBehind
<1>3. Leads(BusOps, TwoWaits, r \o b, q \o b)
  BY <1>1, ClockSets, LeadsBehind
<1>4. Leads(StartOps("pll"), ToPll, t \o b, r \o b)
  BY <1>1, ClockSets, LeadsBehind
<1>5. r \o b \in Seq(StageTwoOps) /\ q \o b \in Seq(StageTwoOps)
  BY SmallLists
<1> QED
  BY <1>2, <1>3, <1>4, <1>5, Zenon DEF UpToSwitch

(* What both set-ups have in common.                                         *)
LEMMA UpStarts ==
  ASSUME NEW a \in Seq(StartOps("hse"))
  PROVE  UpToSwitch(<<>>, (((a \o Cfg0Word(Source)) \o <<TwoWaits>>) \o Start("pll")) \o <<ToPll>>)
<1> DEFINE U == StageTwoOps
           H == StartOps("hse")
           P == StartOps("pll")
           b == <<Op("psc", "usb", 0), Op("ppre1", "apb1", 2)>>
           s == Start("pll")
           l1 == a \o Cfg0Word(Source)
           l2 == l1 \o <<TwoWaits>>
           l3 == l2 \o s
           l4 == l3 \o <<ToPll>>
           q1 == b \o <<TwoWaits>>
           q2 == q1 \o s
           q3 == q2 \o <<ToPll>>
           r2 == s \o <<ToPll>>
<1>1. b \in Seq(BusOps) /\ s \in Seq(P)
  BY SmallLists DEF BusOps, StartOps, Start
<1>2. Cfg0Word(Source) = <<PllTimes9>> \o b
  BY Join12, Zenon DEF Cfg0Word, Pll, PllTimes9
<1> HIDE DEF b, s
<1>u. /\ b \in Seq(U) /\ s \in Seq(U) /\ a \in Seq(U) /\ <<>> \in Seq(U)
      /\ <<TwoWaits>> \in Seq(U) /\ <<ToPll>> \in Seq(U)
      /\ H \subseteq U /\ P \subseteq U /\ BusOps \subseteq U
      /\ PllTimes9 \in U /\ TwoWaits \in U /\ ToPll \in U
  BY <1>1, ClockSets, SeqMonotonic, SmallLists, EmptySeq
<1> HIDE DEF U, H, P
<1>v. q1 \in Seq(U) /\ q2 \in Seq(U) /\ q3 \in Seq(U) /\ r2 \in Seq(U)
  BY <1>u, SmallLists
<1>3. Leads(H, PllTimes9, b, <<PllTimes9>> \o b)
  BY <1>u, LeadsNow
<1>4. Leads(H, PllTimes9, b, l1)
  BY <1>2, <1>3, <1>u, LeadsBefore DEF H
<1> HIDE DEF l1, q1, q2, q3, r2
<1>5. Leads(H, PllTimes9, q1, l2)
  BY <1>4, <1>u, LeadsBehind DEF q1
<1> HIDE DEF l2
<1>6. Leads(H, PllTimes9, q2, l3)
  BY <1>5, <1>u, <1>v, LeadsBehind DEF q2
<1> HIDE DEF l3
<1>7. Leads(H, PllTimes9, q3, l4)
  BY <1>6, <1>u, <1>v, LeadsBehind DEF q3
<1>8. Leads(BusOps, TwoWaits, <<>>, q1)
  <2>1. Leads(BusOps, TwoWaits, <<>>, <<TwoWaits>> \o <<>>)
    BY <1>u, LeadsNow
  <2>2. <<TwoWaits>> \o <<>> = <<TwoWaits>>
    BY <1>u, ConcatEmptySeq
  <2> QED
    BY <1>1, <1>u, <2>1, <2>2, LeadsBefore DEF q1
<1>9. Leads(BusOps, TwoWaits, s, q2)
  <2>1. Leads(BusOps, TwoWaits, <<>> \o s, q2)
    BY <1>8, <1>u, LeadsBehind DEF q2
  <2> QED
    BY <1>u, <2>1, ConcatEmptySeq
<1>10. Leads(BusOps, TwoWaits, r2, q3)
  BY <1>9, <1>u, LeadsBehind DEF q3, r2
<1>11. Leads(P, ToPll, <<>>, r2)
  <2>1. Leads(P, ToPll, <<>>, <<ToPll>> \o <<>>)
    BY <1>u, LeadsNow
  <2>2. <<ToPll>> \o <<>> = <<ToPll>>
    BY <1>u, ConcatEmptySeq
  <2> QED
    BY <1>1, <1>u, <2>1, <2>2, LeadsBefore DEF r2
<1> QED
  BY <1>7, <1>10, <1>11, <1>v, Zenon DEF UpToSwitch, l1, l2, l3, l4, s, U, H, P

(* The set-up of either build has all of its landmarks.                      *)
LEMMA SetupOrder == Unset(IF build.crystal THEN ClockFromCrystal ELSE ClockFromRc)
<1>1. \A t, list : Clocked(t) /\ UpToSwitch(t, list) => Unset(list)
  BY DEF UpToSwitch, Unset, Divided, Waited
<1>2. CASE build.crystal
  <2>1. Start("hse") \in Seq(StartOps("hse"))
    BY SmallLists DEF Start, StartOps
  <2>2. UpToSwitch(<<>>, ClockFromCrystal)
    <3>1. Source = "hse"
      BY <1>2 DEF Source
    <3> QED
      BY <2>1, <3>1, UpStarts, Zenon DEF ClockFromCrystal, TwoWaits, ToPll, WaitStates, Switch
  <2>3. Clocked(<<>>)
    BY <1>2, EmptySeq DEF Clocked
  <2> QED
    BY <1>1, <1>2, <2>2, <2>3
<1>3. CASE ~build.crystal
  <2> DEFINE i == Start("irc48")
             u == <<UseIrc48>>
             l == ((Cfg0Word("hsi") \o <<TwoWaits>>) \o Start("pll")) \o <<ToPll>>
  <2>1. i \in Seq(StartOps("irc48"))
    BY SmallLists DEF Start, StartOps
  <2>2. ClockFromRc = (l \o i) \o u
    BY DEF ClockFromRc, TwoWaits, ToPll, WaitStates, Switch, UseIrc48
  <2>3. UpToSwitch(<<>>, l)
    <3>1. Source = "hsi"
      BY <1>3 DEF Source
    <3>2. UpToSwitch(<<>>, (((<<>> \o Cfg0Word("hsi")) \o <<TwoWaits>>) \o Start("pll"))
                             \o <<ToPll>>)
      BY <3>1, UpStarts, EmptySeq
    <3>3. <<>> \o Cfg0Word("hsi") = Cfg0Word("hsi")
      BY SmallLists, ConcatEmptySeq DEF Cfg0Word
    <3> QED
      BY <3>2, <3>3
  <2> HIDE DEF i, l
  <2>4. i \in Seq(StageTwoOps) /\ u \in Seq(StageTwoOps) /\ <<>> \in Seq(StageTwoOps)
    BY <2>1, ClockSets, SeqMonotonic, SmallLists, EmptySeq
  <2>5. UpToSwitch(i, l \o i)
    <3>1. UpToSwitch(<<>> \o i, l \o i)
      BY <2>3, <2>4, UpGrows
    <3> QED
      BY <2>4, <3>1, ConcatEmptySeq
  <2>6. UpToSwitch(i \o u, (l \o i) \o u)
    BY <2>4, <2>5, UpGrows
  <2>7. Clocked(i \o u)
    <3>1. Leads(StartOps("irc48"), UseIrc48, <<>>, <<UseIrc48>> \o <<>>)
      BY <2>4, ClockSets, LeadsNow
    <3>2. u = <<UseIrc48>> \o <<>>
      BY <2>4, ConcatEmptySeq
    <3>3. Leads(StartOps("irc48"), UseIrc48, <<>>, i \o u)
      BY <2>1, <2>4, <3>1, <3>2, ClockSets, LeadsBefore
    <3> QED
      BY <1>3, <3>3, EmptySeq DEF Clocked
  <2> QED
    BY <1>1, <1>3, <2>2, <2>6, <2>7
<1> QED
  BY <1>2, <1>3

(* The page size is asked for once, before the loop (dfu.cpp:495), and the   *)
(* chip is identified before.                                                *)
PageSize == Op("pageSize", "page", 0)
NoChip == {o \in StageTwoOps : o.do \notin {"identify", "isGd32", "pageSize"}}
ChipFree == {o \in NoChip : o.do # "loop"}
Paged(list) == \E r \in Seq(NoChip) : Leads(ChipFree, PageSize, r, list)

(* More may come before or follow.                                           *)
LEMMA PagedGrows ==
  ASSUME NEW list, Paged(list)
  PROVE  /\ list \in Seq(StageTwoOps)
         /\ \A a \in Seq(ChipFree) : Paged(a \o list)
         /\ \A b \in Seq(NoChip) : Paged(list \o b)
<1>1. PICK r \in Seq(NoChip) : Leads(ChipFree, PageSize, r, list)
  BY DEF Paged
<1>2. /\ ChipFree \subseteq StageTwoOps /\ NoChip \subseteq StageTwoOps
      /\ PageSize \in StageTwoOps
  BY DEF ChipFree, NoChip, PageSize, StageTwoOps, LateOps
<1>3. r \in Seq(StageTwoOps)
  BY <1>2, SeqMonotonic
<1>4. list \in Seq(StageTwoOps)
  BY <1>1, <1>2, <1>3, LeadsFront
<1>5. ASSUME NEW a \in Seq(ChipFree) PROVE Paged(a \o list)
  <2>1. Leads(ChipFree, PageSize, r, a \o list)
    BY <1>1, <1>2, <1>3, LeadsBefore
  <2> QED
    BY <2>1 DEF Paged
<1>6. ASSUME NEW b \in Seq(NoChip) PROVE Paged(list \o b)
  <2>1. b \in Seq(StageTwoOps)
    BY <1>2, SeqMonotonic
  <2>2. Leads(ChipFree, PageSize, r \o b, list \o b)
    BY <1>1, <1>2, <1>3, <2>1, LeadsBehind
  <2>3. r \o b \in Seq(NoChip)
    BY SmallLists
  <2> QED
    BY <2>2, <2>3 DEF Paged
<1> QED
  BY <1>4, <1>5, <1>6

(* Which accesses leave the chip's identity and the clocks alone.            *)
LEMMA FreeFacts ==
  /\ Op("level", DPlus, 1) \in ChipFree /\ Op("mode", DPlus, "floating") \in ChipFree
  /\ Op("loop", "", 0) \in NoChip
  /\ Op("enable", "USB", 0) \in ChipFree /\ Op("reset", "USB", 0) \in ChipFree
  /\ Op("clear", "USB", {"pdwn"}) \in ChipFree /\ Op("clear", "USB", {"fres"}) \in ChipFree
  /\ Op("cntr", "USB", {}) \in ChipFree /\ Op("cntr", "USB", {"masks"}) \in ChipFree
  /\ \A p \in {"PC13", "PA0", "PA8", "PB13"} :
        Op("mode", p, "output") \in ChipFree /\ \A bit \in {0, 1} : Op("level", p, bit) \in ChipFree
  /\ Pull \in ChipFree /\ Low \in ChipFree /\ Target \in ChipFree /\ Sleep \in ChipFree
<1>1. LateOps \subseteq StageTwoOps /\ HoldOps \subseteq StageTwoOps
  BY DEF StageTwoOps
<1>2. /\ Op("level", DPlus, 1) \in LateOps /\ Op("mode", DPlus, "floating") \in LateOps
      /\ Op("enable", "USB", 0) \in LateOps /\ Op("reset", "USB", 0) \in LateOps
      /\ Op("loop", "", 0) \in LateOps
      /\ Op("clear", "USB", {"pdwn"}) \in LateOps /\ Op("clear", "USB", {"fres"}) \in LateOps
      /\ Op("cntr", "USB", {}) \in LateOps /\ Op("cntr", "USB", {"masks"}) \in LateOps
  BY DEF LateOps
<1>3. \A p \in {"PC13", "PA0", "PA8", "PB13"} :
        Op("mode", p, "output") \in LateOps /\ \A bit \in {0, 1} : Op("level", p, bit) \in LateOps
  BY DEF Op, LateOps
<1>4. Pull \in HoldOps /\ Low \in HoldOps /\ Target \in HoldOps /\ Sleep \in HoldOps
  BY DEF HoldOps
<1> HIDE DEF LateOps, HoldOps
<1>5. Op("loop", "", 0).do = "loop"
  BY Fields, Zenon
<1>6. Op("loop", "", 0) \in NoChip
  BY <1>1, <1>2, <1>5 DEF NoChip
<1>7. \A p \in {"PC13", "PA0", "PA8", "PB13"} :
        Op("mode", p, "output") \in ChipFree /\ \A bit \in {0, 1} : Op("level", p, bit) \in ChipFree
  BY <1>1, <1>3, Fields DEF NoChip, ChipFree
<1>8. Pull \in ChipFree /\ Low \in ChipFree /\ Target \in ChipFree /\ Sleep \in ChipFree
  BY <1>1, <1>4, HoldFacts DEF NoChip, ChipFree
<1>f. ASSUME NEW do \in {"level", "mode", "enable", "reset", "clear", "cntr"}, NEW at, NEW v,
             Op(do, at, v) \in LateOps
      PROVE  Op(do, at, v) \in ChipFree
  BY <1>1, <1>f, Fields DEF NoChip, ChipFree
<1>9. /\ Op("level", DPlus, 1) \in ChipFree /\ Op("mode", DPlus, "floating") \in ChipFree
      /\ Op("enable", "USB", 0) \in ChipFree /\ Op("reset", "USB", 0) \in ChipFree
  BY <1>2, <1>f
<1>10. /\ Op("clear", "USB", {"pdwn"}) \in ChipFree /\ Op("clear", "USB", {"fres"}) \in ChipFree
       /\ Op("cntr", "USB", {}) \in ChipFree /\ Op("cntr", "USB", {"masks"}) \in ChipFree
  BY <1>2, <1>f
<1> QED
  BY <1>6, <1>7, <1>8, <1>9, <1>10

(* So runDfu knows the page size when it enters its loop.                    *)
LEMMA RunPaged == Paged(RunDfu)
<1> DEFINE ledPin == IF build.crystal THEN "PC13" ELSE "PA0"
           L0 == PinMode(DPlus, "output") \o DigitalWrite(DPlus, 0) \o Delay(DelayMs)
           L1 == L0 \o DigitalWrite(DPlus, 1)
           L2 == L1 \o PinMode(DPlus, "floating")
           L3 == L2 \o <<Op("pageSize", "page", 0)>>
           L4 == L3 \o UsbInit
           L5 == L4 \o PinMode(ledPin, "output")
           L6 == L5 \o PinMode("PA8", "output")
           L7 == L6 \o PinMode("PB13", "output")
           L8 == L7 \o <<Op("loop", "", 0)>>
<1>1. RunDfu = L8
  BY DEF RunDfu
<1>2. ledPin \in {"PC13", "PA0", "PA8", "PB13"}
  OBVIOUS
<1>3. \A p \in {"PC13", "PA0", "PA8", "PB13"} : PinMode(p, "output") = <<Op("mode", p, "output")>>
  BY DEF PinMode
<1>4. /\ PinMode(ledPin, "output") \in Seq(NoChip) /\ PinMode("PA8", "output") \in Seq(NoChip)
      /\ PinMode("PB13", "output") \in Seq(NoChip)
  <2> HIDE DEF ledPin
  <2>1. \A p \in {"PC13", "PA0", "PA8", "PB13"} : Op("mode", p, "output") \in NoChip
    BY FreeFacts DEF ChipFree
  <2> QED
    BY <1>2, <1>3, <2>1, SmallLists
<1>5. L2 \in Seq(ChipFree)
  <2>1. PinMode(DPlus, "output") = <<Pull>> /\ DigitalWrite(DPlus, 0) = <<Low>>
        /\ Delay(DelayMs) = <<Target, Sleep>> /\ DigitalWrite(DPlus, 1) = <<Op("level", DPlus, 1)>>
        /\ PinMode(DPlus, "floating") = <<Op("mode", DPlus, "floating")>>
    BY DEF PinMode, DigitalWrite, Delay, Pull, Low, Target, Sleep
  <2>2. /\ <<Pull>> \in Seq(ChipFree) /\ <<Low>> \in Seq(ChipFree)
        /\ <<Target, Sleep>> \in Seq(ChipFree)
        /\ <<Op("level", DPlus, 1)>> \in Seq(ChipFree)
        /\ <<Op("mode", DPlus, "floating")>> \in Seq(ChipFree)
    BY FreeFacts, SmallLists
  <2>3. L0 \in Seq(ChipFree)
    BY <2>1, <2>2, SmallLists
  <2> HIDE DEF L0
  <2> QED
    BY <2>1, <2>2, <2>3, SmallLists
<1>6. UsbInit \in Seq(NoChip)
  <2> DEFINE a == Op("reset", "USB", 0)
             b == Op("clear", "USB", {"pdwn"})
             c == Op("clear", "USB", {"fres"})
             d == Op("cntr", "USB", {})
             e == Op("cntr", "USB", {"masks"})
  <2>1. Enable("USB") \in Seq(NoChip)
    BY FreeFacts, SmallLists DEF Enable, ChipFree
  <2>2. a \in NoChip /\ b \in NoChip /\ c \in NoChip /\ d \in NoChip /\ e \in NoChip
    BY FreeFacts DEF ChipFree
  <2>3. UsbInit = Enable("USB") \o <<a, b, c, d, e>>
    BY DEF UsbInit
  <2> HIDE DEF a, b, c, d, e
  <2>4. <<a, b, c, d, e>> \in Seq(NoChip)
    BY <2>2
  <2> QED
    BY <2>1, <2>3, <2>4, SmallLists
<1> HIDE DEF L2, ledPin
<1>7. Paged(L3)
  <2>1. ChipFree \subseteq StageTwoOps /\ PageSize \in StageTwoOps
    BY DEF ChipFree, NoChip, PageSize, StageTwoOps, LateOps
  <2>2. <<>> \in Seq(StageTwoOps) /\ <<>> \in Seq(NoChip)
    BY EmptySeq
  <2>3. Leads(ChipFree, PageSize, <<>>, <<PageSize>> \o <<>>)
    BY <2>1, <2>2, LeadsNow
  <2>4. <<PageSize>> \o <<>> = <<PageSize>>
    BY <2>1, SmallLists, ConcatEmptySeq
  <2>5. Leads(ChipFree, PageSize, <<>>, L2 \o <<PageSize>>)
    BY <1>5, <2>1, <2>2, <2>3, <2>4, LeadsBefore
  <2> QED
    BY <2>2, <2>5 DEF Paged, PageSize
<1> HIDE DEF L3
<1>8. Paged(L4)
  BY <1>6, <1>7, PagedGrows
<1> HIDE DEF L4
<1>9. Paged(L5)
  BY <1>4, <1>8, PagedGrows
<1> HIDE DEF L5
<1>10. Paged(L6)
  BY <1>4, <1>9, PagedGrows
<1> HIDE DEF L6
<1>11. Paged(L7)
  BY <1>4, <1>10, PagedGrows
<1> HIDE DEF L7
<1>12. Paged(L8)
  <2>1. <<Op("loop", "", 0)>> \in Seq(NoChip)
    BY FreeFacts, SmallLists
  <2> QED
    BY <1>11, <2>1, PagedGrows
<1> QED
  BY <1>1, <1>12

(* The clock set-ups and the rest of setupForUsb are free of them, too.      *)
LEMMA SetupFree ==
  /\ ClockFromCrystal \in Seq(ChipFree) /\ ClockFromRc \in Seq(ChipFree)
  /\ \A p \in {"PA", "PB", "PC", "AF", "USB"} :
        Enable(p) \in Seq(CalmOps) /\ Enable(p) \in Seq(ChipFree)
  /\ \A on \in BOOLEAN : TickControl(on) \in Seq(CalmOps) /\ TickControl(on) \in Seq(ChipFree)
  /\ <<Op("zero", "tick", 0)>> \in Seq(CalmOps) /\ <<Op("zero", "tick", 0)>> \in Seq(ChipFree)
  /\ <<Op("cntr", "USB", {"pdwn"})>> \in Seq(CalmOps)
  /\ <<Op("cntr", "USB", {"pdwn"})>> \in Seq(ChipFree)
<1> DEFINE F == {"start", "await", "usbsel", "pll", "psc", "ppre1", "wait", "switch"}
           D == {"zero", "tick", "enable", "cntr"}
<1>1. EarlyOps \subseteq StageTwoOps /\ PortA \in StageTwoOps
  BY DEF StageTwoOps
<1>2. ASSUME NEW do \in F \cup D, NEW at, NEW v, Op(do, at, v) \in StageTwoOps
      PROVE  Op(do, at, v) \in ChipFree /\ (do \in D => Op(do, at, v) \in CalmOps)
  BY <1>2, Fields DEF NoChip, ChipFree, CalmOps
<1>3. /\ Op("start", "hse", 0) \in EarlyOps /\ Op("await", "hse", 0) \in EarlyOps
      /\ Op("start", "pll", 0) \in EarlyOps /\ Op("await", "pll", 0) \in EarlyOps
      /\ Op("start", "irc48", 0) \in EarlyOps /\ Op("await", "irc48", 0) \in EarlyOps
      /\ Op("pll", "hse", 9) \in EarlyOps /\ Op("pll", "hsi", 9) \in EarlyOps
      /\ Op("psc", "usb", 0) \in EarlyOps /\ Op("ppre1", "apb1", 2) \in EarlyOps
      /\ Op("wait", "flash", 2) \in EarlyOps /\ Op("switch", "pll", 0) \in EarlyOps
      /\ Op("usbsel", "irc48", 0) \in EarlyOps
  BY DEF EarlyOps
<1>4. /\ Op("enable", "PB", 0) \in EarlyOps /\ Op("enable", "PC", 0) \in EarlyOps
      /\ Op("enable", "AF", 0) \in EarlyOps /\ Op("enable", "USB", 0) \in EarlyOps
      /\ Op("zero", "tick", 0) \in EarlyOps /\ Op("tick", "tick", FALSE) \in EarlyOps
      /\ Op("tick", "tick", TRUE) \in EarlyOps /\ Op("cntr", "USB", {"pdwn"}) \in EarlyOps
      /\ Op("enable", "PA", 0) \in StageTwoOps
  BY <1>1 DEF EarlyOps, PortA
<1> HIDE DEF EarlyOps
<1>5. /\ Op("start", "hse", 0) \in ChipFree /\ Op("await", "hse", 0) \in ChipFree
      /\ Op("start", "pll", 0) \in ChipFree /\ Op("await", "pll", 0) \in ChipFree
      /\ Op("start", "irc48", 0) \in ChipFree /\ Op("await", "irc48", 0) \in ChipFree
      /\ Op("pll", "hse", 9) \in ChipFree /\ Op("pll", "hsi", 9) \in ChipFree
      /\ Op("psc", "usb", 0) \in ChipFree /\ Op("ppre1", "apb1", 2) \in ChipFree
      /\ Op("wait", "flash", 2) \in ChipFree /\ Op("switch", "pll", 0) \in ChipFree
      /\ Op("usbsel", "irc48", 0) \in ChipFree
  BY <1>1, <1>2, <1>3
<1>6. \A p \in {"PA", "PB", "PC", "AF", "USB"} :
         Op("enable", p, 0) \in ChipFree /\ Op("enable", p, 0) \in CalmOps
  BY <1>1, <1>2, <1>4
<1>7. /\ Op("zero", "tick", 0) \in ChipFree /\ Op("zero", "tick", 0) \in CalmOps
      /\ Op("cntr", "USB", {"pdwn"}) \in ChipFree /\ Op("cntr", "USB", {"pdwn"}) \in CalmOps
  BY <1>1, <1>2, <1>4
<1>8. \A on \in BOOLEAN :
         Op("tick", "tick", on) \in ChipFree /\ Op("tick", "tick", on) \in CalmOps
  <2>1. Op("tick", "tick", TRUE) \in ChipFree /\ Op("tick", "tick", TRUE) \in CalmOps
    BY <1>1, <1>2, <1>4
  <2>2. Op("tick", "tick", FALSE) \in ChipFree /\ Op("tick", "tick", FALSE) \in CalmOps
    BY <1>1, <1>2, <1>4
  <2> QED
    BY <2>1, <2>2, Zenon
<1> HIDE DEF F, D
<1>9. /\ Start("hse") \in Seq(ChipFree) /\ Start("pll") \in Seq(ChipFree)
      /\ Start("irc48") \in Seq(ChipFree)
      /\ Cfg0Word("hse") \in Seq(ChipFree) /\ Cfg0Word("hsi") \in Seq(ChipFree)
      /\ <<WaitStates(2)>> \in Seq(ChipFree) /\ <<Switch("pll")>> \in Seq(ChipFree)
      /\ <<Op("usbsel", "irc48", 0)>> \in Seq(ChipFree)
  BY <1>5, SmallLists DEF Start, Cfg0Word, Pll, WaitStates, Switch
<1>10. ClockFromCrystal \in Seq(ChipFree)
  BY <1>9, SmallLists DEF ClockFromCrystal
<1>11. ClockFromRc \in Seq(ChipFree)
  BY <1>9, SmallLists DEF ClockFromRc
<1>12. \A p \in {"PA", "PB", "PC", "AF", "USB"} :
          Enable(p) \in Seq(CalmOps) /\ Enable(p) \in Seq(ChipFree)
  BY <1>6, SmallLists DEF Enable
<1>13. \A on \in BOOLEAN : TickControl(on) \in Seq(CalmOps) /\ TickControl(on) \in Seq(ChipFree)
  BY <1>8, SmallLists DEF TickControl
<1> QED
  BY <1>7, <1>10, <1>11, <1>12, <1>13, SmallLists

(* The rest of stage 2 leaves the clocks alone.                              *)
LEMMA RunCalm == RunDfu \in Seq(CalmOps)
<1>1. PICK r \in Seq(LateOps) : RunDfu = Hold4 \o r
  BY DfuList DEF Follows
<1>2. \A o \in LateOps : o.do \in {"enable", "mode", "level", "pageSize", "reset", "clear", "cntr",
                                  "loop"}
  <2> SUFFICES ASSUME NEW o \in LateOps
               PROVE  o.do \in {"enable", "mode", "level", "pageSize", "reset", "clear", "cntr",
                                "loop"}
    OBVIOUS
  <2>1. CASE o \in [do : {"mode"}, at : {"PC13", "PA0", "PA8", "PB13"}, v : {"output"}]
             \/ o \in [do : {"level"}, at : {"PC13", "PA0", "PA8", "PB13"}, v : {0, 1}]
    BY <2>1
  <2>2. CASE o \in {Op("level", DPlus, 1), Op("mode", DPlus, "floating"),
                    Op("pageSize", "page", 0)}
    BY <2>2, Fields
  <2>3. CASE o \in {Op("enable", "USB", 0), Op("reset", "USB", 0), Op("clear", "USB", {"pdwn"}),
                    Op("clear", "USB", {"fres"}), Op("cntr", "USB", {}),
                    Op("cntr", "USB", {"masks"})}
    BY <2>3, Fields
  <2>4. CASE o = Op("loop", "", 0)
    <3>1. o.do = "loop"
      BY <2>4, Fields, Zenon
    <3> QED
      BY <3>1
  <2> QED
    BY <2>1, <2>2, <2>3, <2>4 DEF LateOps
<1>3. LateOps \subseteq CalmOps
  BY <1>2 DEF CalmOps, StageTwoOps
<1>4. Pull \in CalmOps /\ Low \in CalmOps /\ Target \in CalmOps /\ Sleep \in CalmOps
  BY FreeFacts, HoldFacts DEF ChipFree, NoChip, CalmOps
<1>5. Hold4 \in Seq(CalmOps)
  BY <1>4
  DEF Hold4
<1>6. r \in Seq(CalmOps)
  BY <1>3, SeqMonotonic
<1> QED
  BY <1>1, <1>5, <1>6, SmallLists

(* Stage 2 identifies the chip, looks which it is, and then sets the clocks  *)
(* up (lnCpuID.cpp, clocking.h:103-139).                                     *)
Named == Op("identify", "vendor", 0)
Known == Op("isGd32", "gd32", 0)
Ready(list) == Unset(list) /\ Paged(list)
Asked(list) == \E r : Ready(r) /\ Leads({}, Known, r, list)
Entered(list) == \E r : Asked(r) /\ Leads({}, Named, r, list)

(* Its program starts at the first of these.                                 *)
LEMMA EntryOrder == Entered(Stage2Entry)
<1> DEFINE C == IF build.crystal THEN ClockFromCrystal ELSE ClockFromRc
           Good(l) == \E r \in Seq(ChipFree) : Unset(r) /\ Leads({}, Known, r, l)
           L0 == <<Known>> \o C
           L1 == L0 \o Enable("PA")
           L2 == L1 \o Enable("PB")
           L3 == L2 \o Enable("PC")
           L4 == L3 \o Enable("AF")
           L5 == L4 \o <<Op("zero", "tick", 0)>>
           L6 == L5 \o TickControl(FALSE)
           L7 == L6 \o TickControl(TRUE)
           L8 == L7 \o Enable("USB")
           L9 == L8 \o <<Op("cntr", "USB", {"pdwn"})>>
<1>1. SetupForUsb = L9
  BY DEF SetupForUsb, Known
<1>2. /\ Known \in StageTwoOps /\ Named \in StageTwoOps /\ {} \subseteq StageTwoOps
      /\ \A s : s \in Seq(ChipFree) => s \in Seq(StageTwoOps)
  <2>1. ChipFree \subseteq StageTwoOps
    BY DEF ChipFree, NoChip
  <2>2. Known \in EarlyOps /\ Named \in EarlyOps
    BY DEF Known, Named, EarlyOps
  <2>3. Known \in StageTwoOps /\ Named \in StageTwoOps
    BY <2>2 DEF StageTwoOps
  <2> QED
    BY <2>1, <2>3, SeqMonotonic
<1>3. ASSUME NEW l, Good(l), NEW b \in Seq(CalmOps), b \in Seq(ChipFree) PROVE Good(l \o b)
  <2>1. PICK r \in Seq(ChipFree) : Unset(r) /\ Leads({}, Known, r, l)
    BY <1>3
  <2>2. Unset(r \o b) /\ r \o b \in Seq(ChipFree)
    BY <1>3, <2>1, ClockGrows, SmallLists
  <2>3. Leads({}, Known, r \o b, l \o b)
    BY <1>2, <1>3, <2>1, LeadsBehind
  <2> QED
    BY <2>2, <2>3
<1>4. C \in Seq(ChipFree) /\ Unset(C)
  BY SetupFree, SetupOrder
<1> HIDE DEF C
<1>5. Good(L0)
  <2>1. Leads({}, Known, C, L0)
    BY <1>2, <1>4, LeadsNow
  <2> QED
    BY <1>4, <2>1
<1> HIDE DEF Good, L0
<1>6. Good(L1)
  BY <1>3, <1>5, SetupFree
<1> HIDE DEF L1
<1>7. Good(L2)
  BY <1>3, <1>6, SetupFree
<1> HIDE DEF L2
<1>8. Good(L3)
  BY <1>3, <1>7, SetupFree
<1> HIDE DEF L3
<1>9. Good(L4)
  BY <1>3, <1>8, SetupFree
<1> HIDE DEF L4
<1>10. Good(L5)
  BY <1>3, <1>9, SetupFree
<1> HIDE DEF L5
<1>11. Good(L6)
  BY <1>3, <1>10, SetupFree
<1> HIDE DEF L6
<1>12. Good(L7)
  BY <1>3, <1>11, SetupFree
<1> HIDE DEF L7
<1>13. Good(L8)
  BY <1>3, <1>12, SetupFree
<1> HIDE DEF L8
<1>14. Good(L9)
  BY <1>3, <1>13, SetupFree
<1>15. PICK r \in Seq(ChipFree) : Unset(r) /\ Leads({}, Known, r, SetupForUsb)
  BY <1>1, <1>14 DEF Good
<1>16. SetupForUsb \in Seq(StageTwoOps) /\ RunDfu \in Seq(StageTwoOps)
       /\ r \in Seq(StageTwoOps)
  BY <1>2, <1>15, LeadsFront, RunPaged, PagedGrows
<1>17. Ready(r \o RunDfu)
  BY <1>15, RunCalm, RunPaged, ClockGrows, PagedGrows DEF Ready
<1>18. Leads({}, Known, r \o RunDfu, SetupForUsb \o RunDfu)
  BY <1>2, <1>15, <1>16, LeadsBehind
<1>19. SetupForUsb \o RunDfu \in Seq(StageTwoOps)
  BY <1>16, SmallLists
<1>20. Stage2Entry = <<Named>> \o (SetupForUsb \o RunDfu)
  <2>1. <<Named>> \in Seq(StageTwoOps)
    BY <1>2, SmallLists
  <2> QED
    BY <1>16, <2>1, ConcatAssociative DEF Stage2Entry, Identify, Named
<1>21. Leads({}, Named, SetupForUsb \o RunDfu, Stage2Entry)
  BY <1>2, <1>19, <1>20, LeadsNow
<1> QED
  BY <1>17, <1>18, <1>21, Zenon DEF Entered, Asked

-----------------------------------------------------------------------------
(* What the registers hold meanwhile. *)
Registers == {"src", "mul", "psc", "ppre1", "sw", "sws"} \subseteq DOMAIN cfg0
Quiet == ~ticking /\ "pdwn" \in cntr
Unswitched == cfg0.sw = "hsi" /\ cfg0.sws = "hsi" /\ cfg0.psc = 0 /\ Quiet
Cold == osc.pll = "off" /\ Unswitched
PllSet == cfg0.src = Source /\ cfg0.mul = 9
Switching == cfg0.sw = "pll" /\ cfg0.sws \in {"hsi", "pll"} /\ cfg0.psc = 0 /\ wait = 2

(* Where the clock set-up of stage 2 is.                                     *)
ClockOrder ==
  \/ Cold /\ Unset(todo)
  \/ PllSet /\ Unswitched /\ Divided(todo)
  \/ PllSet /\ Unswitched /\ wait = 2 /\ Waited(todo)
  \/ PllSet /\ Switching /\ Quiet /\ ~build.crystal /\ Clocked(todo)
  \/ PllSet /\ Switching /\ (build.crystal \/ usbsel) /\ todo \in Seq(CalmOps)

(* These only depend on the build.                                           *)
LEMMA LandmarksFixed ==
  ASSUME UNCHANGED build
  PROVE  /\ UNCHANGED <<Source, Vendor>>
         /\ \A list : /\ Clocked(list)' <=> Clocked(list)
                      /\ Waited(list)' <=> Waited(list)
                      /\ Divided(list)' <=> Divided(list)
                      /\ Unset(list)' <=> Unset(list)
                      /\ Paged(list)' <=> Paged(list)
<1>1. UNCHANGED <<Source, Vendor, PllTimes9>>
  BY DEF Source, Vendor, RamSize, PllTimes9
<1>2. \A list : Clocked(list)' <=> Clocked(list)
  BY DEF Clocked
<1>3. \A list : Waited(list)' <=> Waited(list)
  BY <1>2 DEF Waited
<1>4. \A list : Divided(list)' <=> Divided(list)
  BY <1>3 DEF Divided
<1>5. \A list : Unset(list)' <=> Unset(list)
  BY <1>1, <1>4 DEF Unset
<1> QED
  BY <1>1, <1>2, <1>3, <1>4, <1>5 DEF Paged

(* An access to the clock unit changes nothing else, any other access        *)
(* nothing of the clock unit.                                                *)
LEMMA ClockOnly ==
  ASSUME Program, todo # <<>>,
         Next1.do \in {"start", "await", "pll", "psc", "ppre1", "usbsel", "wait", "switch",
                       "stop", "switched", "stmWait", "core", "scale"}
  PROVE  /\ ClockOp /\ todo' = Tail(todo)
         /\ UNCHANGED <<build, chip, stage, clocked, cntr, ticking>>
<1> HIDE DEF Next1
<1>1. ClockOp
  BY DEF Program, ChipOp, EnableOp, PinOp, UsbOp, TickOp, ReadButton, EnterLoop, Blink, Does
<1> QED
  BY <1>1 DEF ClockOp, pads, timing

(* And the other way round.                                                  *)
LEMMA CalmOnly ==
  ASSUME Program, todo # <<>>, Next1 \in CalmOps
  PROVE  UNCHANGED <<build, osc, cfg0, usbsel, wait>> /\ (todo' = Tail(todo) \/ todo' = <<>>)
<1>1. Next1.do \in {"enable", "zero", "tick", "cntr", "mode", "level", "target", "sleep",
                    "pageSize", "reset", "clear", "loop"}
  BY DEF CalmOps
<1> HIDE DEF Next1
<1>2. ChipOp \/ EnableOp \/ PinOp \/ UsbOp \/ TickOp \/ EnterLoop
  BY <1>1 DEF Program, ClockOp, ReadButton, Blink, Does
<1> QED
  BY <1>2 DEF ChipOp, EnableOp, PinOp, UsbOp, TickOp, EnterLoop, clock

(* One access of the set-up: the PLL's word is written while the PLL is off, *)
(* the wait states before the switch.                                        *)
LEMMA ClockKept ==
  ASSUME ClockOrder, Registers, Settings, Program, todo # <<>>
  PROVE  ClockOrder' /\ Registers' /\ UNCHANGED build
<1> DEFINE K == {"start", "await", "pll", "psc", "ppre1", "usbsel", "wait", "switch"}
<1>k. Next1.do \in K => /\ ClockOp /\ todo' = Tail(todo)
                        /\ UNCHANGED <<build, chip, stage, clocked, cntr, ticking>>
  BY ClockOnly
<1>o. /\ \A c, o : o \in StartOps(c) => o.do \in {"start", "await"} /\ o.at = c
      /\ \A o \in BusOps : o.do \in {"psc", "ppre1"} /\ (o.do = "psc" => o.v = 0)
      /\ PllTimes9.do = "pll" /\ PllTimes9.at = Source /\ PllTimes9.v = 9
      /\ TwoWaits.do = "wait" /\ TwoWaits.v = 2
      /\ ToPll.do = "switch" /\ ToPll.at = "pll"
      /\ UseIrc48.do = "usbsel"
  BY Fields DEF StartOps, BusOps, PllTimes9, TwoWaits, ToPll, UseIrc48
<1>r. Next1.do \in K => Registers'
  BY <1>k DEF Registers, ClockOp
<1>q. Next1.do \in K => (Quiet => Quiet')
  BY <1>k DEF Quiet
<1>1. CASE Cold /\ Unset(todo)
  <2>1. PICK r : Divided(r) /\ Leads(StartOps("hse"), PllTimes9, r, todo)
    BY <1>1 DEF Unset
  <2>2. \/ Next1 \in StartOps("hse") /\ Leads(StartOps("hse"), PllTimes9, r, Tail(todo))
        \/ Next1 = PllTimes9 /\ Tail(todo) = r
    BY <2>1, ClockSets, ClockSeqs, LeadsFront DEF Next1
  <2>3. CASE Next1 \in StartOps("hse") /\ Leads(StartOps("hse"), PllTimes9, r, Tail(todo))
    <3>1. Next1.do \in {"start", "await"} /\ Next1.at = "hse" /\ Next1.do \in K
      BY <2>3, <1>o
    <3> HIDE DEF Next1
    <3>2. cfg0' = cfg0 /\ osc'.pll = osc.pll
      BY <1>k, <3>1 DEF ClockOp, Settings, Oscs
    <3>3. Unset(Tail(todo))
      BY <2>1, <2>3 DEF Unset
    <3>4. Cold'
      BY <1>1, <1>q, <3>1, <3>2 DEF Cold, Unswitched
    <3> QED
      BY <1>k, <1>r, <3>1, <3>3, <3>4, LandmarksFixed DEF ClockOrder
  <2>4. CASE Next1 = PllTimes9 /\ Tail(todo) = r
    <3>1. Next1.do = "pll" /\ Next1.at = Source /\ Next1.v = 9 /\ Next1.do \in K
      BY <2>4, <1>o
    <3> HIDE DEF Next1
    <3>2. cfg0' = [cfg0 EXCEPT !.src = Source, !.mul = 9]
      BY <1>1, <1>k, <3>1 DEF ClockOp, Cold
    <3>3. UNCHANGED Source
      BY <1>k, <3>1, LandmarksFixed
    <3>4. PllSet' /\ Unswitched'
      BY <1>1, <1>q, <3>1, <3>2, <3>3 DEF PllSet, Cold, Unswitched, Registers
    <3> QED
      BY <1>k, <1>r, <2>1, <2>4, <3>1, <3>4, LandmarksFixed DEF ClockOrder
  <2> QED
    BY <2>2, <2>3, <2>4
<1>2. CASE PllSet /\ Unswitched /\ Divided(todo)
  <2>1. PICK r : Waited(r) /\ Leads(BusOps, TwoWaits, r, todo)
    BY <1>2 DEF Divided
  <2>2. \/ Next1 \in BusOps /\ Leads(BusOps, TwoWaits, r, Tail(todo))
        \/ Next1 = TwoWaits /\ Tail(todo) = r
    BY <2>1, ClockSets, ClockSeqs, LeadsFront DEF Next1
  <2>3. CASE Next1 \in BusOps /\ Leads(BusOps, TwoWaits, r, Tail(todo))
    <3>1. Next1.do \in {"psc", "ppre1"} /\ (Next1.do = "psc" => Next1.v = 0) /\ Next1.do \in K
      BY <2>3, <1>o
    <3> HIDE DEF Next1
    <3>2. cfg0' = [cfg0 EXCEPT !.psc = 0] \/ cfg0' = [cfg0 EXCEPT !.ppre1 = Next1.v]
      BY <1>k, <3>1 DEF ClockOp
    <3>3. Divided(Tail(todo))
      BY <2>1, <2>3 DEF Divided
    <3>4. UNCHANGED Source
      BY <1>k, <3>1, LandmarksFixed
    <3>5. PllSet' /\ Unswitched'
      BY <1>2, <1>q, <3>1, <3>2, <3>4 DEF PllSet, Unswitched, Registers
    <3> QED
      BY <1>k, <1>r, <3>1, <3>3, <3>5, LandmarksFixed DEF ClockOrder
  <2>4. CASE Next1 = TwoWaits /\ Tail(todo) = r
    <3>1. Next1.do = "wait" /\ Next1.v = 2 /\ Next1.do \in K
      BY <2>4, <1>o
    <3> HIDE DEF Next1
    <3>2. cfg0' = cfg0 /\ wait' = 2
      BY <1>k, <3>1 DEF ClockOp
    <3>3. UNCHANGED Source
      BY <1>k, <3>1, LandmarksFixed
    <3>4. PllSet' /\ Unswitched'
      BY <1>2, <1>q, <3>1, <3>2, <3>3 DEF PllSet, Unswitched
    <3> QED
      BY <1>k, <1>r, <2>1, <2>4, <3>1, <3>2, <3>4, LandmarksFixed DEF ClockOrder
  <2> QED
    BY <2>2, <2>3, <2>4
<1>3. CASE PllSet /\ Unswitched /\ wait = 2 /\ Waited(todo)
  <2>1. PICK r : Clocked(r) /\ Leads(StartOps("pll"), ToPll, r, todo)
    BY <1>3 DEF Waited
  <2>2. \/ Next1 \in StartOps("pll") /\ Leads(StartOps("pll"), ToPll, r, Tail(todo))
        \/ Next1 = ToPll /\ Tail(todo) = r
    BY <2>1, ClockSets, ClockSeqs, LeadsFront DEF Next1
  <2>3. CASE Next1 \in StartOps("pll") /\ Leads(StartOps("pll"), ToPll, r, Tail(todo))
    <3>1. Next1.do \in {"start", "await"} /\ Next1.do \in K
      BY <2>3, <1>o
    <3> HIDE DEF Next1
    <3>2. cfg0' = cfg0 /\ wait' = wait
      BY <1>k, <3>1 DEF ClockOp
    <3>3. Waited(Tail(todo))
      BY <2>1, <2>3 DEF Waited
    <3>4. UNCHANGED Source
      BY <1>k, <3>1, LandmarksFixed
    <3>5. PllSet' /\ Unswitched'
      BY <1>3, <1>q, <3>1, <3>2, <3>4 DEF PllSet, Unswitched
    <3> QED
      BY <1>3, <1>k, <1>r, <3>1, <3>2, <3>3, <3>5, LandmarksFixed DEF ClockOrder
  <2>4. CASE Next1 = ToPll /\ Tail(todo) = r
    <3>1. Next1.do = "switch" /\ Next1.at = "pll" /\ Next1.do \in K
      BY <2>4, <1>o
    <3> HIDE DEF Next1
    <3>2. cfg0' = [cfg0 EXCEPT !.sw = "pll"] /\ wait' = wait
      BY <1>k, <3>1 DEF ClockOp
    <3>3. UNCHANGED <<Source, build>>
      BY <1>k, <3>1, LandmarksFixed
    <3>4. PllSet' /\ Switching' /\ Quiet'
      BY <1>3, <1>q, <3>1, <3>2, <3>3 DEF PllSet, Unswitched, Switching, Registers
    <3>5. todo' = r
      BY <1>k, <2>4, <3>1
    <3>6. build.crystal => todo' \in Seq(CalmOps)
      BY <2>1, <3>5 DEF Clocked
    <3>7. Clocked(r)'
      BY <2>1, <3>3, LandmarksFixed
    <3> QED
      BY <1>r, <3>1, <3>3, <3>4, <3>5, <3>6, <3>7 DEF ClockOrder
  <2> QED
    BY <2>2, <2>3, <2>4
<1>4. CASE PllSet /\ Switching /\ Quiet /\ ~build.crystal /\ Clocked(todo)
  <2>1. PICK r \in Seq(CalmOps) : Leads(StartOps("irc48"), UseIrc48, r, todo)
    BY <1>4 DEF Clocked
  <2>2. r \in Seq(StageTwoOps)
    BY ClockSets, SeqMonotonic
  <2>3. \/ Next1 \in StartOps("irc48") /\ Leads(StartOps("irc48"), UseIrc48, r, Tail(todo))
        \/ Next1 = UseIrc48 /\ Tail(todo) = r
    BY <2>1, <2>2, ClockSets, LeadsFront DEF Next1
  <2>4. Next1.do \in {"start", "await", "usbsel"} /\ Next1.do \in K
    BY <2>3, <1>o
  <2>5. UNCHANGED <<Source, build>>
    BY <1>k, <2>4, LandmarksFixed
  <2>6. cfg0' = cfg0 /\ wait' = wait /\ (Next1.do = "usbsel" => usbsel')
    <3> HIDE DEF Next1
    <3> QED
      BY <1>k, <2>4 DEF ClockOp
  <2>7. PllSet' /\ Switching' /\ Quiet'
    BY <1>4, <1>q, <2>4, <2>5, <2>6 DEF PllSet, Switching
  <2>8. CASE Next1 \in StartOps("irc48") /\ Leads(StartOps("irc48"), UseIrc48, r, Tail(todo))
    <3>1. Clocked(Tail(todo))
      BY <1>4, <2>8 DEF Clocked
    <3> QED
      BY <1>4, <1>k, <1>r, <2>4, <2>5, <2>7, <3>1, LandmarksFixed DEF ClockOrder
  <2>9. CASE Next1 = UseIrc48 /\ Tail(todo) = r
    <3>1. Next1.do = "usbsel"
      BY <2>9, <1>o
    <3> QED
      BY <1>k, <1>r, <2>4, <2>5, <2>6, <2>7, <2>9, <3>1 DEF ClockOrder
  <2> QED
    BY <2>3, <2>8, <2>9
<1>5. CASE PllSet /\ Switching /\ (build.crystal \/ usbsel) /\ todo \in Seq(CalmOps)
  <2>1. Next1 \in CalmOps /\ Tail(todo) \in Seq(CalmOps)
    BY <1>5, HeadTailProperties DEF Next1
  <2>2. UNCHANGED <<build, osc, cfg0, usbsel, wait>> /\ todo' \in Seq(CalmOps)
    BY <2>1, CalmOnly, EmptySeq
  <2>3. UNCHANGED Source
    BY <2>2, LandmarksFixed
  <2>4. PllSet' /\ Switching' /\ Registers'
    BY <1>5, <2>2, <2>3 DEF PllSet, Switching, Registers
  <2> QED
    BY <1>5, <2>2, <2>4 DEF ClockOrder
<1>6. UNCHANGED build
  BY DEF Program, ClockOp, ChipOp, EnableOp, PinOp, UsbOp, TickOp, ReadButton, EnterLoop, Blink
<1> QED
  BY <1>1, <1>2, <1>3, <1>4, <1>5, <1>6 DEF ClockOrder

(* What stage 2 knows of the chip. *)
ChipIs(gd32, page) == [vendor |-> Vendor, gd32 |-> gd32, page |-> page]
KnownSize == IF build.gd THEN 2048 ELSE 1024
PageOrder ==
  \/ chip = ChipIs(build.gd, 0) /\ Paged(todo)
  \/ chip = ChipIs(build.gd, KnownSize) /\ todo \in Seq(NoChip)

(* Stage 2 in order.                                                         *)
StageTwoOrder ==
  \/ Cold /\ chip = Unknown /\ Entered(todo)
  \/ Cold /\ chip = ChipIs(FALSE, 0) /\ Asked(todo)
  \/ ClockOrder /\ PageOrder

(* The vendor tells the builds apart.                                        *)
LEMMA VendorTells ==
  ASSUME build \in Builds
  PROVE  (Vendor = "GD" <=> build.gd) /\ (Vendor = IF build.gd THEN "GD" ELSE "STM")
         /\ build.gd \in BOOLEAN
BY BoardAssumption DEF Vendor, RamSize

(* The front of a list that asks for the page size.                          *)
LEMMA PagedFront ==
  ASSUME NEW list, Paged(list)
  PROVE  /\ list # <<>>
         /\ \/ Head(list) \in ChipFree /\ Paged(Tail(list))
            \/ Head(list) = PageSize /\ Tail(list) \in Seq(NoChip)
<1>1. PICK r \in Seq(NoChip) : Leads(ChipFree, PageSize, r, list)
  BY DEF Paged
<1>2. /\ ChipFree \subseteq StageTwoOps /\ NoChip \subseteq StageTwoOps
      /\ PageSize \in StageTwoOps
  BY DEF ChipFree, NoChip, PageSize, StageTwoOps, LateOps
<1>3. r \in Seq(StageTwoOps)
  BY <1>2, SeqMonotonic
<1>4. /\ list # <<>>
      /\ \/ Head(list) \in ChipFree /\ Leads(ChipFree, PageSize, r, Tail(list))
         \/ Head(list) = PageSize /\ Tail(list) = r
  BY <1>1, <1>2, <1>3, LeadsFront
<1> QED
  BY <1>4 DEF Paged

(* The page size is asked for once, when the vendor is known.                *)
LEMMA PageKept ==
  ASSUME PageOrder, build \in Builds, Program, todo # <<>>
  PROVE  PageOrder' /\ (Next1.do = "loop" => chip = ChipIs(build.gd, KnownSize))
<1>1. UNCHANGED build
  BY DEF Program, ClockOp, ChipOp, EnableOp, PinOp, UsbOp, TickOp, ReadButton, EnterLoop, Blink
<1>2. UNCHANGED KnownSize /\ \A g, p : ChipIs(g, p)' = ChipIs(g, p)
  BY <1>1, LandmarksFixed DEF KnownSize, ChipIs
<1>3. ASSUME Next1.do \notin {"identify", "isGd32", "pageSize", "read"}
      PROVE  UNCHANGED chip /\ (todo' = Tail(todo) \/ (Next1.do = "loop" /\ todo' = <<>>))
  <2> HIDE DEF Next1
  <2>1. ClockOp \/ EnableOp \/ PinOp \/ UsbOp \/ TickOp \/ EnterLoop
    BY <1>3 DEF Program, ChipOp, ReadButton, Blink, Does
  <2> QED
    BY <2>1 DEF ClockOp, EnableOp, PinOp, UsbOp, TickOp, EnterLoop, Does
<1>4. \A o \in StageTwoOps : o.do # "read"
  <2>1. \A o \in EarlyOps : o.do # "read"
    BY EarlyFacts
  <2>2. \A o \in LateOps : o.do # "read"
    BY LateFacts
  <2> QED
    BY <2>1, <2>2, HoldFacts DEF StageTwoOps, HoldOps
<1>5. CASE chip = ChipIs(build.gd, 0) /\ Paged(todo)
  <2>1. CASE Next1 \in ChipFree /\ Paged(Tail(todo))
    <3>1. Next1.do \notin {"identify", "isGd32", "pageSize", "read", "loop"}
      BY <1>4, <2>1 DEF ChipFree, NoChip
    <3>2. UNCHANGED chip /\ todo' = Tail(todo)
      BY <1>3, <3>1
    <3>3. PageOrder'
      BY <1>1, <1>2, <1>5, <2>1, <3>2, LandmarksFixed DEF PageOrder
    <3> QED
      BY <3>1, <3>3
  <2>2. CASE Next1 = PageSize /\ Tail(todo) \in Seq(NoChip)
    <3>1. Next1.do = "pageSize"
      BY <2>2, Fields DEF PageSize
    <3> HIDE DEF Next1
    <3>2. ChipOp
      BY <3>1 DEF Program, ClockOp, EnableOp, PinOp, UsbOp, TickOp, ReadButton, EnterLoop, Blink,
                  Does
    <3>3. chip' = [chip EXCEPT !.page = FlashPageSize] /\ todo' = Tail(todo)
      BY <3>1, <3>2 DEF ChipOp
    <3>4. FlashPageSize = KnownSize
      BY <1>5, VendorTells DEF FlashPageSize, ChipIs, is_gd32, KnownSize
    <3>5. chip' = ChipIs(build.gd, KnownSize)
      BY <1>5, <3>3, <3>4 DEF ChipIs
    <3>6. PageOrder'
      BY <1>1, <1>2, <2>2, <3>3, <3>5 DEF PageOrder
    <3> QED
      BY <3>1, <3>6
  <2> QED
    BY <1>5, <2>1, <2>2, PagedFront DEF Next1
<1>6. CASE chip = ChipIs(build.gd, KnownSize) /\ todo \in Seq(NoChip)
  <2>1. Next1 \in NoChip /\ Tail(todo) \in Seq(NoChip)
    BY <1>6, HeadTailProperties DEF Next1
  <2>2. Next1.do \notin {"identify", "isGd32", "pageSize", "read"}
    BY <1>4, <2>1 DEF NoChip
  <2>3. UNCHANGED chip /\ todo' \in Seq(NoChip)
    BY <1>3, <2>1, <2>2, EmptySeq
  <2> QED
    BY <1>1, <1>2, <1>6, <2>3 DEF PageOrder
<1> QED
  BY <1>5, <1>6 DEF PageOrder

(* A landmark that nothing may come before.                                  *)
LEMMA LeadsFirst ==
  ASSUME NEW U, NEW m \in U, NEW r \in Seq(U), NEW list, Leads({}, m, r, list)
  PROVE  list \in Seq(U) /\ Head(list) = m /\ Tail(list) = r
<1>1. PICK s \in Seq({}) : list = s \o (<<m>> \o r)
  BY DEF Leads
<1>2. s = <<>>
  BY <1>1, HeadTailProperties
<1>3. <<m>> \o r \in Seq(U) /\ <<m>> \in Seq(U)
  BY SmallLists
<1>4. list = <<m>> \o r
  BY <1>1, <1>2, <1>3, ConcatEmptySeq
<1>5. <<m>> # <<>> /\ Head(<<m>>) = m /\ Tail(<<m>>) = <<>>
  OBVIOUS
<1>6. Head(list) = m /\ Tail(list) = <<>> \o r
  BY <1>3, <1>4, <1>5, Front
<1> QED
  BY <1>3, <1>4, <1>6, ConcatEmptySeq

(* Every access of stage 2 keeps to the order.                               *)
LEMMA StageTwoKept ==
  ASSUME StageTwoOrder, Registers, Settings, Program, todo # <<>>
  PROVE  /\ StageTwoOrder' /\ Registers'
         /\ Next1.do = "loop" => ClockOrder /\ chip = ChipIs(build.gd, KnownSize)
<1>b. build \in Builds
  BY DEF Settings
<1>1. CASE Cold /\ chip = Unknown /\ Entered(todo)
  <2>1. PICK r : Asked(r) /\ Leads({}, Named, r, todo)
    BY <1>1 DEF Entered
  <2>2. PICK q : Ready(q) /\ Leads({}, Known, q, r)
    BY <2>1 DEF Asked
  <2>3. Known \in StageTwoOps /\ Named \in StageTwoOps /\ {} \subseteq StageTwoOps
    BY DEF Known, Named, StageTwoOps, EarlyOps
  <2>4. r \in Seq(StageTwoOps)
    BY <2>2, <2>3, ClockSeqs, LeadsFirst DEF Ready
  <2>5. Next1 = Named /\ Tail(todo) = r
    BY <2>1, <2>3, <2>4, LeadsFirst DEF Next1
  <2>6. Next1.do = "identify"
    BY <2>5, Fields DEF Named
  <2> HIDE DEF Next1
  <2>7. ChipOp
    BY <2>6 DEF Program, ClockOp, EnableOp, PinOp, UsbOp, TickOp, ReadButton, EnterLoop, Blink,
                Does
  <2>8. /\ chip' = [chip EXCEPT !.vendor = Vendor] /\ todo' = r
        /\ UNCHANGED <<build, osc, cfg0, ticking, cntr>>
    BY <2>5, <2>6, <2>7 DEF ChipOp, clock, pads, timing
  <2>9. chip' = ChipIs(FALSE, 0)'
    BY <1>1, <2>8, LandmarksFixed DEF ChipIs, Unknown
  <2>10. Cold' /\ Registers'
    BY <1>1, <2>8 DEF Cold, Unswitched, Quiet, Registers
  <2>11. Asked(r)'
    BY <2>1, <2>8, LandmarksFixed DEF Asked, Ready
  <2> QED
    BY <2>6, <2>8, <2>9, <2>10, <2>11 DEF StageTwoOrder
<1>2. CASE Cold /\ chip = ChipIs(FALSE, 0) /\ Asked(todo)
  <2>1. PICK r : Ready(r) /\ Leads({}, Known, r, todo)
    BY <1>2 DEF Asked
  <2>2. Known \in StageTwoOps /\ {} \subseteq StageTwoOps
    BY DEF Known, StageTwoOps, EarlyOps
  <2>3. Next1 = Known /\ Tail(todo) = r
    BY <2>1, <2>2, ClockSeqs, LeadsFirst DEF Next1, Ready
  <2>4. Next1.do = "isGd32"
    BY <2>3, Fields DEF Known
  <2> HIDE DEF Next1
  <2>5. ChipOp
    BY <2>4 DEF Program, ClockOp, EnableOp, PinOp, UsbOp, TickOp, ReadButton, EnterLoop, Blink,
                Does
  <2>6. /\ chip' = [chip EXCEPT !.gd32 = is_gd32] /\ todo' = r
        /\ UNCHANGED <<build, osc, cfg0, ticking, cntr>>
    BY <2>3, <2>4, <2>5 DEF ChipOp, clock, pads, timing
  <2>7. is_gd32 = build.gd
    <3>1. chip.vendor = Vendor
      BY <1>2 DEF ChipIs
    <3> QED
      BY <1>b, <3>1, VendorTells DEF is_gd32
  <2>8. chip' = ChipIs(build.gd, 0)'
    BY <1>2, <2>6, <2>7, LandmarksFixed DEF ChipIs
  <2>9. Cold' /\ Registers'
    BY <1>2, <2>6 DEF Cold, Unswitched, Quiet, Registers
  <2>10. Unset(r)' /\ Paged(r)'
    BY <2>1, <2>6, LandmarksFixed DEF Ready
  <2> QED
    BY <2>4, <2>6, <2>8, <2>9, <2>10 DEF StageTwoOrder, ClockOrder, PageOrder
<1>3. CASE ClockOrder /\ PageOrder
  BY <1>b, <1>3, ClockKept, PageKept DEF StageTwoOrder
<1> QED
  BY <1>1, <1>2, <1>3 DEF StageTwoOrder

-----------------------------------------------------------------------------
(* The application's set-up, from the end: the switch to the PLL, the wait   *)
(* states, the divider of APB1, the PLL's word, the record of the frequency  *)
(* (lnRCU_systemClock_arm_gd32fx.cpp:165-242).                               *)
HalfBus == Op("ppre1", "apb1", 2)
AppWait == Op("stmWait", "flash", FlashWait)
OnPll(list) == Leads({}, ToPll, UsbList, list)
Slowed(list) == \E r : OnPll(r) /\ Leads({}, AppWait, r, list)
Halved(list) == \E r : Slowed(r) /\ Leads(StartOps("pll"), HalfBus, r, list)
Worded(list) == \E r : Halved(r) /\ Leads({}, PllWord, r, list)
Recorded(list) == \E r : Worded(r) /\ Leads(StopOps, Core, r, list)
Begun(list) == \E r : Recorded(r) /\ Leads({}, Named, r, list)

(* These are accesses of an application.                                     *)
LEMMA AppSets ==
  /\ StopOps \subseteq AppOps /\ StartOps("pll") \subseteq AppOps
  /\ HalfBus \in AppOps /\ AppWait \in AppOps /\ ToPll \in AppOps /\ PllWord \in AppOps
  /\ Core \in AppOps /\ Named \in AppOps /\ UsbList \in Seq(AppOps)
<1>1. StopOps \subseteq AppOps /\ StartOps("pll") \subseteq AppOps
  BY DEF StopOps, StartOps, AppOps
<1>2. HalfBus \in AppOps /\ ToPll \in AppOps /\ Named \in AppOps
  BY DEF HalfBus, ToPll, Named, AppOps
<1>3. AppWait \in AppOps
  BY DEF AppWait, FlashWait, AppOps
<1>4. PllWord \in AppOps
  BY DEF PllWord, AppSource, AppOps
<1>5. UsbList \in Seq(AppOps)
  BY OrderFacts, SmallLists, EmptySeq DEF UsbList
<1> QED
  BY <1>1, <1>2, <1>3, <1>4, <1>5, OrderFacts

(* And these lists of them.                                                  *)
LEMMA AppSeqs ==
  ASSUME NEW list
  PROVE  /\ OnPll(list) => list \in Seq(AppOps)
         /\ Slowed(list) => list \in Seq(AppOps)
         /\ Halved(list) => list \in Seq(AppOps)
         /\ Worded(list) => list \in Seq(AppOps)
         /\ Recorded(list) => list \in Seq(AppOps)
<1>1. \A l : OnPll(l) => l \in Seq(AppOps)
  BY AppSets, LeadsFirst DEF OnPll
<1>2. \A l : Slowed(l) => l \in Seq(AppOps)
  BY <1>1, AppSets, LeadsFirst DEF Slowed
<1>3. \A l : Halved(l) => l \in Seq(AppOps)
  BY <1>2, AppSets, LeadsFront DEF Halved
<1>4. \A l : Worded(l) => l \in Seq(AppOps)
  BY <1>3, AppSets, LeadsFirst DEF Worded
<1>5. \A l : Recorded(l) => l \in Seq(AppOps)
  BY <1>4, AppSets, LeadsFront DEF Recorded
<1> QED
  BY <1>1, <1>2, <1>3, <1>4, <1>5

(* An application starts so.                                                 *)
LEMMA AppChain ==
  Begun(InitSystemClock \o (IF build.external THEN EnableUsb48Mhz ELSE <<>>))
<1> DEFINE program == InitSystemClock \o (IF build.external THEN EnableUsb48Mhz ELSE <<>>)
           S == Start("pll")
           l1 == <<ToPll>> \o UsbList
           l2 == <<AppWait>> \o l1
           l3 == <<HalfBus>> \o l2
           l4 == S \o l3
           l5 == <<PllWord>> \o l4
           l6 == <<Core>> \o l5
<1>1. PICK t \in Seq(StopOps) :
         program = Identify \o (t \o (<<Core>> \o (((<<PllWord>> \o S) \o BusList) \o UsbList)))
  BY AppShape
<1>2. /\ <<ToPll>> \in Seq(AppOps) /\ <<AppWait>> \in Seq(AppOps) /\ <<HalfBus>> \in Seq(AppOps)
      /\ <<PllWord>> \in Seq(AppOps) /\ <<Core>> \in Seq(AppOps)
  BY AppSets, SmallLists
<1>3. S \in Seq(StartOps("pll")) /\ S \in Seq(AppOps)
  <2>1. S \in Seq(StartOps("pll"))
    BY SmallLists DEF Start, StartOps
  <2> QED
    BY <2>1, AppSets, SeqMonotonic
<1> HIDE DEF S
<1>4. l1 \in Seq(AppOps) /\ l2 \in Seq(AppOps) /\ l3 \in Seq(AppOps) /\ l4 \in Seq(AppOps)
      /\ l5 \in Seq(AppOps) /\ l6 \in Seq(AppOps)
  BY <1>2, <1>3, AppSets, SmallLists
<1>5. BusList = <<HalfBus>> \o (<<AppWait>> \o <<ToPll>>)
  <2>1. <<AppWait>> \o <<ToPll>> = <<AppWait, ToPll>>
    BY Join11
  <2>2. <<HalfBus>> \o <<AppWait, ToPll>> = <<HalfBus, AppWait, ToPll>>
    BY Join12
  <2> QED
    BY <2>1, <2>2 DEF BusList, HalfBus, AppWait, ToPll, Switch
<1>6. BusList \o UsbList = l3
  <2>1. <<AppWait>> \o <<ToPll>> \in Seq(AppOps)
    BY <1>2, SmallLists
  <2>2. (<<HalfBus>> \o (<<AppWait>> \o <<ToPll>>)) \o UsbList
          = <<HalfBus>> \o ((<<AppWait>> \o <<ToPll>>) \o UsbList)
    BY <1>2, <2>1, AppSets, ConcatAssociative
  <2>3. (<<AppWait>> \o <<ToPll>>) \o UsbList = <<AppWait>> \o (<<ToPll>> \o UsbList)
    BY <1>2, AppSets, ConcatAssociative
  <2> QED
    BY <1>5, <2>2, <2>3
<1>7. ((<<PllWord>> \o S) \o BusList) \o UsbList = l5
  <2>1. BusList \in Seq(AppOps)
    BY <1>2, <1>5, SmallLists
  <2>2. S \o BusList \in Seq(AppOps)
    BY <1>3, <2>1, SmallLists
  <2>3. (<<PllWord>> \o S) \o BusList = <<PllWord>> \o (S \o BusList)
    BY <1>2, <1>3, <2>1, ConcatAssociative
  <2>4. (<<PllWord>> \o (S \o BusList)) \o UsbList = <<PllWord>> \o ((S \o BusList) \o UsbList)
    BY <1>2, <2>2, AppSets, ConcatAssociative
  <2>5. (S \o BusList) \o UsbList = S \o (BusList \o UsbList)
    BY <1>3, <2>1, AppSets, ConcatAssociative
  <2> QED
    BY <1>6, <2>3, <2>4, <2>5, Zenon
<1>8. program = <<Named>> \o (t \o l6)
  BY <1>1, <1>7 DEF Identify, Named
<1>9. t \o l6 \in Seq(AppOps)
  <2>1. t \in Seq(AppOps)
    BY AppSets, SeqMonotonic
  <2> QED
    BY <1>4, <2>1, SmallLists
<1>10. OnPll(l1)
  BY AppSets, LeadsNow DEF OnPll
<1>11. Slowed(l2)
  BY <1>4, <1>10, AppSets, LeadsNow DEF Slowed
<1>12. Leads(StartOps("pll"), HalfBus, l2, l3)
  BY <1>4, AppSets, LeadsNow
<1>13. Leads(StartOps("pll"), HalfBus, l2, l4)
  BY <1>3, <1>4, <1>12, AppSets, LeadsBefore
<1> HIDE DEF l1, l2, l3
<1>14. Halved(l4)
  BY <1>11, <1>13 DEF Halved
<1> HIDE DEF l4
<1>15. Worded(l5)
  BY <1>4, <1>14, AppSets, LeadsNow DEF Worded
<1> HIDE DEF l5
<1>16. Leads(StopOps, Core, l5, l6)
  BY <1>4, AppSets, LeadsNow
<1> HIDE DEF l6
<1>17. Leads(StopOps, Core, l5, t \o l6)
  BY <1>4, <1>16, AppSets, LeadsBefore
<1>18. Recorded(t \o l6)
  BY <1>15, <1>17 DEF Recorded
<1>19. Leads({}, Named, t \o l6, program)
  BY <1>8, <1>9, AppSets, LeadsNow
<1> QED
  BY <1>18, <1>19 DEF Begun

(* What the registers hold meanwhile.                                        *)
Informed == chip.vendor = Vendor /\ SystemCoreClock = Frequency
Sourced == cfg0.src = AppSource /\ cfg0.mul = Factor(Multipliers[Multiplier + 1])
WaitFits == ~build.gd => wait = FlashWait
Running ==
  /\ Informed /\ Sourced /\ WaitFits /\ Quiet
  /\ cfg0.ppre1 = 2 /\ cfg0.sw = "pll" /\ cfg0.sws \in {"hsi", "pll"}

(* Where the application's set-up is.                                        *)
AppPlace ==
  \/ Cold /\ chip = Unknown /\ Begun(todo)
  \/ Cold /\ chip.vendor = Vendor /\ Recorded(todo)
  \/ Cold /\ Informed /\ Worded(todo)
  \/ Unswitched /\ Informed /\ Sourced /\ Halved(todo)
  \/ Unswitched /\ Informed /\ Sourced /\ cfg0.ppre1 = 2 /\ Slowed(todo)
  \/ Unswitched /\ Informed /\ Sourced /\ cfg0.ppre1 = 2 /\ WaitFits /\ OnPll(todo)
  \/ Running /\ todo = UsbList
  \/ Running /\ todo = <<>> /\ cfg0.psc = UsbPrescaler((2 * Frequency) \div 48)

(* These only depend on the build.                                           *)
LEMMA PlacesFixed ==
  ASSUME UNCHANGED build
  PROVE  /\ UNCHANGED <<Vendor, Frequency, AppSource, Multiplier, FlashWait, UsbList>>
         /\ \A list : /\ OnPll(list)' <=> OnPll(list)
                      /\ Slowed(list)' <=> Slowed(list)
                      /\ Halved(list)' <=> Halved(list)
                      /\ Worded(list)' <=> Worded(list)
                      /\ Recorded(list)' <=> Recorded(list)
<1>1. UNCHANGED <<Vendor, Frequency, Core, Multiplier>>
  BY BuildFixed DEF Multiplier, InputClock
<1>2. UNCHANGED <<AppSource, FlashWait, UsbList>>
  BY DEF AppSource, FlashWait, UsbList
<1>3. UNCHANGED <<PllWord, AppWait>>
  BY <1>1, <1>2 DEF PllWord, AppWait
<1>4. \A list : OnPll(list)' <=> OnPll(list)
  BY <1>2 DEF OnPll
<1>5. \A list : Slowed(list)' <=> Slowed(list)
  BY <1>3, <1>4 DEF Slowed
<1>6. \A list : Halved(list)' <=> Halved(list)
  BY <1>5 DEF Halved
<1>7. \A list : Worded(list)' <=> Worded(list)
  BY <1>3, <1>6 DEF Worded
<1>8. \A list : Recorded(list)' <=> Recorded(list)
  BY <1>1, <1>7 DEF Recorded
<1> QED
  BY <1>1, <1>2, <1>4, <1>5, <1>6, <1>7, <1>8

(* The accesses of the set-up.                                               *)
LEMMA PlaceFacts ==
  /\ \A o \in StopOps : /\ o.do \in {"switch", "switched", "stop", "start", "await"}
                        /\ o.do = "switch" => o.at = "hsi"
                        /\ o.do = "start" => o.at = "hse"
                        /\ o.do = "stop" => o.at \in {"hse", "pll"}
  /\ \A o \in StartOps("pll") : o.do \in {"start", "await"}
  /\ PllWord.do = "pll" /\ PllWord.at = AppSource
  /\ PllWord.v = Factor(Multipliers[Multiplier + 1])
  /\ HalfBus.do = "ppre1" /\ HalfBus.v = 2
  /\ AppWait.do = "stmWait" /\ AppWait.v = FlashWait
  /\ ToPll.do = "switch" /\ ToPll.at = "pll"
  /\ Named.do = "identify"
<1>1. \A o \in StopOps : /\ o.do \in {"switch", "switched", "stop", "start", "await"}
                         /\ o.do = "switch" => o.at = "hsi"
                         /\ o.do = "start" => o.at = "hse"
                         /\ o.do = "stop" => o.at \in {"hse", "pll"}
  BY Fields DEF StopOps
<1>2. \A o \in StartOps("pll") : o.do \in {"start", "await"}
  BY Fields DEF StartOps
<1>3. /\ PllWord.do = "pll" /\ PllWord.at = AppSource
      /\ PllWord.v = Factor(Multipliers[Multiplier + 1])
  <2> DEFINE code == Factor(Multipliers[Multiplier + 1])
  <2> HIDE DEF code
  <2>1. Op("pll", AppSource, code).do = "pll" /\ Op("pll", AppSource, code).at = AppSource
        /\ Op("pll", AppSource, code).v = code
    BY Fields
  <2> QED
    BY <2>1 DEF PllWord, code
<1>4. /\ HalfBus.do = "ppre1" /\ HalfBus.v = 2
      /\ AppWait.do = "stmWait" /\ AppWait.v = FlashWait
  BY Fields DEF HalfBus, AppWait
<1>5. ToPll.do = "switch" /\ ToPll.at = "pll" /\ Named.do = "identify"
  BY Fields DEF ToPll, Named
<1> QED
  BY <1>1, <1>2, <1>3, <1>4, <1>5

(* An access of the clock unit leaves the fields of its word there.          *)
LEMMA RegistersKept == ASSUME Registers, ClockOp PROVE Registers'
<1> HIDE DEF Next1
<1> DEFINE p == UsbPrescaler((2 * getClock("pSYSCLOCK")) \div 48)
<1> HIDE DEF p
<1>1. \/ cfg0' = cfg0
      \/ cfg0' = [cfg0 EXCEPT !.src = Next1.at, !.mul = Next1.v]
      \/ cfg0' = [cfg0 EXCEPT !.psc = Next1.v]
      \/ cfg0' = [cfg0 EXCEPT !.psc = p]
      \/ cfg0' = [cfg0 EXCEPT !.ppre1 = Next1.v]
      \/ cfg0' = [cfg0 EXCEPT !.sw = Next1.at]
  BY DEF ClockOp, p
<1> QED
  BY <1>1 DEF Registers

(* What comes before the record leaves the PLL off and the clock the RC      *)
(* oscillator.                                                               *)
LEMMA StopKept ==
  ASSUME Cold, Registers, Settings, ClockOp, Next1 \in StopOps
  PROVE  Cold' /\ UNCHANGED SystemCoreClock
<1>1. /\ Next1.do \in {"switch", "switched", "stop", "start", "await"}
      /\ Next1.do = "switch" => Next1.at = "hsi"
      /\ Next1.do = "start" => Next1.at = "hse"
      /\ Next1.do = "stop" => Next1.at \in {"hse", "pll"}
  BY PlaceFacts
<1> HIDE DEF Next1
<1>2. cfg0' = cfg0 \/ cfg0' = [cfg0 EXCEPT !.sw = "hsi"]
  BY <1>1 DEF ClockOp
<1>3. \/ osc' = osc
      \/ osc' = [osc EXCEPT !["hse"] = "starting"]
      \/ osc' = [osc EXCEPT !["hse"] = "off"]
      \/ osc' = [osc EXCEPT !["pll"] = "off"]
  BY <1>1 DEF ClockOp
<1>4. osc'.pll = "off"
  BY <1>3 DEF Cold, Settings, Oscs
<1>5. UNCHANGED <<ticking, cntr, SystemCoreClock>>
  BY <1>1 DEF ClockOp, pads, timing
<1> QED
  BY <1>2, <1>4, <1>5 DEF Cold, Unswitched, Quiet, Registers

(* One access of an application's set-up: the PLL's word is written while    *)
(* the PLL is off, the wait states before the switch, the prescaler last.    *)
LEMMA PlaceKept ==
  ASSUME AppPlace, Registers, Settings, Program, todo # <<>>
  PROVE  AppPlace' /\ Registers'
<1> DEFINE K == {"start", "await", "pll", "psc", "ppre1", "usbsel", "wait", "switch", "stop",
                 "switched", "stmWait", "core", "scale"}
           factor == Factor(Multipliers[Multiplier + 1])
           d == UsbPrescaler((2 * Frequency) \div 48)
<1>k. Next1.do \in K => /\ ClockOp /\ todo' = Tail(todo)
                        /\ UNCHANGED <<build, chip, stage, clocked, cntr, ticking>>
                        /\ Registers' /\ (Quiet => Quiet')
  BY ClockOnly, RegistersKept DEF Quiet
<1>f. Next1.do \in K =>
        /\ UNCHANGED <<Vendor, Frequency, AppSource, Multiplier, FlashWait, UsbList>>
        /\ \A list : /\ OnPll(list)' <=> OnPll(list)
                     /\ Slowed(list)' <=> Slowed(list)
                     /\ Halved(list)' <=> Halved(list)
                     /\ Worded(list)' <=> Worded(list)
                     /\ Recorded(list)' <=> Recorded(list)
  BY <1>k, PlacesFixed
<1>s. Next1.do \in K => factor' = factor
  BY <1>f DEF Multipliers, Factor
<1> HIDE DEF factor, d
<1>1. CASE Cold /\ chip = Unknown /\ Begun(todo)
  <2>1. PICK r : Recorded(r) /\ Leads({}, Named, r, todo)
    BY <1>1 DEF Begun
  <2>2. Next1 = Named /\ Tail(todo) = r
    BY <2>1, AppSets, AppSeqs, LeadsFirst DEF Next1
  <2>3. Next1.do = "identify"
    BY <2>2, PlaceFacts
  <2> HIDE DEF Next1
  <2>4. ChipOp
    BY <2>3 DEF Program, ClockOp, EnableOp, PinOp, UsbOp, TickOp, ReadButton, EnterLoop, Blink,
                Does
  <2>5. /\ chip' = [chip EXCEPT !.vendor = Vendor] /\ todo' = r
        /\ UNCHANGED <<build, osc, cfg0, ticking, cntr>>
    BY <2>2, <2>3, <2>4 DEF ChipOp, clock, pads, timing
  <2>6. chip'.vendor = Vendor' /\ Recorded(r)'
    BY <1>1, <2>1, <2>5, PlacesFixed DEF Unknown
  <2>7. Cold' /\ Registers'
    BY <1>1, <2>5 DEF Cold, Unswitched, Quiet, Registers
  <2> QED
    BY <2>5, <2>6, <2>7 DEF AppPlace
<1>2. CASE Cold /\ chip.vendor = Vendor /\ Recorded(todo)
  <2>1. PICK r : Worded(r) /\ Leads(StopOps, Core, r, todo)
    BY <1>2 DEF Recorded
  <2>2. \/ Next1 \in StopOps /\ Leads(StopOps, Core, r, Tail(todo))
        \/ Next1 = Core /\ Tail(todo) = r
    BY <2>1, AppSets, AppSeqs, LeadsFront DEF Next1
  <2>3. CASE Next1 \in StopOps /\ Leads(StopOps, Core, r, Tail(todo))
    <3>1. Next1.do \in K
      BY <2>3, PlaceFacts
    <3>2. Cold'
      BY <1>2, <1>k, <2>3, <3>1, StopKept
    <3>3. Recorded(Tail(todo))
      BY <2>1, <2>3 DEF Recorded
    <3> QED
      BY <1>2, <1>k, <1>f, <3>1, <3>2, <3>3 DEF AppPlace
  <2>4. CASE Next1 = Core /\ Tail(todo) = r
    <3>1. Next1.do = "core" /\ Next1.v = Frequency /\ Next1.do \in K
      BY <2>4, OrderFacts
    <3> HIDE DEF Next1
    <3>2. UNCHANGED <<osc, cfg0>> /\ SystemCoreClock' = Frequency
      BY <1>k, <3>1 DEF ClockOp
    <3>3. Cold' /\ Informed'
      BY <1>2, <1>k, <1>f, <3>1, <3>2 DEF Cold, Unswitched, Informed
    <3> QED
      BY <1>k, <1>f, <2>1, <2>4, <3>1, <3>3 DEF AppPlace
  <2> QED
    BY <2>2, <2>3, <2>4
<1>i. Next1.do \in K \ {"core"} => (Informed => Informed')
  <2> HIDE DEF Next1
  <2> QED
    BY <1>k, <1>f DEF Informed, ClockOp
<1>3. CASE Cold /\ Informed /\ Worded(todo)
  <2>1. PICK r : Halved(r) /\ Leads({}, PllWord, r, todo)
    BY <1>3 DEF Worded
  <2>2. Next1 = PllWord /\ Tail(todo) = r
    BY <2>1, AppSets, AppSeqs, LeadsFirst DEF Next1
  <2>3. Next1.do = "pll" /\ Next1.at = AppSource /\ Next1.v = factor
    BY <2>2, PlaceFacts DEF factor
  <2>4. Next1.do \in K \ {"core"}
    BY <2>3
  <2> HIDE DEF Next1
  <2>5. cfg0' = [cfg0 EXCEPT !.src = AppSource, !.mul = factor]
    BY <1>3, <1>k, <2>3, <2>4 DEF ClockOp, Cold
  <2>6. Unswitched' /\ cfg0'.src = AppSource' /\ cfg0'.mul = factor'
    BY <1>3, <1>k, <1>f, <1>s, <2>4, <2>5 DEF Cold, Unswitched, Registers
  <2>7. Sourced'
    BY <2>6 DEF Sourced, factor
  <2> QED
    BY <1>3, <1>k, <1>f, <1>i, <2>1, <2>2, <2>4, <2>6, <2>7 DEF AppPlace
<1>c. Next1.do \in K /\ UNCHANGED cfg0 => (Unswitched => Unswitched') /\ (Sourced => Sourced')
  BY <1>k, <1>f, <1>s DEF Unswitched, Sourced, factor
<1>4. CASE Unswitched /\ Informed /\ Sourced /\ Halved(todo)
  <2>1. PICK r : Slowed(r) /\ Leads(StartOps("pll"), HalfBus, r, todo)
    BY <1>4 DEF Halved
  <2>2. \/ Next1 \in StartOps("pll") /\ Leads(StartOps("pll"), HalfBus, r, Tail(todo))
        \/ Next1 = HalfBus /\ Tail(todo) = r
    BY <2>1, AppSets, AppSeqs, LeadsFront DEF Next1
  <2>3. CASE Next1 \in StartOps("pll") /\ Leads(StartOps("pll"), HalfBus, r, Tail(todo))
    <3>1. Next1.do \in {"start", "await"}
      BY <2>3, PlaceFacts
    <3>2. Halved(Tail(todo))
      BY <2>1, <2>3 DEF Halved
    <3> HIDE DEF Next1
    <3>3. cfg0' = cfg0 /\ Next1.do \in K \ {"core"}
      BY <1>k, <3>1 DEF ClockOp
    <3> QED
      BY <1>4, <1>k, <1>f, <1>i, <1>c, <3>2, <3>3 DEF AppPlace
  <2>4. CASE Next1 = HalfBus /\ Tail(todo) = r
    <3>1. Next1.do = "ppre1" /\ Next1.v = 2
      BY <2>4, PlaceFacts
    <3> HIDE DEF Next1
    <3>2. cfg0' = [cfg0 EXCEPT !.ppre1 = 2] /\ Next1.do \in K \ {"core"}
      BY <1>k, <3>1 DEF ClockOp
    <3>3. Unswitched' /\ cfg0'.ppre1 = 2 /\ UNCHANGED <<cfg0.src, cfg0.mul>>
      BY <1>4, <1>k, <3>2 DEF Unswitched, Registers
    <3>4. Sourced'
      BY <1>4, <1>f, <1>s, <3>2, <3>3 DEF Sourced, factor
    <3> QED
      BY <1>4, <1>k, <1>f, <1>i, <2>1, <2>4, <3>2, <3>3, <3>4 DEF AppPlace
  <2> QED
    BY <2>2, <2>3, <2>4
<1>5. CASE Unswitched /\ Informed /\ Sourced /\ cfg0.ppre1 = 2 /\ Slowed(todo)
  <2>1. PICK r : OnPll(r) /\ Leads({}, AppWait, r, todo)
    BY <1>5 DEF Slowed
  <2>2. Next1 = AppWait /\ Tail(todo) = r
    BY <2>1, AppSets, AppSeqs, LeadsFirst DEF Next1
  <2>3. Next1.do = "stmWait" /\ Next1.v = FlashWait
    BY <2>2, PlaceFacts
  <2> HIDE DEF Next1
  <2>4. ~build.gd => ~is_gd32
    BY <1>5, VendorTells DEF Informed, is_gd32, Settings
  <2>5. cfg0' = cfg0 /\ Next1.do \in K \ {"core"} /\ (~is_gd32 => wait' = FlashWait)
    BY <1>k, <2>3 DEF ClockOp
  <2>6. WaitFits'
    BY <1>k, <1>f, <2>4, <2>5 DEF WaitFits
  <2> QED
    BY <1>5, <1>k, <1>f, <1>i, <1>c, <2>1, <2>2, <2>5, <2>6 DEF AppPlace
<1>6. CASE Unswitched /\ Informed /\ Sourced /\ cfg0.ppre1 = 2 /\ WaitFits /\ OnPll(todo)
  <2>1. Next1 = ToPll /\ Tail(todo) = UsbList
    BY <1>6, AppSets, LeadsFirst DEF Next1, OnPll
  <2>2. Next1.do = "switch" /\ Next1.at = "pll"
    BY <2>1, PlaceFacts
  <2> HIDE DEF Next1
  <2>3. cfg0' = [cfg0 EXCEPT !.sw = "pll"] /\ wait' = wait /\ Next1.do \in K \ {"core"}
    BY <1>k, <2>2 DEF ClockOp
  <2>4. /\ cfg0'.sw = "pll" /\ cfg0'.sws = "hsi" /\ cfg0'.ppre1 = 2
        /\ UNCHANGED <<cfg0.src, cfg0.mul>>
    BY <1>6, <2>3 DEF Unswitched, Registers
  <2>5. Sourced' /\ WaitFits'
    BY <1>6, <1>k, <1>f, <1>s, <2>3, <2>4 DEF Sourced, WaitFits, factor
  <2>6. Running'
    BY <1>6, <1>k, <1>i, <2>3, <2>4, <2>5 DEF Running, Unswitched
  <2> QED
    BY <1>k, <1>f, <2>1, <2>3, <2>6 DEF AppPlace
<1>7. CASE Running /\ todo = UsbList
  <2>1. Next1 = Scale /\ Tail(todo) = <<>>
    BY <1>7 DEF Next1, UsbList
  <2>2. Next1.do = "scale"
    BY <2>1, OrderFacts
  <2> HIDE DEF Next1
  <2>3. UsbPrescaler((2 * getClock("pSYSCLOCK")) \div 48) = d
    BY <1>7 DEF Running, Informed, getClock, d
  <2>4. cfg0' = [cfg0 EXCEPT !.psc = d] /\ wait' = wait /\ Next1.do \in K \ {"core"}
    BY <1>k, <2>2, <2>3 DEF ClockOp
  <2>5. cfg0'.psc = d /\ UNCHANGED <<cfg0.src, cfg0.mul, cfg0.ppre1, cfg0.sw, cfg0.sws>>
    BY <2>4 DEF Registers
  <2>6. d' = d
    <3>1. is_gd32' = is_gd32
      BY <1>k, <2>4 DEF is_gd32
    <3> QED
      BY <1>f, <2>4, <3>1 DEF d, UsbPrescaler
  <2>7. Sourced' /\ WaitFits'
    BY <1>7, <1>k, <1>f, <1>s, <2>4, <2>5 DEF Running, Sourced, WaitFits, factor
  <2>8. Running'
    BY <1>7, <1>k, <1>i, <2>4, <2>5, <2>7 DEF Running
  <2>9. cfg0'.psc = UsbPrescaler((2 * Frequency) \div 48)'
    BY <2>5, <2>6 DEF d
  <2> QED
    BY <1>k, <2>1, <2>4, <2>8, <2>9 DEF AppPlace
<1> QED
  BY <1>1, <1>2, <1>3, <1>4, <1>5, <1>6, <1>7 DEF AppPlace

-----------------------------------------------------------------------------
(* The places of all programs together. *)
LedOps == {o \in StageTwoOps : o.do = "level"}
LoopPlace ==
  /\ PllSet /\ Switching /\ (build.crystal \/ usbsel)
  /\ chip = ChipIs(build.gd, KnownSize) /\ todo \in Seq(LedOps)
Places ==
  /\ Registers
  /\ stage = "stage1" => Cold /\ chip = Unknown
  /\ stage = "stage2" => StageTwoOrder
  /\ stage = "loop" => LoopPlace
  /\ stage = "app" => AppPlace

(* Stage 2 enters the loop when its clocks are set up.                       *)
LEMMA LoopLast ==
  ASSUME ClockOrder, todo # <<>>, Next1.do = "loop"
  PROVE  PllSet /\ Switching /\ (build.crystal \/ usbsel)
<1>o. /\ \A c, o : o \in StartOps(c) => o.do \in {"start", "await"}
      /\ \A o \in BusOps : o.do \in {"psc", "ppre1"}
      /\ PllTimes9.do = "pll" /\ TwoWaits.do = "wait" /\ ToPll.do = "switch"
      /\ UseIrc48.do = "usbsel"
  BY Fields DEF StartOps, BusOps, PllTimes9, TwoWaits, ToPll, UseIrc48
<1>1. ~Unset(todo)
  <2>1. ASSUME NEW r, Divided(r), Leads(StartOps("hse"), PllTimes9, r, todo) PROVE FALSE
    <3>1. Next1 \in StartOps("hse") \/ Next1 = PllTimes9
      BY <2>1, ClockSets, ClockSeqs, LeadsFront DEF Next1
    <3> QED
      BY <1>o, <3>1
  <2> QED
    BY <2>1 DEF Unset
<1>2. ~Divided(todo)
  <2>1. ASSUME NEW r, Waited(r), Leads(BusOps, TwoWaits, r, todo) PROVE FALSE
    <3>1. Next1 \in BusOps \/ Next1 = TwoWaits
      BY <2>1, ClockSets, ClockSeqs, LeadsFront DEF Next1
    <3> QED
      BY <1>o, <3>1
  <2> QED
    BY <2>1 DEF Divided
<1>3. ~Waited(todo)
  <2>1. ASSUME NEW r, Clocked(r), Leads(StartOps("pll"), ToPll, r, todo) PROVE FALSE
    <3>1. Next1 \in StartOps("pll") \/ Next1 = ToPll
      BY <2>1, ClockSets, ClockSeqs, LeadsFront DEF Next1
    <3> QED
      BY <1>o, <3>1
  <2> QED
    BY <2>1 DEF Waited
<1>4. build.crystal \/ ~Clocked(todo)
  <2>1. ASSUME NEW r \in Seq(CalmOps), Leads(StartOps("irc48"), UseIrc48, r, todo) PROVE FALSE
    <3>1. r \in Seq(StageTwoOps)
      BY ClockSets, SeqMonotonic
    <3>2. Next1 \in StartOps("irc48") \/ Next1 = UseIrc48
      BY <2>1, <3>1, ClockSets, LeadsFront DEF Next1
    <3> QED
      BY <1>o, <3>2
  <2> QED
    BY <2>1 DEF Clocked
<1> QED
  BY <1>1, <1>2, <1>3, <1>4 DEF ClockOrder

(* Entering it keeps the settings.                                           *)
LEMMA LoopEntered ==
  ASSUME StageTwoOrder, Registers, Settings, EnterLoop
  PROVE  LoopPlace'
<1>1. Program /\ todo # <<>> /\ Next1.do = "loop"
  BY DEF EnterLoop, Does, Program
<1>2. ClockOrder /\ chip = ChipIs(build.gd, KnownSize)
  BY <1>1, StageTwoKept
<1>3. PllSet /\ Switching /\ (build.crystal \/ usbsel)
  BY <1>1, <1>2, LoopLast
<1>4. UNCHANGED <<build, chip, cfg0, usbsel, wait>> /\ todo' = <<>>
  BY DEF EnterLoop, clock
<1>5. UNCHANGED <<Source, Vendor, KnownSize>>
  BY <1>4, LandmarksFixed DEF KnownSize
<1>6. PllSet' /\ Switching'
  BY <1>3, <1>4, <1>5 DEF PllSet, Switching
<1>7. chip' = ChipIs(build.gd, KnownSize)'
  BY <1>2, <1>4, <1>5 DEF ChipIs
<1>8. todo' \in Seq(LedOps)'
  BY <1>4, EmptySeq
<1> QED
  BY <1>3, <1>4, <1>6, <1>7, <1>8 DEF LoopPlace

(* The loop only writes LEDs.                                                *)
LEMMA LoopKept ==
  ASSUME LoopPlace, stage = "loop", Program
  PROVE  LoopPlace' /\ stage' = "loop" /\ UNCHANGED cfg0
<1>1. CASE todo # <<>>
  <2>1. Next1 \in LedOps /\ Tail(todo) \in Seq(LedOps)
    BY <1>1, HeadTailProperties DEF Next1, LoopPlace
  <2>2. Next1.do = "level"
    BY <2>1 DEF LedOps
  <2> HIDE DEF Next1
  <2>3. PinOp
    BY <1>1, <2>2 DEF Program, ClockOp, ChipOp, EnableOp, UsbOp, TickOp, ReadButton, EnterLoop,
                      Blink, Does
  <2>4. UNCHANGED <<build, chip, cfg0, usbsel, wait, stage>> /\ todo' \in Seq(LedOps)
    BY <2>1, <2>3 DEF PinOp, clock
  <2> QED
    BY <2>4 DEF LoopPlace, PllSet, Switching, Source, ChipIs, KnownSize, Vendor, RamSize, LedOps
<1>2. CASE todo = <<>>
  <2>1. Blink
    BY <1>2 DEF Program, ClockOp, ChipOp, EnableOp, PinOp, UsbOp, TickOp, ReadButton, EnterLoop,
                Does
  <2> DEFINE bit == IF led THEN 1 ELSE 0
             ledPin == IF build.crystal THEN "PC13" ELSE "PA0"
  <2>2. UNCHANGED <<build, chip, cfg0, usbsel, wait, stage>>
        /\ todo' = DigitalWrite(ledPin, bit) \o DigitalWrite("PA8", bit)
                     \o DigitalWrite("PB13", bit)
    BY <2>1 DEF Blink, clock
  <2>3. bit \in {0, 1} /\ ledPin \in {"PC13", "PA0", "PA8", "PB13"}
    OBVIOUS
  <2> HIDE DEF bit, ledPin
  <2>4. \A p \in {"PC13", "PA0", "PA8", "PB13"} : DigitalWrite(p, bit) \in Seq(LedOps)
    <3>1. \A p \in {"PC13", "PA0", "PA8", "PB13"} : Op("level", p, bit) \in LedOps
      <4>1. \A p \in {"PC13", "PA0", "PA8", "PB13"} : Op("level", p, bit) \in ChipFree
        BY <2>3, FreeFacts
      <4>2. ChipFree \subseteq StageTwoOps
        BY DEF ChipFree, NoChip
      <4>3. \A p : Op("level", p, bit).do = "level"
        BY Fields
      <4> QED
        BY <4>1, <4>2, <4>3 DEF LedOps
    <3> QED
      BY <3>1, SmallLists DEF DigitalWrite
  <2>5. todo' \in Seq(LedOps)
    BY <2>2, <2>3, <2>4, SmallLists
  <2> QED
    BY <2>2, <2>5 DEF LoopPlace, PllSet, Switching, Source, ChipIs, KnownSize, Vendor, RamSize,
                      LedOps
<1> QED
  BY <1>1, <1>2

(* Stage 1 leaves the clocks alone, and what it starts starts in order.      *)
LEMMA StageOnePlaces ==
  ASSUME Places, stage = "stage1", Booting, Program
  PROVE  Places'
<1>1. /\ todo # <<>>
      /\ \/ Next1.do \in {"enable", "level", "mode"}
         \/ Next1.do = "read"
  <2>1. \/ todo # <<>> /\ Head(todo) \in {Op("enable", "PB", 0), Op("enable", "PC", 0),
                                          Op("enable", "AF", 0)}
        \/ todo # <<>> /\ Head(todo) \in {Op("level", FORCE_DFU_IO, 1),
                                          Op("mode", FORCE_DFU_IO, "pulled")}
        \/ todo # <<>> /\ Head(todo) = Op("read", FORCE_DFU_IO, 0)
    BY BootLists DEF Booting
  <2> QED
    BY <2>1, Fields DEF Next1
<1> HIDE DEF Next1
<1>2. CASE Next1.do \in {"enable", "level", "mode"}
  <2>1. EnableOp \/ PinOp
    BY <1>1, <1>2 DEF Program, ClockOp, ChipOp, UsbOp, TickOp, ReadButton, EnterLoop, Blink, Does
  <2>2. UNCHANGED <<stage, chip, osc, cfg0, ticking, cntr>>
    BY <2>1 DEF EnableOp, PinOp, clock, pads, timing
  <2> QED
    BY <2>2 DEF Places, Registers, Cold, Unswitched, Quiet, Unknown
<1>3. CASE Next1.do = "read"
  <2>1. ReadButton
    BY <1>1, <1>3 DEF Program, ClockOp, ChipOp, EnableOp, PinOp, UsbOp, TickOp, EnterLoop, Blink,
                      Does
  <2>2. UNCHANGED <<build, osc, cfg0, ticking, cntr>> /\ chip' = Unknown
    BY <2>1 DEF ReadButton, clock, pads, timing
  <2>3. Cold' /\ Registers'
    BY <2>2 DEF Places, Registers, Cold, Unswitched, Quiet
  <2>4. stage' \in {"stage2", "app"}
        /\ (stage' = "stage2" => todo' = Stage2Entry)
        /\ (stage' = "app" =>
              todo' = InitSystemClock \o (IF build.external THEN EnableUsb48Mhz ELSE <<>>))
    BY <2>1 DEF ReadButton
  <2>5. ASSUME stage' = "stage2" PROVE Entered(todo)'
    <3>1. PICK r : Asked(r) /\ Leads({}, Named, r, todo')
      BY <2>4, <2>5, EntryOrder DEF Entered
    <3>2. Asked(r)'
      BY <2>2, <3>1, LandmarksFixed DEF Asked, Ready
    <3> QED
      BY <3>1, <3>2 DEF Entered
  <2>6. ASSUME stage' = "app" PROVE Begun(todo)'
    <3>1. PICK r : Recorded(r) /\ Leads({}, Named, r, todo')
      BY <2>4, <2>6, AppChain DEF Begun
    <3>2. Recorded(r)'
      BY <2>2, <3>1, PlacesFixed
    <3> QED
      BY <3>1, <3>2 DEF Begun
  <2>7. chip' = Unknown'
    BY <2>2 DEF Unknown
  <2> QED
    BY <2>3, <2>4, <2>5, <2>6, <2>7 DEF Places, StageTwoOrder, AppPlace
<1> QED
  BY <1>1, <1>2, <1>3

(* Every access of every program.                                            *)
LEMMA ProgramPlaces == ASSUME BoardInv, Settings, Places, Program PROVE Places'
<1>1. CASE stage = "stage1"
  BY <1>1, StageOnePlaces DEF BoardInv
<1>2. CASE stage = "stage2"
  <2>1. todo # <<>>
    BY <1>2 DEF Program, ClockOp, ChipOp, EnableOp, PinOp, UsbOp, TickOp, ReadButton, EnterLoop,
                Blink, Does
  <2>2. stage' \in {"stage2", "loop"}
    BY <1>2, <2>1, LateStep, HoldStep DEF BoardInv
  <2>3. StageTwoOrder' /\ Registers'
    BY <1>2, <2>1, StageTwoKept DEF Places
  <2>4. stage' = "loop" => LoopPlace'
    <3>1. stage' = "loop" => EnterLoop
      BY <1>2 DEF Program, ClockOp, ChipOp, EnableOp, PinOp, UsbOp, TickOp, ReadButton, Blink
    <3> QED
      BY <1>2, <3>1, LoopEntered DEF Places
  <2> QED
    BY <2>2, <2>3, <2>4 DEF Places
<1>3. CASE stage = "loop"
  <2>1. LoopPlace' /\ stage' = "loop" /\ UNCHANGED cfg0
    BY <1>3, LoopKept DEF Places
  <2>2. Registers'
    BY <2>1 DEF Places, Registers
  <2> QED
    BY <2>1, <2>2 DEF Places
<1>4. CASE stage = "app"
  <2>1. todo # <<>>
    BY <1>4 DEF Program, ClockOp, ChipOp, EnableOp, PinOp, UsbOp, TickOp, ReadButton, EnterLoop,
                Blink, Does
  <2>2. AppPlace' /\ Registers'
    BY <1>4, <2>1, PlaceKept DEF Places
  <2>3. stage' = "app"
    BY <1>4, AppStep DEF BoardInv
  <2> QED
    BY <2>2, <2>3 DEF Places
<1> QED
  BY <1>1, <1>2, <1>3, <1>4 DEF BoardInv

(* The hardware starts no PLL that was not asked for, and takes only the     *)
(* clock that was.                                                           *)
LEMMA AroundPlaces ==
  ASSUME Settings, Places, Stable \/ Switched \/ Tick \/ Press \/ UNCHANGED vars
  PROVE  Places'
<1>1. UNCHANGED <<build, stage, todo, chip, usbsel, wait, SystemCoreClock, cntr, ticking>>
  BY DEF Stable, Switched, Tick, Press, vars, clock, pads, timing
<1>2. osc.pll = "off" => osc'.pll = "off"
  <2>1. osc' = osc \/ \E o \in Oscs : osc[o] = "starting" /\ osc' = [osc EXCEPT ![o] = "on"]
    BY DEF Stable, Switched, Tick, Press, vars, clock, Oscs
  <2> QED
    BY <2>1 DEF Settings, Oscs
<1>3. \/ cfg0' = cfg0
      \/ cfg0.sws # cfg0.sw /\ cfg0' = [cfg0 EXCEPT !.sws = cfg0.sw]
  BY DEF Stable, Switched, Tick, Press, vars, clock
<1>4. Registers' /\ UNCHANGED <<cfg0.src, cfg0.mul, cfg0.psc, cfg0.ppre1, cfg0.sw>>
      /\ (cfg0'.sws = cfg0.sws \/ (cfg0.sws # cfg0.sw /\ cfg0'.sws = cfg0.sw))
  BY <1>3 DEF Places, Registers
<1>5. (Cold => Cold') /\ (Unswitched => Unswitched') /\ (Quiet => Quiet')
      /\ (Switching => Switching')
  BY <1>1, <1>2, <1>4 DEF Cold, Unswitched, Quiet, Switching
<1>6. /\ UNCHANGED <<Source, Vendor, KnownSize, Frequency, AppSource, Multiplier, FlashWait,
                     UsbList>>
      /\ \A list : /\ Clocked(list)' <=> Clocked(list)
                   /\ Waited(list)' <=> Waited(list)
                   /\ Divided(list)' <=> Divided(list)
                   /\ Unset(list)' <=> Unset(list)
                   /\ Paged(list)' <=> Paged(list)
  BY <1>1, LandmarksFixed, PlacesFixed DEF KnownSize
<1>7. PllSet => PllSet'
  BY <1>4, <1>6 DEF PllSet
<1>8. \A g, p : ChipIs(g, p)' = ChipIs(g, p)
  BY <1>6 DEF ChipIs
<1>9. (Asked(todo) => Asked(todo)') /\ (Entered(todo) => Entered(todo)')
  <2>1. \A list : Asked(list)' <=> Asked(list)
    BY <1>6 DEF Asked, Ready
  <2>2. Entered(todo) => Entered(todo)'
    BY <1>1, <2>1 DEF Entered
  <2> QED
    BY <1>1, <2>1, <2>2
<1>10. ClockOrder => ClockOrder'
  BY <1>1, <1>5, <1>6, <1>7 DEF ClockOrder
<1>11. PageOrder => PageOrder'
  BY <1>1, <1>6, <1>8 DEF PageOrder
<1>12. StageTwoOrder => StageTwoOrder'
  BY <1>1, <1>5, <1>8, <1>9, <1>10, <1>11 DEF StageTwoOrder, Unknown
<1>13. LoopPlace => LoopPlace'
  BY <1>1, <1>5, <1>6, <1>7, <1>8 DEF LoopPlace, LedOps
<1>14. AppPlace => AppPlace'
  <2>1. \A list : /\ OnPll(list)' <=> OnPll(list)
                  /\ Slowed(list)' <=> Slowed(list)
                  /\ Halved(list)' <=> Halved(list)
                  /\ Worded(list)' <=> Worded(list)
                  /\ Recorded(list)' <=> Recorded(list)
    BY <1>1, PlacesFixed
  <2>2. Begun(todo) => Begun(todo)'
    BY <1>1, <2>1 DEF Begun
  <2> DEFINE factor == Factor(Multipliers[Multiplier + 1])
             d == UsbPrescaler((2 * Frequency) \div 48)
  <2>3. factor' = factor
    BY <1>6 DEF Multipliers, Factor
  <2>4. d' = d
    BY <1>1, <1>6 DEF UsbPrescaler, is_gd32
  <2> HIDE DEF factor, d
  <2>5. Sourced => Sourced'
    BY <1>4, <1>6, <2>3 DEF Sourced, factor
  <2>6. (Informed => Informed') /\ (WaitFits => WaitFits')
    BY <1>1, <1>6 DEF Informed, WaitFits
  <2>7. Running => Running'
    BY <1>4, <1>5, <2>5, <2>6 DEF Running
  <2>8. CASE Running /\ todo = <<>> /\ cfg0.psc = d
    <3>1. Running' /\ todo' = <<>> /\ cfg0'.psc = d'
      BY <1>1, <1>4, <2>4, <2>7, <2>8
    <3> QED
      BY <3>1 DEF AppPlace, d
  <2>9. CASE Running /\ todo = UsbList
    BY <1>1, <1>6, <2>7, <2>9 DEF AppPlace
  <2>10. CASE \/ Unswitched /\ Informed /\ Sourced /\ Halved(todo)
              \/ Unswitched /\ Informed /\ Sourced /\ cfg0.ppre1 = 2 /\ Slowed(todo)
              \/ Unswitched /\ Informed /\ Sourced /\ cfg0.ppre1 = 2 /\ WaitFits /\ OnPll(todo)
    BY <1>1, <1>4, <1>5, <2>1, <2>5, <2>6, <2>10 DEF AppPlace
  <2>11. CASE \/ Cold /\ chip = Unknown /\ Begun(todo)
              \/ Cold /\ chip.vendor = Vendor /\ Recorded(todo)
              \/ Cold /\ Informed /\ Worded(todo)
    BY <1>1, <1>5, <1>6, <2>1, <2>2, <2>6, <2>11 DEF AppPlace, Unknown
  <2> QED
    BY <2>8, <2>9, <2>10, <2>11 DEF AppPlace, d
<1> QED
  BY <1>1, <1>4, <1>5, <1>12, <1>13, <1>14 DEF Places, Unknown

(* A board that is switched on has nothing set.                              *)
LEMMA StartPlaces == Init => Places
<1> SUFFICES ASSUME Init PROVE Places
  OBVIOUS
<1>1. /\ cfg0 = [src |-> "hsi", mul |-> 2, psc |-> 0, ppre1 |-> 1, sw |-> "hsi", sws |-> "hsi"]
      /\ osc = [hse |-> "off", pll |-> "off", irc48 |-> "off"]
      /\ stage = "stage1" /\ chip = Unknown /\ ~ticking /\ "pdwn" \in cntr
  BY DEF Init
<1> QED
  BY <1>1 DEF Places, Registers, Cold, Unswitched, Quiet

(* The same after a reset.                                                   *)
LEMMA ResetPlaces == Reset => Places'
<1> SUFFICES ASSUME Reset PROVE Places'
  OBVIOUS
<1>1. /\ cfg0' = [src |-> "hsi", mul |-> 2, psc |-> 0, ppre1 |-> 1, sw |-> "hsi", sws |-> "hsi"]
      /\ osc' = [hse |-> "off", pll |-> "off", irc48 |-> "off"]
      /\ stage' = "stage1" /\ chip' = Unknown' /\ ~ticking' /\ "pdwn" \in cntr'
  BY DEF Reset, Unknown
<1> QED
  BY <1>1 DEF Places, Registers, Cold, Unswitched, Quiet

-----------------------------------------------------------------------------
(* What the places say of the settings. *)

(* setPll's table, and the PLL that reads its codes, make the multiplier of  *)
(* it, but for 15 (lnRCU_systemClock_arm_gd32fx.cpp:89-99).                  *)
LEMMA TableIsRight == \A m \in 2 .. 24 \ {15} : Factor(Multipliers[m + 1]) = m
<1> SUFFICES ASSUME NEW m \in 2 .. 24 \ {15} PROVE Factor(Multipliers[m + 1]) = m
  OBVIOUS
<1>1. CASE m \in 2 .. 7
  BY <1>1 DEF Factor, Multipliers
<1>2. CASE m \in 8 .. 14
  BY <1>2 DEF Factor, Multipliers
<1>3. CASE m \in 16 .. 24
  BY <1>3 DEF Factor, Multipliers
<1> QED
  BY <1>1, <1>2, <1>3

(* The numbers of an application: its PLL runs at the frequency that the     *)
(* library has recorded, which is even and no more than the build's speed,   *)
(* and with a crystal is 24 MHz times a divider of the USB clock.            *)
LEMMA AppNumbers ==
  ASSUME ExactSpeeds, build \in Builds
  PROVE  /\ Factor(Multipliers[Multiplier + 1]) = Multiplier
         /\ Frequency \in Nat /\ Frequency # 0 /\ Frequency <= build.speed
         /\ (Frequency \div 2) * 2 = Frequency /\ (2 * Frequency) \div 2 = Frequency
         /\ build.external => \E t \in (IF build.gd THEN 2 .. 5 ELSE 2 .. 3) :
                                (2 * Frequency) \div 48 = t /\ Frequency = 24 * t
<1>1. build.speed \in Nat /\ build.external \in BOOLEAN /\ build.gd \in BOOLEAN
  BY BoardAssumption
<1>2. Multiplier \in 2 .. 24 \ {15} /\ (build.external => Multiplier % 3 = 0)
  BY DEF ExactSpeeds, Multiplier, InputClock
<1>3. Factor(Multipliers[Multiplier + 1]) = Multiplier
  BY <1>2, TableIsRight
<1>4. Frequency = (IF build.external THEN 8 ELSE 4) * Multiplier
  BY DEF Frequency, InputClock
<1>5. Frequency <= build.speed
  BY <1>1, <1>2, <1>4 DEF Multiplier, InputClock
<1>6. /\ Frequency \in Nat /\ Frequency # 0
      /\ (Frequency \div 2) * 2 = Frequency /\ (2 * Frequency) \div 2 = Frequency
  BY <1>1, <1>2, <1>4
<1>7. ASSUME build.external
      PROVE  \E t \in (IF build.gd THEN 2 .. 5 ELSE 2 .. 3) :
               (2 * Frequency) \div 48 = t /\ Frequency = 24 * t
  <2> DEFINE t == Multiplier \div 3
  <2>1. Multiplier = 3 * t /\ t \in Nat
    BY <1>2, <1>7
  <2> HIDE DEF t
  <2>2. Frequency = 24 * t
    BY <1>4, <1>7, <2>1
  <2>3. (2 * Frequency) \div 48 = t
    BY <2>1, <2>2
  <2>4. Frequency = 8 * (build.speed \div 8)
    BY <1>7 DEF Frequency, InputClock, Multiplier
  <2>5. t \in (IF build.gd THEN 2 .. 5 ELSE 2 .. 3)
    BY <1>7, <2>3, <2>4, SpeedAssumption
  <2> QED
    BY <2>2, <2>3, <2>5
<1> QED
  BY <1>3, <1>5, <1>6, <1>7

(* The settings in stage 1, stage 2 and the loop.                            *)
LEMMA StageFits ==
  ASSUME Settings, Places, stage \in {"stage1", "stage2", "loop"}
  PROVE  SettingsFit
<1>1. \/ Unswitched
      \/ PllSet /\ Switching /\ (Quiet \/ build.crystal \/ usbsel)
  BY DEF Places, StageTwoOrder, ClockOrder, LoopPlace, Cold
<1>2. build.crystal \in BOOLEAN /\ build \in Builds
  BY BoardAssumption DEF Settings
<1>3. SysFreq = 8 => wait >= Needed(SysFreq)
  BY DEF Needed, Settings
<1>4. CASE Unswitched
  <2>1. SysFreq = 8 /\ ~UsbDrives /\ ~ticking
    BY <1>4 DEF Unswitched, Quiet, SysFreq, UsbDrives
  <2>2. stage = "loop" => cfg0.sw = "pll"
    BY DEF Places, LoopPlace, Switching
  <2>3. stage # "loop"
    BY <1>4, <2>2 DEF Unswitched
  <2> QED
    BY <1>3, <2>1, <2>3 DEF SettingsFit, AppReady
<1>5. CASE PllSet /\ Switching /\ (Quiet \/ build.crystal \/ usbsel)
  <2>1. PllFreq = IF build.crystal THEN 72 ELSE 36
    BY <1>2, <1>5 DEF PllSet, PllFreq, Source
  <2>2. SysFreq \in {8, 36, 72} /\ wait = 2
    BY <1>5, <2>1 DEF SysFreq, Switching
  <2>3. wait >= Needed(SysFreq)
    BY <2>2 DEF Needed
  <2>4. UsbDrives => UsbFreq = 48
    <3>1. UsbDrives => build.crystal \/ usbsel
      BY <1>5 DEF UsbDrives, Quiet
    <3>2. <<3, 2, 5, 4>>[cfg0.psc + 1] = 3
      BY <1>5 DEF Switching
    <3> QED
      BY <2>1, <3>1, <3>2 DEF UsbFreq
  <2>5. cfg0.sws = cfg0.sw => configSYSTICK_CLOCK_HZ = SysFreq
    BY <1>5, <2>1 DEF Switching, SysFreq, configSYSTICK_CLOCK_HZ
  <2>6. stage = "loop" => chip = [vendor |-> IF build.gd THEN "GD" ELSE "STM",
                                  gd32 |-> build.gd,
                                  page |-> IF build.gd THEN 2048 ELSE 1024]
    BY <1>2, VendorTells DEF Places, LoopPlace, ChipIs, KnownSize
  <2> QED
    BY <2>3, <2>4, <2>5, <2>6 DEF SettingsFit, AppReady
<1> QED
  BY <1>1, <1>4, <1>5

(* Those of an application.                                                  *)
LEMMA AppSettingsFit ==
  ASSUME ExactSpeeds, Settings, AppPlace, stage = "app"
  PROVE  SettingsFit
<1>1. build \in Builds /\ build.external \in BOOLEAN /\ build.gd \in BOOLEAN /\ build.speed \in Nat
  BY BoardAssumption DEF Settings
<1>2. /\ Factor(Multipliers[Multiplier + 1]) = Multiplier
      /\ Frequency \in Nat /\ Frequency # 0 /\ Frequency <= build.speed
      /\ (Frequency \div 2) * 2 = Frequency /\ (2 * Frequency) \div 2 = Frequency
      /\ build.external => \E t \in (IF build.gd THEN 2 .. 5 ELSE 2 .. 3) :
                             (2 * Frequency) \div 48 = t /\ Frequency = 24 * t
  BY <1>1, AppNumbers
<1>3. Quiet
  BY DEF AppPlace, Cold, Unswitched, Running
<1>4. ~UsbDrives /\ ~ticking
  BY <1>3 DEF Quiet, UsbDrives
<1>5. ASSUME Unswitched PROVE SettingsFit
  <2>1. SysFreq = 8 /\ ~AppReady
    BY <1>5 DEF Unswitched, SysFreq, AppReady
  <2>2. wait >= Needed(SysFreq)
    BY <2>1 DEF Needed, Settings
  <2> QED
    BY <1>4, <2>1, <2>2 DEF SettingsFit
<1>6. ASSUME Running, todo = UsbList \/ cfg0.psc = UsbPrescaler((2 * Frequency) \div 48)
      PROVE  SettingsFit
  <2>1. PllFreq = Frequency
    <3>1. PllFreq = (IF cfg0.src = "hse" THEN 8 ELSE 4) * Multiplier
      BY <1>2, <1>6 DEF PllFreq, Running, Sourced
    <3>2. cfg0.src = IF build.external THEN "hse" ELSE "hsi"
      BY <1>6 DEF Running, Sourced, AppSource
    <3> QED
      BY <1>1, <3>1, <3>2 DEF Frequency, InputClock
  <2> HIDE DEF Frequency
  <2>2. SysFreq \in {8, Frequency} /\ (cfg0.sws = "pll" => SysFreq = Frequency)
    BY <2>1 DEF SysFreq
  <2>3. ~build.gd => wait >= Needed(SysFreq)
    <3>1. ~build.gd => wait = FlashWait
      BY <1>6 DEF Running, WaitFits
    <3>2. FlashWait >= Needed(Frequency) /\ FlashWait >= Needed(8)
      BY <1>1, <1>2 DEF FlashWait, Needed
    <3> QED
      BY <2>2, <3>1, <3>2
  <2>4. AppReady /\ build.external => UsbFreq = 48
    <3> SUFFICES ASSUME AppReady, build.external PROVE UsbFreq = 48
      OBVIOUS
    <3>1. todo # UsbList
      BY DEF AppReady, UsbList
    <3>2. PICK t \in (IF build.gd THEN 2 .. 5 ELSE 2 .. 3) :
             (2 * Frequency) \div 48 = t /\ Frequency = 24 * t
      BY <1>2
    <3>3. is_gd32 <=> build.gd
      BY <1>1, <1>6, VendorTells DEF Running, Informed, is_gd32
    <3>4. cfg0.psc = UsbPrescaler(t)
      BY <1>6, <3>1, <3>2
    <3>5. <<3, 2, 5, 4>>[UsbPrescaler(t) + 1] = t
      <4>1. t \in {2, 3} \/ (t \in {4, 5} /\ is_gd32)
        BY <1>1, <3>3
      <4> QED
        BY <4>1 DEF UsbPrescaler
    <3>6. (2 * PllFreq) \div t = 48
      <4>1. t \in {2, 3, 4, 5}
        BY <1>1
      <4> QED
        BY <2>1, <3>2, <4>1
    <3> QED
      BY <3>4, <3>5, <3>6 DEF UsbFreq
  <2>5. AppReady => \A periph \in Library : getClock(periph) = BusFreq(periph)
    <3> SUFFICES ASSUME AppReady, NEW periph \in Library PROVE getClock(periph) = BusFreq(periph)
      OBVIOUS
    <3>1. SysFreq = Frequency /\ SystemCoreClock = Frequency /\ cfg0.ppre1 = 2
      BY <1>6, <2>2 DEF AppReady, Running, Informed
    <3>2. _rcuClockApb2 = Frequency /\ _rcuClockApb1 = Frequency \div 2
      BY <1>2, <3>1 DEF _rcuClockApb2, _rcuClockApb1
    <3>3. CASE periph \in {"pTIMER5", "pTIMER6"}
      BY <1>2, <3>1, <3>2, <3>3 DEF getClock, BusFreq
    <3>4. CASE periph \in {"pUART0", "pTIMER0", "pSPI0", "pAPB2", "pSYSCLOCK"}
      BY <3>1, <3>2, <3>4 DEF getClock, BusFreq
    <3>5. CASE periph = "pAPB1"
      BY <3>1, <3>2, <3>5 DEF getClock, BusFreq
    <3> QED
      BY <3>3, <3>4, <3>5 DEF Library
  <2> QED
    BY <1>4, <2>3, <2>4, <2>5 DEF SettingsFit
<1> QED
  BY <1>5, <1>6 DEF AppPlace, Cold

(* For every build at a speed that setPll makes exactly: an STM32's flash is *)
(* never read faster than its wait states allow, not even between two        *)
(* accesses of a clock set-up; USB gets 48 MHz whenever its transceiver is   *)
(* powered and after enableUsb48Mhz; the library's frequencies are those of  *)
(* the buses; and the loop knows the chip (clocking.h:60-139,                *)
(* lnRCU_systemClock_arm_gd32fx.cpp:23-52, 107-135, 226-242, flash.h:15-23). *)
THEOREM SettingsAlwaysFit == ASSUME ExactSpeeds PROVE Spec => []SettingsFit
<1>1. Init => BoardInv /\ Settings /\ Places
  BY BoardStart, StartTypes, StartPlaces
<1>2. BoardInv /\ Settings /\ Places /\ [Next]_vars => (BoardInv /\ Settings /\ Places)'
  <2>1. BoardInv /\ Settings /\ [Next]_vars => Settings'
    BY ProgramTypes, AroundTypes, ResetTypes DEF Next
  <2>2. BoardInv /\ Settings /\ Places /\ [Next]_vars => Places'
    BY ProgramPlaces, AroundPlaces, ResetPlaces DEF Next
  <2> QED
    BY <2>1, <2>2, BoardStep
<1>3. BoardInv /\ Settings /\ Places => SettingsFit
  BY StageFits, AppSettingsFit DEF BoardInv, Places
<1> QED
  BY <1>1, <1>2, <1>3, PTL DEF Spec
=============================================================================
