--------------------------- MODULE EndpointProofs ---------------------------
(***************************************************************************)
(* Theorems about Endpoint, in three layers.  First the types: which lists *)
(* of macros a poll may have left to execute (TypeInv), and where those of *)
(* a bus reset stand when they place a buffer (Layout).  Then what host,   *)
(* register and program agree on in a transfer (Orderly).  Then what is    *)
(* known besides of a transfer that began with the device at rest (Calm).  *)
(***************************************************************************)
EXTENDS Endpoint, SequenceTheorems, TLAPS

(* The lists of macros that a poll may still have to execute, by name.       *)
Look == <<Step("which")>>
TakeIt == <<Step("takeSetup")>>
NakTakeIt == <<SetRx(NAK), Step("takeSetup")>>
TakePacket == <<Step("takeOut")>>
StallRx == <<SetRx(STALL)>>
StallBoth == <<SetTx(STALL), SetRx(STALL)>>
AckTx == <<Step("ctrTx")>>
AckTxStall == <<Step("ctrTx"), SetTx(STALL), SetRx(STALL)>>
AckTxListen == <<Step("ctrTx"), SetRx(VALID)>>
AckTxSend == <<Step("ctrTx"), Step("send")>>
Arm == <<SetTx(VALID)>>
SendNow == <<Step("send")>>
Listen == <<SetRx(VALID)>>
ListenSend == <<SetRx(VALID), Step("send")>>
ListenStall == <<SetRx(VALID), SetTx(STALL), SetRx(STALL)>>
AckRx == <<Step("ctrRx")>>
AckRxSend == <<Step("ctrRx"), Step("send")>>
AckRxStall == <<Step("ctrRx"), SetTx(STALL), SetRx(STALL)>>
AckRxListen == <<Step("ctrRx"), SetRx(VALID)>>
AckRxListenSend == <<Step("ctrRx"), SetRx(VALID), Step("send")>>
AckRxListenStall == <<Step("ctrRx"), SetRx(VALID), SetTx(STALL), SetRx(STALL)>>
Dtog == <<Step("dtog"), SetRx(VALID), Step("send")>>
Unhalt == <<SetTx(NAK), Step("dtog"), SetRx(VALID), Step("send")>>
AckRxUnhalt == <<Step("ctrRx"), SetTx(NAK), Step("dtog"), SetRx(VALID), Step("send")>>

(* What is left of ResetOps, from the end.                                   *)
Reset1 == <<Step("enable")>>
Reset2 == <<SetRx(VALID), Step("enable")>>
Reset3 == <<Step("dtog"), SetRx(VALID), Step("enable")>>
Reset4 == <<Step("rxaddr"), Step("dtog"), SetRx(VALID), Step("enable")>>
Reset5 == <<SetTx(NAK), Step("rxaddr"), Step("dtog"), SetRx(VALID), Step("enable")>>
Reset6 == <<Step("dtog"), SetTx(NAK), Step("rxaddr"), Step("dtog"), SetRx(VALID), Step("enable")>>
Reset7 == <<Step("txaddr"), Step("dtog"), SetTx(NAK), Step("rxaddr"), Step("dtog"), SetRx(VALID),
            Step("enable")>>
Reset8 == <<Step("type"), Step("txaddr"), Step("dtog"), SetTx(NAK), Step("rxaddr"), Step("dtog"),
            SetRx(VALID), Step("enable")>>

(* Those that begin with the acknowledgement of a received packet, those     *)
(* that go on to listen or to touch the endpoint, and all that a poll or a   *)
(* bus reset leaves.                                                         *)
AcksRx == {AckRx, AckRxSend, AckRxStall, AckRxListen, AckRxListenSend, AckRxListenStall,
           AckRxUnhalt}
Listens == {Listen, ListenSend, ListenStall, AckTxListen, Unhalt, Dtog}
PollLists == {<<>>, Look, TakeIt, NakTakeIt, TakePacket, StallRx, StallBoth, AckTx, AckTxStall,
              AckTxSend, Arm, SendNow} \cup AcksRx \cup Listens
ResetLists == {Reset1, Reset2, Reset3, Reset4, Reset5, Reset6, Reset7, Reset8, ResetOps}

(* The first macro of a list, the status it sets, and what is left behind    *)
(* it.                                                                       *)
Begins(list, m, s, rest) ==
  list # <<>> /\ Head(list).m = m /\ Head(list).s = s /\ Tail(list) = rest

-----------------------------------------------------------------------------
(* The first macro of every list of a poll, and the list behind it.          *)
LEMMA PollHeads ==
  /\ Begins(Look, "which", 0, <<>>)
  /\ Begins(TakeIt, "takeSetup", 0, <<>>)
  /\ Begins(NakTakeIt, "rx", NAK, TakeIt)
  /\ Begins(TakePacket, "takeOut", 0, <<>>)
  /\ Begins(StallRx, "rx", STALL, <<>>)
  /\ Begins(StallBoth, "tx", STALL, StallRx)
  /\ Begins(AckTx, "ctrTx", 0, <<>>)
  /\ Begins(AckTxStall, "ctrTx", 0, StallBoth)
  /\ Begins(AckTxListen, "ctrTx", 0, Listen)
  /\ Begins(AckTxSend, "ctrTx", 0, SendNow)
  /\ Begins(Arm, "tx", VALID, <<>>)
  /\ Begins(SendNow, "send", 0, <<>>)
  /\ Begins(Listen, "rx", VALID, <<>>)
  /\ Begins(ListenSend, "rx", VALID, SendNow)
  /\ Begins(ListenStall, "rx", VALID, StallBoth)
  /\ Begins(Dtog, "dtog", 0, ListenSend)
  /\ Begins(Unhalt, "tx", NAK, Dtog)
BY DEF Begins, Look, TakeIt, NakTakeIt, TakePacket, StallRx, StallBoth, AckTx, AckTxStall,
       AckTxListen, AckTxSend, Arm, SendNow, Listen, ListenSend, ListenStall, Dtog, Unhalt,
       Step, SetRx, SetTx, Macro

(* The same for the lists that begin with the acknowledgement of a packet.   *)
LEMMA AckHeads ==
  /\ Begins(AckRx, "ctrRx", 0, <<>>)
  /\ Begins(AckRxSend, "ctrRx", 0, SendNow)
  /\ Begins(AckRxStall, "ctrRx", 0, StallBoth)
  /\ Begins(AckRxListen, "ctrRx", 0, Listen)
  /\ Begins(AckRxListenSend, "ctrRx", 0, ListenSend)
  /\ Begins(AckRxListenStall, "ctrRx", 0, ListenStall)
  /\ Begins(AckRxUnhalt, "ctrRx", 0, Unhalt)
BY DEF Begins, AckRx, AckRxSend, AckRxStall, AckRxListen, AckRxListenSend, AckRxListenStall,
       AckRxUnhalt, SendNow, StallBoth, Listen, ListenSend, ListenStall, Unhalt, Step, SetRx,
       SetTx, Macro

(* The same for _usbd_reset's list, down to its last macro.                  *)
LEMMA ResetHeads ==
  /\ Begins(ResetOps, "addr", 0, Reset8)
  /\ Begins(Reset8, "type", 0, Reset7)
  /\ Begins(Reset7, "txaddr", 0, Reset6)
  /\ Begins(Reset6, "dtog", 0, Reset5)
  /\ Begins(Reset5, "tx", NAK, Reset4)
  /\ Begins(Reset4, "rxaddr", 0, Reset3)
  /\ Begins(Reset3, "dtog", 0, Reset2)
  /\ Begins(Reset2, "rx", VALID, Reset1)
  /\ Begins(Reset1, "enable", 0, <<>>)
BY DEF Begins, ResetOps, Reset8, Reset7, Reset6, Reset5, Reset4, Reset3, Reset2, Reset1, Step,
       SetRx, SetTx, Macro

(* Two lists of known lengths put together, element by element: the library  *)
(* says it of sequences over a set, so each lemma names the set.             *)
LEMMA Join11 == ASSUME NEW a, NEW b PROVE <<a>> \o <<b>> = <<a, b>>
<1> DEFINE S == {a, b}
           s == <<a>> \o <<b>>
           t == <<a, b>>
<1>1. <<a>> \in Seq(S) /\ <<b>> \in Seq(S) /\ t \in Seq(S) /\ Len(t) = 2
  OBVIOUS
<1>2. s \in Seq(S) /\ Len(s) = 2 /\ \A i \in 1 .. 2 : s[i] = t[i]
  BY <1>1
<1> HIDE DEF s, t, S
<1>3. s = t
  BY <1>1, <1>2, SeqEqual
<1> QED
  BY <1>3 DEF s, t

(* An element put behind a list of one.                                      *)
LEMMA Append1 == ASSUME NEW a, NEW b PROVE Append(<<a>>, b) = <<a, b>>
<1> DEFINE S == {a, b}
           s == Append(<<a>>, b)
           t == <<a, b>>
<1>1. <<a>> \in Seq(S) /\ b \in S /\ t \in Seq(S) /\ Len(t) = 2
  OBVIOUS
<1>2. s \in Seq(S) /\ Len(s) = 2 /\ \A i \in 1 .. 2 : s[i] = t[i]
  BY <1>1
<1> HIDE DEF s, t, S
<1>3. s = t
  BY <1>1, <1>2, SeqEqual
<1> QED
  BY <1>3 DEF s, t

(* A list of two put behind a list of one.                                   *)
LEMMA Join12 == ASSUME NEW a, NEW b, NEW c PROVE <<a>> \o <<b, c>> = <<a, b, c>>
<1> DEFINE S == {a, b, c}
           s == <<a>> \o <<b, c>>
           t == <<a, b, c>>
<1>1. <<a>> \in Seq(S) /\ <<b, c>> \in Seq(S) /\ t \in Seq(S) /\ Len(t) = 3
  OBVIOUS
<1>2. s \in Seq(S) /\ Len(s) = 3 /\ \A i \in 1 .. 3 : s[i] = t[i]
  BY <1>1
<1> HIDE DEF s, t, S
<1>3. s = t
  BY <1>1, <1>2, SeqEqual
<1> QED
  BY <1>3 DEF s, t

(* An element put behind a list of two.                                      *)
LEMMA Append2 == ASSUME NEW a, NEW b, NEW c PROVE Append(<<a, b>>, c) = <<a, b, c>>
<1> DEFINE S == {a, b, c}
           s == Append(<<a, b>>, c)
           t == <<a, b, c>>
<1>1. <<a, b>> \in Seq(S) /\ c \in S /\ t \in Seq(S) /\ Len(t) = 3
  OBVIOUS
<1>2. s \in Seq(S) /\ Len(s) = 3 /\ \A i \in 1 .. 3 : s[i] = t[i]
  BY <1>1
<1> HIDE DEF s, t, S
<1>3. s = t
  BY <1>1, <1>2, SeqEqual
<1> QED
  BY <1>3 DEF s, t

(* A list of two put behind a list of two.                                   *)
LEMMA Join22 ==
  ASSUME NEW a, NEW b, NEW c, NEW d PROVE <<a, b>> \o <<c, d>> = <<a, b, c, d>>
<1> DEFINE S == {a, b, c, d}
           s == <<a, b>> \o <<c, d>>
           t == <<a, b, c, d>>
<1>1. <<a, b>> \in Seq(S) /\ <<c, d>> \in Seq(S) /\ t \in Seq(S) /\ Len(t) = 4
  OBVIOUS
<1>2. s \in Seq(S) /\ Len(s) = 4 /\ \A i \in 1 .. 4 : s[i] = t[i]
  BY <1>1
<1> HIDE DEF s, t, S
<1>3. s = t
  BY <1>1, <1>2, SeqEqual
<1> QED
  BY <1>3 DEF s, t

(* Three lists put together: one macro, three, and one.                      *)
LEMMA Join131 ==
  ASSUME NEW a, NEW b, NEW c, NEW d, NEW e
  PROVE  (<<a>> \o <<b, c, d>>) \o <<e>> = <<a, b, c, d, e>>
<1> DEFINE S == {a, b, c, d, e}
           s == (<<a>> \o <<b, c, d>>) \o <<e>>
           t == <<a, b, c, d, e>>
<1>1. /\ <<a>> \in Seq(S) /\ <<b, c, d>> \in Seq(S) /\ <<e>> \in Seq(S)
      /\ t \in Seq(S) /\ Len(t) = 5
  OBVIOUS
<1>2. s \in Seq(S) /\ Len(s) = 5 /\ \A i \in 1 .. 5 : s[i] = t[i]
  BY <1>1
<1> HIDE DEF s, t, S
<1>3. s = t
  BY <1>1, <1>2, SeqEqual
<1> QED
  BY <1>3 DEF s, t

(* The lists that the handlers put together.                                 *)
LEMMA Joined ==
  /\ <<Step("which")>> = Look /\ <<Step("takeOut")>> = TakePacket
  /\ StallOps = StallBoth /\ <<Step("ctrTx")>> = AckTx
  /\ <<Step("ctrTx"), Step("send")>> = AckTxSend
  /\ <<Step("ctrTx")>> \o NakSet(FALSE) = AckTxListen
  /\ <<Step("ctrTx")>> \o StallOps = AckTxStall
  /\ Append(NakSet(TRUE), Step("takeSetup")) = NakTakeIt
<1>1. NakSet(FALSE) = <<SetRx(VALID)>> /\ NakSet(TRUE) = <<SetRx(NAK)>>
  BY DEF NakSet
<1>2. <<Step("ctrTx")>> \o <<SetRx(VALID)>> = AckTxListen
  BY Join11 DEF AckTxListen
<1>3. <<Step("ctrTx")>> \o StallOps = AckTxStall
  BY Join12 DEF AckTxStall, StallOps
<1>4. Append(<<SetRx(NAK)>>, Step("takeSetup")) = NakTakeIt
  BY Append1 DEF NakTakeIt
<1> QED
  BY <1>1, <1>2, <1>3, <1>4 DEF Look, TakePacket, StallOps, StallBoth, AckTx, AckTxSend

(* The same for the handlers of a received packet.                           *)
LEMMA JoinedRx ==
  /\ <<Step("ctrRx")>> = AckRx /\ AckRx \o StallOps = AckRxStall
  /\ Append(AckRx, Step("send")) = AckRxSend
  /\ (AckRx \o ClearHaltOps) \o <<Step("send")>> = AckRxUnhalt
  /\ (AckRx \o <<>>) \o <<Step("send")>> = AckRxSend
  /\ AckRx \o NakSet(FALSE) = AckRxListen
  /\ AckRx \o Rearm(FALSE) = AckRxListen /\ AckRx \o Rearm(TRUE) = AckRx
  /\ AckRxListen \o StallOps = AckRxListenStall
  /\ Append(AckRxListen, Step("send")) = AckRxListenSend
  /\ <<SetTx(VALID)>> \o <<>> = Arm
<1>1. NakSet(FALSE) = <<SetRx(VALID)>> /\ Rearm(FALSE) = <<SetRx(VALID)>> /\ Rearm(TRUE) = <<>>
  BY DEF NakSet, Rearm
<1>2. AckRx \o <<>> = AckRx /\ <<SetTx(VALID)>> \o <<>> = Arm
  BY DEF AckRx, Arm
<1>3. AckRx \o <<SetRx(VALID)>> = AckRxListen /\ AckRx \o <<Step("send")>> = AckRxSend
  BY Join11 DEF AckRx, AckRxListen, AckRxSend
<1>4. AckRx \o StallOps = AckRxStall
  BY Join12 DEF AckRx, AckRxStall, StallOps
<1>5. Append(AckRx, Step("send")) = AckRxSend
  BY Append1 DEF AckRx, AckRxSend
<1>6. (AckRx \o ClearHaltOps) \o <<Step("send")>> = AckRxUnhalt
  BY Join131 DEF AckRx, AckRxUnhalt, ClearHaltOps
<1>7. AckRxListen \o StallOps = AckRxListenStall
  BY Join22 DEF AckRxListen, AckRxListenStall, StallOps
<1>8. Append(AckRxListen, Step("send")) = AckRxListenSend
  BY Append2 DEF AckRxListen, AckRxListenSend
<1> QED
  BY <1>1, <1>2, <1>3, <1>4, <1>5, <1>6, <1>7, <1>8 DEF AckRx

-----------------------------------------------------------------------------
(* Flip is a bitwise exclusive or.                                           *)
LEMMA FlipType == \A a, b \in Stats : Flip(a, b) \in Stats
BY DEF Flip, Stats

(* What was read and flipped to a value, written where the value has not     *)
(* changed, sets it; a 0 written changes nothing.                            *)
LEMMA FlipBack == \A a, b \in Stats : Flip(a, Flip(a, b)) = b /\ Flip(a, 0) = a
BY DEF Flip, Stats

-----------------------------------------------------------------------------
(* Types, and what the state machine says of the packets still to come.      *)
Asked == Requests \cup {NoRequest}
Register == [ctrRx : BOOLEAN, ctrTx : BOOLEAN, setup : BOOLEAN, rx : Stats, tx : Stats]
Reading == [ctrRx : BOOLEAN, ctrTx : BOOLEAN, setup : BOOLEAN, rx : Stats, tx : Stats,
            valid : BOOLEAN]
HostType ==
  [stage : {"idle", "in", "out", "statusIn", "statusOut"}, req : Asked, left : Nat,
   serial : {0, 1}, ended : {"off", "no", "read", "write", "stall", "given up", "reset"},
   sound : BOOLEAN, calm : BOOLEAN]

Types ==
  /\ reg \in Register /\ old \in Reading
  /\ memory \in [kind : {"none", "setup", "data", "status"}, req : Asked, serial : {0, 1}]
  /\ usb_req \in [req : Asked, serial : {0, 1}]
  /\ host \in HostType
  /\ enabled \in BOOLEAN /\ resetFlag \in BOOLEAN /\ pending \in BOOLEAN
  /\ usb_force_nak \in BOOLEAN /\ usb_fsm_state \in FsmStates /\ left \in Nat
  /\ todo \in PollLists \cup ResetLists
  /\ old.valid => todo # <<>> /\ Head(todo).m \in RegisterMacros

Counts ==
  /\ usb_fsm_state = "DATA_IN" => left >= 1
  /\ usb_fsm_state = "LAST_DATA_IN" => left = 0
  /\ usb_fsm_state = "DATA_OUT" => left >= 2
  /\ usb_fsm_state = "LAST_DATA_OUT" => left = 1
  /\ host.stage \in {"in", "out"} => host.left >= 1
  /\ host.stage \in {"statusIn", "statusOut"} => host.left = 0

Sending == {"DATA_IN", "LAST_DATA_IN"}
Receiving == {"DATA_OUT", "LAST_DATA_OUT"}
Ins == Sending \cup {"STATUS_IN"}
Outs == Receiving \cup {"STATUS_OUT"}
TypeInv == Types /\ Counts /\ (todo = TakePacket => usb_fsm_state \in Outs)

(* Every macro's field is one of the four values of a status.                *)
LEMMA HeadTypes ==
  ASSUME todo \in PollLists \cup ResetLists, todo # <<>>
  PROVE  Head(todo).s \in Stats /\ Tail(todo) \in PollLists \cup ResetLists
<1>1. 0 \in Stats /\ NAK \in Stats /\ STALL \in Stats /\ VALID \in Stats
  BY DEF Stats, NAK, STALL, VALID
<1>2. CASE todo \in AcksRx
  <2>1. Head(todo).s = 0 /\ Tail(todo) \in {<<>>, SendNow, StallBoth, Listen, ListenSend,
                                             ListenStall, Unhalt}
    BY <1>2, AckHeads DEF Begins, AcksRx
  <2> QED
    BY <1>1, <2>1 DEF PollLists, Listens
<1>3. CASE todo \in Listens
  <2>1. Head(todo).s \in {0, NAK, VALID} /\ Tail(todo) \in {<<>>, SendNow, StallBoth, Listen,
                                                              ListenSend, Dtog}
    BY <1>3, PollHeads DEF Begins, Listens
  <2> QED
    BY <1>1, <2>1 DEF PollLists, Listens
<1>4. CASE todo \in {Look, TakeIt, NakTakeIt, TakePacket, StallRx, StallBoth, AckTx, AckTxStall,
                     AckTxSend, Arm, SendNow}
  <2>1. Head(todo).s \in {0, NAK, STALL, VALID} /\ Tail(todo) \in {<<>>, TakeIt, StallRx,
                                                                     StallBoth, SendNow}
    <3>1. CASE todo \in {Look, TakeIt, NakTakeIt, TakePacket}
      BY <3>1, PollHeads DEF Begins
    <3>2. CASE todo \in {StallRx, StallBoth, AckTx, AckTxStall}
      BY <3>2, PollHeads DEF Begins
    <3>3. CASE todo \in {AckTxSend, Arm, SendNow}
      BY <3>3, PollHeads DEF Begins
    <3> QED
      BY <1>4, <3>1, <3>2, <3>3
  <2> QED
    BY <1>1, <2>1 DEF PollLists
<1>5. CASE todo \in ResetLists
  <2>1. Head(todo).s \in {0, NAK, VALID} /\ Tail(todo) \in {<<>>} \cup ResetLists
    <3>1. CASE todo \in {Reset1, Reset2, Reset3}
      <4>1. Head(todo).s \in {0, VALID} /\ Tail(todo) \in {<<>>, Reset1, Reset2}
        <5>1. CASE todo = Reset1
          BY <5>1, ResetHeads DEF Begins
        <5>2. CASE todo = Reset2
          BY <5>2, ResetHeads DEF Begins
        <5>3. CASE todo = Reset3
          BY <5>3, ResetHeads DEF Begins
        <5> QED
          BY <3>1, <5>1, <5>2, <5>3
      <4> QED
        BY <4>1 DEF ResetLists
    <3>2. CASE todo \in {Reset4, Reset5, Reset6}
      <4>1. Head(todo).s \in {0, NAK} /\ Tail(todo) \in {Reset3, Reset4, Reset5}
        <5>1. CASE todo = Reset4
          BY <5>1, ResetHeads DEF Begins
        <5>2. CASE todo = Reset5
          BY <5>2, ResetHeads DEF Begins
        <5>3. CASE todo = Reset6
          BY <5>3, ResetHeads DEF Begins
        <5> QED
          BY <3>2, <5>1, <5>2, <5>3
      <4> QED
        BY <4>1 DEF ResetLists
    <3>3. CASE todo \in {Reset7, Reset8, ResetOps}
      <4>1. Head(todo).s = 0 /\ Tail(todo) \in {Reset6, Reset7, Reset8}
        <5>1. CASE todo = Reset7
          BY <5>1, ResetHeads DEF Begins
        <5>2. CASE todo = Reset8
          BY <5>2, ResetHeads DEF Begins
        <5>3. CASE todo = ResetOps
          BY <5>3, ResetHeads DEF Begins
        <5> QED
          BY <3>3, <5>1, <5>2, <5>3
      <4> QED
        BY <4>1 DEF ResetLists
    <3> QED
      BY <1>5, <3>1, <3>2, <3>3 DEF ResetLists
  <2> QED
    BY <1>1, <2>1 DEF PollLists
<1> QED
  BY <1>2, <1>3, <1>4, <1>5 DEF PollLists

(* The macros that are handlers stand alone, or last.                        *)
LEMMA SingleHeads ==
  ASSUME todo \in PollLists \cup ResetLists, todo # <<>>
  PROVE  /\ Head(todo).m = "which" => todo = Look
         /\ Head(todo).m = "takeSetup" => todo = TakeIt
         /\ Head(todo).m = "takeOut" => todo = TakePacket
         /\ Head(todo).m = "send" => todo = SendNow
         /\ Tail(todo) # TakePacket
<1>1. TakePacket # <<>> /\ Head(TakePacket).m = "takeOut"
  BY PollHeads DEF Begins
<1>2. CASE todo \in AcksRx
  <2>1. /\ Head(todo).m = "ctrRx"
        /\ Tail(todo) \in {<<>>, SendNow, StallBoth, Listen, ListenSend, ListenStall, Unhalt}
    BY <1>2, AckHeads DEF Begins, AcksRx
  <2>2. Tail(todo) # TakePacket
    BY <1>1, <2>1, PollHeads DEF Begins
  <2> QED
    BY <2>1, <2>2
<1>3. CASE todo \in Listens
  <2>1. /\ Head(todo).m \in {"rx", "tx", "dtog", "ctrTx"}
        /\ Tail(todo) \in {<<>>, SendNow, StallBoth, Listen, ListenSend, Dtog}
    BY <1>3, PollHeads DEF Begins, Listens
  <2>2. Tail(todo) # TakePacket
    BY <1>1, <2>1, PollHeads DEF Begins
  <2> QED
    BY <2>1, <2>2
<1>4. CASE todo \in {Look, TakeIt, NakTakeIt, TakePacket, StallRx, StallBoth, AckTx, AckTxStall,
                     AckTxSend, Arm, SendNow}
  <2>1. CASE todo \in {Look, TakeIt, NakTakeIt, TakePacket}
    BY <2>1, <1>1, PollHeads DEF Begins
  <2>2. CASE todo \in {StallRx, StallBoth, AckTx, AckTxStall}
    BY <2>2, <1>1, PollHeads DEF Begins
  <2>3. CASE todo \in {AckTxSend, Arm, SendNow}
    BY <2>3, <1>1, PollHeads DEF Begins
  <2> QED
    BY <1>4, <2>1, <2>2, <2>3
<1>5. CASE todo \in ResetLists
  <2>1. Head(todo).m \in {"addr", "type", "txaddr", "dtog", "tx", "rxaddr", "rx", "enable"}
    <3>1. CASE todo \in {Reset1, Reset2, Reset3}
      BY <3>1, ResetHeads DEF Begins
    <3>2. CASE todo \in {Reset4, Reset5, Reset6}
      BY <3>2, ResetHeads DEF Begins
    <3>3. CASE todo \in {Reset7, Reset8, ResetOps}
      BY <3>3, ResetHeads DEF Begins
    <3> QED
      BY <1>5, <3>1, <3>2, <3>3 DEF ResetLists
  <2>2. Tail(todo) = <<>> \/ Head(Tail(todo)).m # "takeOut"
    <3>1. CASE todo \in {Reset1, Reset2, Reset3}
      BY <3>1, ResetHeads DEF Begins
    <3>2. CASE todo \in {Reset4, Reset5, Reset6}
      BY <3>2, ResetHeads DEF Begins
    <3>3. CASE todo \in {Reset7, Reset8, ResetOps}
      BY <3>3, ResetHeads DEF Begins
    <3> QED
      BY <1>5, <3>1, <3>2, <3>3 DEF ResetLists
  <2> QED
    BY <1>1, <2>1, <2>2
<1> QED
  BY <1>2, <1>3, <1>4, <1>5 DEF PollLists

(* The second access of a macro, bit by bit.                                 *)
LEMMA WriteEffect ==
  ASSUME Types, WriteRegister
  PROVE  /\ reg' \in Register /\ reg'.setup = reg.setup
         /\ reg'.ctrRx = (reg.ctrRx /\ Head(todo).m # "ctrRx"
                            /\ (Head(todo).m \in Spares \/ old.ctrRx))
         /\ reg'.ctrTx = (reg.ctrTx /\ Head(todo).m # "ctrTx"
                            /\ (Head(todo).m \in Spares \/ old.ctrTx))
         /\ reg'.rx = IF Head(todo).m = "rx" THEN Flip(reg.rx, Flip(old.rx, Head(todo).s))
                      ELSE reg.rx
         /\ reg'.tx = IF Head(todo).m = "tx" THEN Flip(reg.tx, Flip(old.tx, Head(todo).s))
                      ELSE reg.tx
<1> DEFINE op == Head(todo)
           w == Written(op, old)
<1>1. /\ reg' = [reg EXCEPT !.ctrRx = reg.ctrRx /\ w.ctrRx, !.ctrTx = reg.ctrTx /\ w.ctrTx,
                            !.rx = Flip(reg.rx, w.rx), !.tx = Flip(reg.tx, w.tx)]
      /\ todo # <<>> /\ reg \in Register /\ old \in Reading
  BY DEF WriteRegister, Types
<1>2. op.s \in Stats
  BY <1>1, HeadTypes DEF Types
<1>3. /\ w.ctrRx = (op.m # "ctrRx" /\ (op.m \in Spares \/ old.ctrRx))
      /\ w.ctrTx = (op.m # "ctrTx" /\ (op.m \in Spares \/ old.ctrTx))
      /\ w.rx = IF op.m = "rx" THEN Flip(old.rx, op.s) ELSE 0
      /\ w.tx = IF op.m = "tx" THEN Flip(old.tx, op.s) ELSE 0
  BY DEF Written
<1>4. 0 \in Stats
  BY DEF Stats
<1>5. reg.rx \in Stats /\ reg.tx \in Stats /\ old.rx \in Stats /\ old.tx \in Stats
  BY <1>1 DEF Register, Reading
<1>6. w.rx \in Stats /\ w.tx \in Stats
  BY <1>2, <1>3, <1>4, <1>5, FlipType
<1>7. Flip(reg.rx, w.rx) \in Stats /\ Flip(reg.tx, w.tx) \in Stats
  BY <1>5, <1>6, FlipType
<1>8. Flip(reg.rx, 0) = reg.rx /\ Flip(reg.tx, 0) = reg.tx
  BY <1>4, <1>5, FlipBack
<1>9. w.ctrRx \in BOOLEAN /\ w.ctrTx \in BOOLEAN
  BY <1>1, <1>3 DEF Reading
<1> HIDE DEF w, op
<1>10. /\ reg' \in Register /\ reg'.setup = reg.setup
       /\ reg'.rx = Flip(reg.rx, w.rx) /\ reg'.tx = Flip(reg.tx, w.tx)
       /\ reg'.ctrRx = (reg.ctrRx /\ w.ctrRx) /\ reg'.ctrTx = (reg.ctrTx /\ w.ctrTx)
  BY <1>1, <1>7, <1>9 DEF Register
<1> QED
  BY <1>3, <1>8, <1>10 DEF op

-----------------------------------------------------------------------------
(* What the handlers leave to be done, with the state they go to.            *)
LEMMA TxOutcome ==
  ASSUME PollTx
  PROVE  \/ /\ usb_fsm_state = "DATA_IN" /\ todo' = AckTxSend /\ left' = left - 1
            /\ usb_fsm_state' = IF left > 1 THEN "DATA_IN" ELSE "LAST_DATA_IN"
            /\ usb_force_nak' = usb_force_nak
         \/ /\ usb_fsm_state = "LAST_DATA_IN" /\ todo' = AckTxListen /\ left' = left
            /\ usb_fsm_state' = "STATUS_OUT" /\ usb_force_nak' = FALSE
         \/ /\ usb_fsm_state = "STATUS_IN" /\ todo' = AckTx /\ left' = left
            /\ usb_fsm_state' = "IDLE" /\ usb_force_nak' = usb_force_nak
         \/ /\ usb_fsm_state \notin Ins /\ todo' = AckTxStall /\ left' = left
            /\ usb_fsm_state' = "IDLE" /\ usb_force_nak' = usb_force_nak
<1>1. CASE usb_fsm_state = "DATA_IN"
  BY <1>1, Joined DEF PollTx, Does
<1>2. CASE usb_fsm_state = "LAST_DATA_IN"
  BY <1>2, Joined DEF PollTx, Does
<1>3. CASE usb_fsm_state = "STATUS_IN"
  BY <1>3, Joined DEF PollTx, Does
<1>4. CASE usb_fsm_state \notin Ins
  BY <1>4, Joined DEF PollTx, Does, Ins, Sending
<1> QED
  BY <1>1, <1>2, <1>3, <1>4 DEF Ins, Sending

(* The same for the choice between a SETUP and a packet.                     *)
LEMMA WhichOutcome ==
  ASSUME Which
  PROVE  \/ /\ reg.setup /\ todo' = NakTakeIt /\ usb_force_nak' = TRUE
            /\ usb_fsm_state' = usb_fsm_state
         \/ /\ ~reg.setup /\ usb_fsm_state \in Outs /\ todo' = TakePacket
            /\ usb_fsm_state' = usb_fsm_state /\ usb_force_nak' = usb_force_nak
         \/ /\ ~reg.setup /\ usb_fsm_state \notin Outs /\ todo' = StallBoth
            /\ usb_fsm_state' = "IDLE" /\ usb_force_nak' = usb_force_nak
<1>1. CASE reg.setup
  BY <1>1, Joined DEF Which, Does
<1>2. CASE ~reg.setup
  BY <1>2, Joined DEF Which, Does, Outs, Receiving
<1> QED
  BY <1>1, <1>2

(* The same for _usbd_control_setup, request by request.                     *)
LEMMA SetupOutcome ==
  ASSUME TakeSetup, memory.req.n \in Nat, memory.req.dir \in {"in", "out"}
  PROVE  \/ /\ reg.rx # VALID /\ memory.kind = "setup" /\ pending' = FALSE
            /\ usb_req' = [req |-> memory.req, serial |-> memory.serial]
            /\ \/ /\ memory.req.what = "refused" /\ todo' = AckRxStall
                  /\ usb_fsm_state' = "IDLE" /\ left' = left
                  /\ usb_force_nak' = usb_force_nak /\ usb_pm_top' = usb_pm_top
               \/ /\ memory.req.what # "refused" /\ memory.req.n > 0 /\ memory.req.dir = "in"
                  /\ todo' = AckRxSend /\ left' = memory.req.n - 1
                  /\ usb_fsm_state' = IF memory.req.n > 1 THEN "DATA_IN" ELSE "LAST_DATA_IN"
                  /\ usb_force_nak' = usb_force_nak /\ usb_pm_top' = usb_pm_top
               \/ /\ memory.req.what # "refused" /\ memory.req.n = 0
                  /\ todo' \in {AckRxUnhalt, AckRxSend} /\ left' = left
                  /\ usb_fsm_state' = "STATUS_IN" /\ usb_force_nak' = usb_force_nak
               \/ /\ memory.req.n > 0 /\ memory.req.dir = "out"
                  /\ todo' = AckRxListen /\ left' = memory.req.n
                  /\ usb_fsm_state' = IF memory.req.n > 1 THEN "DATA_OUT" ELSE "LAST_DATA_OUT"
                  /\ usb_force_nak' = FALSE /\ usb_pm_top' = usb_pm_top
         \/ /\ ~(reg.rx # VALID /\ memory.kind = "setup")
            /\ todo' \in {StallBoth, AckRxStall} /\ usb_fsm_state' = "IDLE"
            /\ UNCHANGED <<usb_req, left, usb_force_nak, usb_pm_top, pending>>
<1>1. CASE reg.rx # VALID /\ memory.kind = "setup"
  <2>1. /\ usb_req' = [req |-> memory.req, serial |-> memory.serial] /\ pending' = FALSE
        /\ IF memory.req.dir = "in" \/ memory.req.n = 0 THEN StartRead(memory.req, AckRx)
           ELSE StartWrite(memory.req, AckRx)
    BY <1>1, JoinedRx DEF TakeSetup
  <2>2. CASE memory.req.dir = "in" \/ memory.req.n = 0
    <3>1. StartRead(memory.req, AckRx)
      BY <2>1, <2>2
    <3>2. ASSUME memory.req.what = "refused"
          PROVE  /\ todo' = AckRxStall /\ usb_fsm_state' = "IDLE" /\ left' = left
                 /\ usb_force_nak' = usb_force_nak /\ usb_pm_top' = usb_pm_top
      BY <3>1, <3>2, JoinedRx DEF StartRead, Does
    <3>3. ASSUME memory.req.what # "refused", memory.req.n > 0
          PROVE  /\ todo' = AckRxSend /\ left' = memory.req.n - 1
                 /\ usb_fsm_state' = IF memory.req.n > 1 THEN "DATA_IN" ELSE "LAST_DATA_IN"
                 /\ usb_force_nak' = usb_force_nak /\ usb_pm_top' = usb_pm_top
      <4>0. /\ ~(memory.req.what = "refused") /\ (memory.req.what # "refused" /\ memory.req.n > 0)
            /\ ~(memory.req.what # "refused" /\ memory.req.n = 0)
        BY <3>3
      <4>1. /\ Does(Append(AckRx, Step("send")),
                    IF memory.req.n > 1 THEN "DATA_IN" ELSE "LAST_DATA_IN")
            /\ left' = memory.req.n - 1 /\ UNCHANGED usb_pm_top /\ UNCHANGED usb_force_nak
        BY <3>1, <4>0, Zenon DEF StartRead
      <4> QED
        BY <4>1, JoinedRx DEF Does
    <3>4. ASSUME memory.req.what # "refused", memory.req.n = 0
          PROVE  /\ todo' \in {AckRxUnhalt, AckRxSend} /\ left' = left
                 /\ usb_fsm_state' = "STATUS_IN" /\ usb_force_nak' = usb_force_nak
      <4>5. /\ ~(memory.req.what = "refused") /\ (memory.req.what # "refused" /\ memory.req.n = 0)
            /\ ~(memory.req.what # "refused" /\ memory.req.n > 0)
        BY <3>4
      <4>0. /\ Does((AckRx \o (IF memory.req.what = "halt" THEN ClearHaltOps ELSE <<>>))
                      \o <<Step("send")>>, "STATUS_IN")
            /\ UNCHANGED left /\ UNCHANGED usb_force_nak
        BY <3>1, <4>5, Zenon DEF StartRead
      <4>1. /\ usb_fsm_state' = "STATUS_IN" /\ left' = left /\ usb_force_nak' = usb_force_nak
            /\ todo' = (AckRx \o (IF memory.req.what = "halt" THEN ClearHaltOps ELSE <<>>))
                         \o <<Step("send")>>
        BY <4>0 DEF Does
      <4>2. CASE memory.req.what = "halt"
        BY <4>1, <4>2, JoinedRx
      <4>3. CASE memory.req.what # "halt"
        BY <4>1, <4>3, JoinedRx
      <4> QED
        BY <4>2, <4>3
    <3>5. memory.req.n = 0 \/ (memory.req.n > 0 /\ memory.req.dir = "in")
      BY <2>2
    <3> QED
      BY <1>1, <2>1, <3>2, <3>3, <3>4, <3>5
  <2>3. CASE ~(memory.req.dir = "in" \/ memory.req.n = 0)
    <3>1. StartWrite(memory.req, AckRx) /\ memory.req.n > 0 /\ memory.req.dir = "out"
      BY <2>1, <2>3
    <3>2. /\ todo' = AckRxListen /\ left' = memory.req.n
          /\ usb_fsm_state' = IF memory.req.n > 1 THEN "DATA_OUT" ELSE "LAST_DATA_OUT"
          /\ usb_force_nak' = FALSE /\ usb_pm_top' = usb_pm_top
      BY <3>1, JoinedRx DEF StartWrite, Does
    <3> QED
      BY <1>1, <2>1, <3>1, <3>2
  <2> QED
    BY <2>2, <2>3
<1>2. CASE ~(reg.rx # VALID /\ memory.kind = "setup")
  <2>1. /\ todo' = (IF reg.rx = VALID THEN <<>> ELSE AckRx) \o StallOps
        /\ usb_fsm_state' = "IDLE"
        /\ UNCHANGED <<usb_req, left, usb_force_nak, usb_pm_top, pending>>
    BY <1>2, JoinedRx DEF TakeSetup, Does
  <2>2. <<>> \o StallOps = StallBoth
    BY Joined DEF StallOps
  <2> QED
    BY <1>2, <2>1, <2>2, JoinedRx
<1> QED
  BY <1>1, <1>2

(* The same for _usbd_control_out.                                           *)
LEMMA OutOutcome ==
  ASSUME TakeOut, usb_fsm_state \in Outs, usb_force_nak \in BOOLEAN
  PROVE  \/ /\ reg.rx = VALID /\ left' = left /\ usb_fsm_state' = "IDLE"
            /\ todo' \in {<<>>, StallBoth}
         \/ /\ reg.rx # VALID /\ usb_fsm_state = "STATUS_OUT" /\ left' = left
            /\ usb_fsm_state' = "IDLE" /\ todo' = IF usb_force_nak THEN AckRx ELSE AckRxListen
         \/ /\ reg.rx # VALID /\ usb_fsm_state \in Receiving /\ memory.kind # "data"
            /\ left' = left /\ usb_fsm_state' = "IDLE"
            /\ todo' = IF usb_force_nak THEN AckRxStall ELSE AckRxListenStall
         \/ /\ reg.rx # VALID /\ usb_fsm_state = "DATA_OUT" /\ memory.kind = "data"
            /\ left' = left - 1 /\ todo' = IF usb_force_nak THEN AckRx ELSE AckRxListen
            /\ usb_fsm_state' = IF left' <= 1 THEN "LAST_DATA_OUT" ELSE "DATA_OUT"
         \/ /\ reg.rx # VALID /\ usb_fsm_state = "LAST_DATA_OUT" /\ memory.kind = "data"
            /\ left' = 0 /\ usb_req.req.what = "refused" /\ usb_fsm_state' = "IDLE"
            /\ todo' = IF usb_force_nak THEN AckRxStall ELSE AckRxListenStall
         \/ /\ reg.rx # VALID /\ usb_fsm_state = "LAST_DATA_OUT" /\ memory.kind = "data"
            /\ left' = 0 /\ usb_req.req.what # "refused" /\ usb_fsm_state' = "STATUS_IN"
            /\ todo' = IF usb_force_nak THEN AckRxSend ELSE AckRxListenSend
<1> DEFINE rest == AckRx \o Rearm(usb_force_nak)
<1>1. IF usb_fsm_state = "STATUS_OUT"
      THEN Does(IF reg.rx = VALID THEN <<>> ELSE rest, "IDLE") /\ UNCHANGED left
      ELSE TakeData(rest)
  BY JoinedRx DEF TakeOut
<1>2. /\ rest = IF usb_force_nak THEN AckRx ELSE AckRxListen
      /\ rest \o StallOps = IF usb_force_nak THEN AckRxStall ELSE AckRxListenStall
      /\ Append(rest, Step("send")) = IF usb_force_nak THEN AckRxSend ELSE AckRxListenSend
  <2>1. CASE usb_force_nak
    BY <2>1, JoinedRx
  <2>2. CASE ~usb_force_nak
    BY <2>2, JoinedRx
  <2> QED
    BY <2>1, <2>2
<1> HIDE DEF rest
<1>3. CASE usb_fsm_state = "STATUS_OUT"
  BY <1>1, <1>2, <1>3 DEF Does
<1>4. CASE usb_fsm_state \in Receiving
  <2>1. TakeData(rest)
    BY <1>1, <1>4 DEF Receiving
  <2>2. CASE reg.rx = VALID
    BY <2>1, <2>2, Joined DEF TakeData, Does
  <2>3. CASE reg.rx # VALID /\ memory.kind # "data"
    BY <1>2, <1>4, <2>1, <2>3 DEF TakeData, Does
  <2>4. CASE reg.rx # VALID /\ memory.kind = "data" /\ usb_fsm_state = "DATA_OUT"
    BY <1>2, <2>1, <2>4 DEF TakeData, Does
  <2>5. CASE reg.rx # VALID /\ memory.kind = "data" /\ usb_fsm_state = "LAST_DATA_OUT"
    BY <1>2, <2>1, <2>5 DEF TakeData, Does
  <2> QED
    BY <1>4, <2>2, <2>3, <2>4, <2>5 DEF Receiving
<1> QED
  BY <1>3, <1>4 DEF Outs

-----------------------------------------------------------------------------
(* The types, action by action.                                              *)
LEMMA AskedTypes ==
  \A r \in Asked : r.n \in Nat /\ r.dir \in {"in", "out"}
BY RequestsAssumption DEF Asked, NoRequest

(* The device starts with an empty list.                                     *)
LEMMA InitTypes == ASSUME Init PROVE TypeInv
<1>1. NoRequest \in Asked /\ DISABLED \in Stats /\ 0 \in Stats
  BY DEF Asked, DISABLED, Stats
<1>2. reg \in Register /\ old \in Reading
  BY <1>1 DEF Init, Register, Reading, NotRead
<1>3. /\ memory \in [kind : {"none", "setup", "data", "status"}, req : Asked, serial : {0, 1}]
      /\ usb_req \in [req : Asked, serial : {0, 1}] /\ host \in HostType
  BY <1>1 DEF Init, HostType
<1>4. todo = <<>> /\ <<>> \in PollLists /\ <<>> # TakePacket
  BY PollHeads DEF Init, PollLists, Begins
<1> QED
  BY <1>2, <1>3, <1>4 DEF Init, TypeInv, Types, Counts, FsmStates, NotRead

(* A macro is read and written, or carried out, from the front of the list.  *)
LEMMA MacroTypes ==
  ASSUME TypeInv, ReadRegister \/ WriteRegister \/ Send \/ Place \/ Enable
  PROVE  TypeInv'
<1> USE DEF TypeInv
<1>1. CASE ReadRegister
  <2>1. old' \in Reading
    BY <1>1 DEF ReadRegister, Types, Register, Reading
  <2> QED
    BY <1>1, <2>1 DEF ReadRegister, Types, Counts, Peripheral, layout
<1>2. todo # <<>> => Tail(todo) \in PollLists \cup ResetLists /\ Tail(todo) # TakePacket
  BY HeadTypes, SingleHeads DEF Types
<1>3. CASE WriteRegister
  <2>1. todo # <<>> /\ reg' \in Register /\ old' \in Reading /\ ~old'.valid /\ todo' = Tail(todo)
    BY <1>3, WriteEffect DEF Types, WriteRegister, NotRead, Reading, Stats, Rest
  <2> QED
    BY <1>2, <1>3, <2>1 DEF WriteRegister, Types, Counts, layout
<1>4. CASE Place \/ Enable
  <2>1. todo # <<>> /\ todo' = Tail(todo) /\ ~old.valid
    <3>1. todo # <<>> /\ todo' = Tail(todo) /\ Head(todo).m \in {"txaddr", "rxaddr", "enable"}
      BY <1>4 DEF Place, Enable, At, Rest
    <3> QED
      BY <3>1 DEF Types, RegisterMacros
  <2>2. /\ UNCHANGED <<reg, memory, resetFlag, old, usb_fsm_state, usb_force_nak, usb_req, left,
                      host, pending>>
        /\ enabled' \in BOOLEAN
    BY <1>4 DEF Place, Enable, Peripheral, Types
  <2>3. Types'
    BY <1>2, <2>1, <2>2 DEF Types
  <2> QED
    BY <1>2, <2>1, <2>2, <2>3 DEF Counts
<1>5. CASE Send
  <2>1. todo # <<>> /\ Head(todo).m = "send" /\ ~old.valid
    BY <1>5 DEF Send, At, Types, RegisterMacros
  <2>2. todo = SendNow
    BY <2>1, SingleHeads DEF Types
  <2>3. todo' \in {<<>>, Arm}
    BY <1>5, <2>2, PollHeads, JoinedRx DEF Send, Begins, Rest
  <2>4. todo' \in PollLists /\ todo' # TakePacket
    BY <2>3, PollHeads DEF PollLists, Begins
  <2>5. UNCHANGED <<Peripheral, old, usb_fsm_state, usb_force_nak, usb_req, left, host, pending>>
    BY <1>5 DEF Send
  <2>6. Types'
    BY <2>1, <2>4, <2>5 DEF Types, Peripheral
  <2> QED
    BY <2>4, <2>5, <2>6 DEF Counts
<1> QED
  BY <1>1, <1>3, <1>4, <1>5

(* The handlers.                                                             *)
LEMMA PollTypes ==
  ASSUME TypeInv, PollReset \/ PollRx \/ PollTx \/ Which
  PROVE  TypeInv'
<1> USE DEF TypeInv
<1>1. todo = <<>> \/ Head(todo).m = "which"
  BY DEF PollReset, PollRx, PollTx, Which, At
<1>2. ~old.valid
  BY <1>1 DEF Types, RegisterMacros
<1>3. UNCHANGED <<reg, memory, old, usb_req, host, pending, enabled>>
  BY DEF PollReset, PollRx, PollTx, Which, Peripheral
<1>4. CASE PollReset
  <2>1. todo' = ResetOps /\ ResetOps # TakePacket
    BY <1>4, ResetHeads, PollHeads DEF PollReset, Begins
  <2>2. UNCHANGED <<usb_fsm_state, usb_force_nak, left>> /\ resetFlag' \in BOOLEAN
    BY <1>4 DEF PollReset
  <2>3. Types'
    BY <1>2, <1>3, <2>1, <2>2 DEF Types, ResetLists
  <2> QED
    BY <1>3, <2>1, <2>2, <2>3 DEF Counts
<1>5. CASE PollRx
  <2>1. todo' = Look /\ Look # TakePacket
    BY <1>5, Joined, PollHeads DEF PollRx, Begins
  <2>2. UNCHANGED <<usb_fsm_state, usb_force_nak, left, resetFlag>>
    BY <1>5 DEF PollRx, Peripheral
  <2>3. Types'
    BY <1>2, <1>3, <2>1, <2>2 DEF Types, PollLists
  <2> QED
    BY <1>3, <2>1, <2>2, <2>3 DEF Counts
<1>6. CASE PollTx
  <2>1. todo' \in {AckTxSend, AckTxListen, AckTx, AckTxStall} /\ todo' # TakePacket
    BY <1>6, TxOutcome, PollHeads DEF Begins
  <2>2. /\ usb_force_nak' \in BOOLEAN /\ usb_fsm_state' \in FsmStates /\ left' \in Nat
        /\ usb_fsm_state' \in Receiving => usb_fsm_state' = usb_fsm_state /\ left' = left
        /\ usb_fsm_state' = "DATA_IN" => left' >= 1
        /\ usb_fsm_state' = "LAST_DATA_IN" => left' = 0
    <3>1. CASE usb_fsm_state = "DATA_IN"
      BY <1>6, <3>1, TxOutcome DEF Types, Counts, FsmStates, Receiving, Ins, Sending
    <3>2. CASE usb_fsm_state # "DATA_IN"
      <4>1. /\ usb_fsm_state' \in {"STATUS_OUT", "IDLE"} /\ left' = left
            /\ usb_force_nak' \in {FALSE, usb_force_nak}
        BY <1>6, <3>2, TxOutcome
      <4> QED
        BY <4>1 DEF Types, FsmStates, Receiving
    <3> QED
      BY <3>1, <3>2
  <2>3. resetFlag' = resetFlag
    BY <1>6 DEF PollTx, Peripheral
  <2>4. Types'
    BY <1>2, <1>3, <2>1, <2>2, <2>3 DEF Types, PollLists, Listens
  <2>5. Counts'
    BY <1>3, <2>2 DEF Counts, Receiving
  <2> QED
    BY <2>1, <2>4, <2>5
<1>7. CASE Which
  <2>1. todo' \in {NakTakeIt, TakePacket, StallBoth}
    BY <1>7, WhichOutcome
  <2>2. /\ usb_force_nak' \in BOOLEAN /\ usb_fsm_state' \in {usb_fsm_state, "IDLE"}
        /\ todo' = TakePacket => usb_fsm_state' \in Outs
    <3>1. TakePacket \notin {NakTakeIt, StallBoth}
      BY PollHeads DEF Begins
    <3> QED
      BY <1>7, <3>1, WhichOutcome DEF Types
  <2>3. UNCHANGED <<left, resetFlag>>
    BY <1>7 DEF Which, Peripheral
  <2>4. Types'
    BY <1>2, <1>3, <2>1, <2>2, <2>3 DEF Types, PollLists, FsmStates
  <2>5. Counts'
    BY <1>3, <2>2, <2>3 DEF Counts
  <2> QED
    BY <2>2, <2>4, <2>5
<1> QED
  BY <1>4, <1>5, <1>6, <1>7

(* _usbd_control_setup and _usbd_control_out: the list that each leaves is   *)
(* one of PollLists, and the packets it counts agree with the state.         *)
LEMMA TakeTypes ==
  ASSUME TypeInv, TakeSetup \/ TakeOut
  PROVE  TypeInv'
<1> USE DEF TypeInv
<1>1. Head(todo).m \in {"takeSetup", "takeOut"} /\ ~old.valid
  BY DEF TakeSetup, TakeOut, At, Types, RegisterMacros
<1>2. UNCHANGED <<reg, memory, old, host, enabled, resetFlag>>
  BY DEF TakeSetup, TakeOut, Peripheral
<1>3. memory.req \in Asked /\ memory.serial \in {0, 1}
  BY DEF Types
<1>4. memory.req.n \in Nat /\ memory.req.dir \in {"in", "out"}
  BY <1>3, AskedTypes
<1>5. CASE TakeSetup
  <2>1. todo' \in {StallBoth, AckRxUnhalt, AckRxSend, AckRxListen, AckRxStall}
    BY <1>4, <1>5, SetupOutcome
  <2>2. todo' # TakePacket /\ todo' \in PollLists
    BY <2>1, PollHeads, AckHeads DEF Begins, PollLists, AcksRx
  <2>3. /\ usb_req' \in [req : Asked, serial : {0, 1}] /\ pending' \in BOOLEAN
        /\ usb_force_nak' \in BOOLEAN
    <3>1. \/ usb_req' = usb_req /\ pending' = pending
          \/ usb_req' = [req |-> memory.req, serial |-> memory.serial] /\ pending' = FALSE
      BY <1>4, <1>5, SetupOutcome
    <3>2. usb_force_nak' = usb_force_nak \/ usb_force_nak' = FALSE
      BY <1>4, <1>5, SetupOutcome
    <3>3. usb_req' \in [req : Asked, serial : {0, 1}]
      BY <1>3, <3>1 DEF Types
    <3>4. pending' \in BOOLEAN
      BY <3>1 DEF Types
    <3>5. usb_force_nak' \in BOOLEAN
      BY <3>2 DEF Types
    <3> QED
      BY <3>3, <3>4, <3>5
  <2>4. /\ usb_fsm_state' \in FsmStates /\ left' \in Nat
        /\ usb_fsm_state' = "DATA_IN" => left' >= 1
        /\ usb_fsm_state' = "LAST_DATA_IN" => left' = 0
        /\ usb_fsm_state' = "DATA_OUT" => left' >= 2
        /\ usb_fsm_state' = "LAST_DATA_OUT" => left' = 1
    <3> DEFINE n == memory.req.n
    <3>1. \/ usb_fsm_state' \in {"IDLE", "STATUS_IN"} /\ left' = left
          \/ /\ n > 0 /\ left' = n - 1
             /\ usb_fsm_state' = IF n > 1 THEN "DATA_IN" ELSE "LAST_DATA_IN"
          \/ /\ n > 0 /\ left' = n
             /\ usb_fsm_state' = IF n > 1 THEN "DATA_OUT" ELSE "LAST_DATA_OUT"
      BY <1>4, <1>5, SetupOutcome
    <3>2. n \in Nat /\ left \in Nat
      BY <1>4 DEF Types
    <3> HIDE DEF n
    <3> QED
      BY <3>1, <3>2 DEF FsmStates
  <2>5. Types'
    BY <1>1, <1>2, <2>2, <2>3, <2>4 DEF Types
  <2>6. Counts'
    BY <1>2, <2>4 DEF Counts
  <2> QED
    BY <2>2, <2>5, <2>6
<1>6. CASE TakeOut
  <2>1. usb_fsm_state \in Outs /\ usb_force_nak \in BOOLEAN
    <3>1. todo # <<>> /\ Head(todo).m = "takeOut"
      BY <1>6 DEF TakeOut, At
    <3>2. todo = TakePacket
      BY <3>1, SingleHeads DEF Types
    <3> QED
      BY <3>2 DEF Types
  <2>2. todo' \in {<<>>, StallBoth, AckRx, AckRxListen, AckRxStall, AckRxListenStall, AckRxSend,
                   AckRxListenSend}
    BY <1>6, <2>1, OutOutcome
  <2>3. todo' # TakePacket /\ todo' \in PollLists
    <3>1. TakePacket # <<>> /\ Head(TakePacket).m = "takeOut"
      BY PollHeads DEF Begins
    <3>2. StallBoth # <<>> /\ Head(StallBoth).m = "tx"
      BY PollHeads DEF Begins
    <3>3. \A list \in AcksRx : list # <<>> /\ Head(list).m = "ctrRx"
      BY AckHeads DEF Begins, AcksRx
    <3> QED
      BY <2>2, <3>1, <3>2, <3>3 DEF PollLists, AcksRx
  <2>4. /\ usb_fsm_state' \in FsmStates /\ left' \in Nat
        /\ usb_fsm_state' \notin Sending
        /\ usb_fsm_state' = "DATA_OUT" => left' >= 2
        /\ usb_fsm_state' = "LAST_DATA_OUT" => left' = 1
    BY <1>6, <2>1, OutOutcome DEF Types, Counts, FsmStates, Sending
  <2>5. UNCHANGED <<usb_req, pending, usb_force_nak>>
    BY <1>6 DEF TakeOut
  <2>6. Types'
    BY <1>1, <1>2, <2>3, <2>4, <2>5 DEF Types
  <2>7. Counts'
    BY <1>2, <2>4 DEF Counts, Sending
  <2> QED
    BY <2>3, <2>6, <2>7
<1> QED
  BY <1>5, <1>6

(* The host and the peripheral leave the program and its list alone.         *)
LEMMA HostTypes ==
  ASSUME TypeInv, HostSetup \/ HostIn \/ HostOut \/ HostSeesStall \/ HostGivesUp \/ BusReset
  PROVE  TypeInv'
<1> USE DEF TypeInv
<1>1. UNCHANGED <<todo, old, usb_fsm_state, usb_force_nak, usb_req, left>>
  BY DEF HostSetup, HostIn, HostOut, HostSeesStall, HostGivesUp, BusReset, program
<1>2. NAK \in Stats /\ DISABLED \in Stats
  BY DEF NAK, DISABLED, Stats
<1>3. reg' \in Register
  BY <1>2 DEF HostSetup, HostIn, HostOut, HostSeesStall, HostGivesUp, BusReset, Peripheral,
     Types, Register
<1>4. enabled' \in BOOLEAN /\ resetFlag' \in BOOLEAN /\ pending' \in BOOLEAN
  BY DEF HostSetup, HostIn, HostOut, HostSeesStall, HostGivesUp, BusReset, Peripheral, Types
<1>5. memory' \in [kind : {"none", "setup", "data", "status"}, req : Asked, serial : {0, 1}]
  <2>1. CASE HostSetup
    <3>1. PICK req \in Requests :
            memory' = [kind |-> "setup", req |-> req, serial |-> 1 - host.serial]
      BY <2>1 DEF HostSetup
    <3>2. host.serial = 0 \/ host.serial = 1
      BY DEF Types, HostType
    <3> QED
      BY <3>1, <3>2 DEF Asked
  <2>2. CASE HostOut
    BY <2>2 DEF HostOut, Types, HostType, Asked
  <2>3. CASE HostIn \/ HostSeesStall \/ HostGivesUp \/ BusReset
    BY <2>3 DEF HostIn, HostSeesStall, HostGivesUp, BusReset, Peripheral, Types
  <2> QED
    BY <2>1, <2>2, <2>3
<1>6. host' \in HostType /\ (host'.stage \in {"in", "out"} => host'.left >= 1)
      /\ (host'.stage \in {"statusIn", "statusOut"} => host'.left = 0)
  <2>1. CASE HostSetup
    <3>1. PICK req \in Requests :
            host' = [stage |-> IF req.n = 0 THEN "statusIn" ELSE req.dir, req |-> req,
                     left |-> req.n, serial |-> 1 - host.serial, ended |-> "no", sound |-> TRUE,
                     calm |-> Quiet]
      BY <2>1 DEF HostSetup
    <3>2. req \in Asked /\ req.n \in Nat /\ req.dir \in {"in", "out"}
      BY AskedTypes DEF Asked
    <3>3. host.serial = 0 \/ host.serial = 1
      BY DEF Types, HostType
    <3>4. Quiet \in BOOLEAN
      BY DEF Quiet
    <3> QED
      BY <3>1, <3>2, <3>3, <3>4 DEF HostType
  <2>2. CASE HostIn \/ HostOut
    <3> DEFINE last == host.stage \in {"statusIn", "statusOut"}
               l == IF last THEN host.left ELSE host.left - 1
               after == IF host.stage \in {"in", "statusIn"} THEN "statusOut" ELSE "statusIn"
               st == IF last THEN "idle" ELSE IF host.left = 1 THEN after ELSE host.stage
               en == IF ~last THEN host.ended
                     ELSE IF host.stage \in {"in", "statusIn"} THEN "write" ELSE "read"
               so == host'.sound
    <3>1. host' = [host EXCEPT !.left = l, !.stage = st, !.ended = en, !.sound = so]
      <4>1. host \in HostType
        BY DEF Types
      <4>2. CASE HostIn
        BY <4>1, <4>2 DEF HostIn, HostType
      <4>3. CASE HostOut
        BY <4>1, <4>3 DEF HostOut, HostType
      <4> QED
        BY <2>2, <4>2, <4>3
    <3>4. so \in BOOLEAN
      BY <2>2 DEF HostIn, HostOut, HostType, Types
    <3>2. /\ l \in Nat /\ st \in {"idle", "in", "out", "statusIn", "statusOut"}
          /\ en \in {"off", "no", "read", "write", "stall", "given up", "reset"}
          /\ st \in {"in", "out"} => l >= 1
          /\ st \in {"statusIn", "statusOut"} => l = 0
      <4>1. host.stage \in {"in", "out", "statusIn", "statusOut"} /\ host.left \in Nat
        BY <2>2 DEF HostIn, HostOut, Types, HostType
      <4>2. host.ended \in {"off", "no", "read", "write", "stall", "given up", "reset"}
        BY DEF Types, HostType
      <4>3. ~last => host.left >= 1
        BY <4>1 DEF Counts
      <4>4. CASE last
        BY <4>1, <4>2, <4>4
      <4>5. CASE ~last
        <5>1. host.stage \in {"in", "out"} /\ host.left >= 1
          BY <4>1, <4>3, <4>5
        <5>2. l = host.left - 1 /\ en = host.ended
          BY <4>5
        <5>3. IF host.left = 1 THEN st \in {"statusIn", "statusOut"} ELSE st = host.stage
          BY <4>5
        <5> HIDE DEF l, st, en
        <5>4. CASE host.left = 1
          <6>1. l = 0
            BY <5>2, <5>4
          <6>2. st \in {"statusIn", "statusOut"}
            BY <5>3, <5>4
          <6>3. en \in {"off", "no", "read", "write", "stall", "given up", "reset"}
            BY <4>2, <5>2
          <6>4. l \in Nat
            BY <6>1
          <6>5. st \in {"idle", "in", "out", "statusIn", "statusOut"} /\ st \notin {"in", "out"}
            BY <6>2
          <6> QED
            BY <6>1, <6>3, <6>4, <6>5
        <5>5. CASE host.left # 1
          <6>1. l \in Nat /\ l >= 1 /\ st \in {"in", "out"}
            BY <4>1, <5>1, <5>2, <5>3, <5>5
          <6> QED
            BY <4>2, <5>2, <6>1
        <5> QED
          BY <5>4, <5>5
      <4> QED
        BY <4>4, <4>5
    <3>3. host \in HostType
      BY DEF Types
    <3> HIDE DEF l, st, en, so
    <3> QED
      BY <3>1, <3>2, <3>3, <3>4 DEF HostType
  <2>3. CASE HostSeesStall \/ HostGivesUp \/ BusReset
    BY <2>3 DEF HostSeesStall, HostGivesUp, BusReset, Ends, Types, HostType
  <2> QED
    BY <2>1, <2>2, <2>3
<1>7. Types'
  BY <1>1, <1>3, <1>4, <1>5, <1>6 DEF Types
<1>8. Counts'
  BY <1>1, <1>6 DEF Counts
<1> QED
  BY <1>1, <1>7, <1>8

(* Every step keeps TypeInv.                                                 *)
LEMMA NextTypes ==
  ASSUME TypeInv, [Next]_vars PROVE TypeInv'
<1>1. CASE UNCHANGED vars
  BY <1>1 DEF vars, program, layout, TypeInv, Types, Counts
<1>2. CASE Poll
  BY <1>2, PollTypes, TakeTypes, MacroTypes DEF Poll
<1>3. CASE HostSetup \/ HostProgress \/ HostGivesUp \/ BusReset
  BY <1>3, HostTypes DEF HostProgress
<1> QED
  BY <1>1, <1>2, <1>3 DEF Next

(* TypeInv holds throughout: whatever is read, and whenever, what a poll has *)
(* left is one of the named lists, and the packets that program and host     *)
(* count agree with their states (usb.cpp:206-460, 757-949).                 *)
THEOREM EndpointInvariance == Spec => []TypeInv
<1>1. Init => TypeInv
  BY InitTypes
<1>2. TypeInv /\ [Next]_vars => TypeInv'
  BY NextTypes
<1> QED
  BY <1>1, <1>2, PTL DEF Spec

(* None of the ten numbers is above nine.                                    *)
LEMMA Small ==
  \A n : n = 0 \/ n = 1 \/ n = 2 \/ n = 3 \/ n = 4 \/ n = 5 \/ n = 6 \/ n = 7 \/ n = 8 \/ n = 9
           => n <= 9
OBVIOUS

(* No list is longer than _usbd_reset's nine macros.                         *)
LEMMA ListLengths == \A list \in PollLists \cup ResetLists : Len(list) <= 9
<1>1. /\ Len(Reset1) = 1 /\ Len(Reset2) = 2 /\ Len(Reset3) = 3 /\ Len(Reset4) = 4
      /\ Len(Reset5) = 5 /\ Len(Reset6) = 6 /\ Len(Reset7) = 7 /\ Len(Reset8) = 8
      /\ Len(ResetOps) = 9
  BY DEF ResetOps, Reset8, Reset7, Reset6, Reset5, Reset4, Reset3, Reset2, Reset1
<1>2. /\ Len(<<>>) = 0 /\ Len(Look) = 1 /\ Len(TakeIt) = 1 /\ Len(NakTakeIt) = 2
      /\ Len(TakePacket) = 1 /\ Len(StallRx) = 1 /\ Len(StallBoth) = 2 /\ Len(AckTx) = 1
      /\ Len(AckTxStall) = 3 /\ Len(AckTxSend) = 2 /\ Len(Arm) = 1 /\ Len(SendNow) = 1
  BY DEF Look, TakeIt, NakTakeIt, TakePacket, StallRx, StallBoth, AckTx, AckTxStall, AckTxSend,
     Arm, SendNow
<1>3. /\ Len(AckRx) = 1 /\ Len(AckRxSend) = 2 /\ Len(AckRxStall) = 3 /\ Len(AckRxListen) = 2
      /\ Len(AckRxListenSend) = 3 /\ Len(AckRxListenStall) = 4 /\ Len(AckRxUnhalt) = 5
  BY DEF AckRx, AckRxSend, AckRxStall, AckRxListen, AckRxListenSend, AckRxListenStall,
     AckRxUnhalt
<1>4. /\ Len(Listen) = 1 /\ Len(ListenSend) = 2 /\ Len(ListenStall) = 3
      /\ Len(AckTxListen) = 2 /\ Len(Unhalt) = 4 /\ Len(Dtog) = 3
  BY DEF Listen, ListenSend, ListenStall, AckTxListen, Unhalt, Dtog
<1> SUFFICES ASSUME NEW list \in PollLists \cup ResetLists PROVE Len(list) <= 9
  OBVIOUS
<1> DEFINE Short == \/ Len(list) = 0 \/ Len(list) = 1 \/ Len(list) = 2 \/ Len(list) = 3
                    \/ Len(list) = 4 \/ Len(list) = 5 \/ Len(list) = 6 \/ Len(list) = 7
                    \/ Len(list) = 8 \/ Len(list) = 9
<1>5. CASE list \in ResetLists
  <2>1. Short
    BY <1>1, <1>5 DEF ResetLists
  <2> QED
    BY <2>1, Small
<1>6. CASE list \in PollLists
  <2>1. Short
    BY <1>2, <1>3, <1>4, <1>6 DEF PollLists, AcksRx, Listens
  <2> QED
    BY <2>1, Small
<1> QED
  BY <1>5, <1>6

(* EndpointTypeOK: the status fields, the state and the counters keep their  *)
(* ranges, and no poll ever has more than nine macros left to execute        *)
(* (usb.cpp:843-949).                                                        *)
THEOREM EndpointTypeCorrect == Spec => []EndpointTypeOK
<1>1. TypeInv => EndpointTypeOK
  BY ListLengths DEF TypeInv, Types, Register, HostType, EndpointTypeOK
<1> QED
  BY <1>1, EndpointInvariance, PTL

-----------------------------------------------------------------------------
(* The packet memory: where the lists of a reset stand when they place a     *)
(* buffer, and that no other list does.                                      *)
Placed ==
  table.tx = USBD_PM_TOP /\ table.rx = USBD_PM_TOP + MaxPacket /\ table.size = RxSize(MaxPacket)

Layout ==
  /\ table \in [tx : Nat, rx : Nat, size : Nat] /\ usb_pm_top \in Nat
  /\ todo \in {ResetOps, Reset8, Reset7} => usb_pm_top = USBD_PM_TOP
  /\ todo \in {Reset6, Reset5, Reset4} =>
       usb_pm_top = USBD_PM_TOP + MaxPacket /\ table.tx = USBD_PM_TOP
  /\ todo \in {Reset3, Reset2, Reset1} => Placed
  /\ enabled => Placed

(* A poll's list stays one to its end and places no buffer.                  *)
LEMMA PollTails ==
  \A list \in PollLists : list # <<>> =>
     Tail(list) \in PollLists /\ Head(list).m \notin {"txaddr", "rxaddr", "enable"}
<1> SUFFICES ASSUME NEW list \in PollLists, list # <<>>
             PROVE  /\ Tail(list) \in PollLists
                    /\ Head(list).m \notin {"txaddr", "rxaddr", "enable"}
  OBVIOUS
<1>1. CASE list \in AcksRx
  <2>1. /\ Head(list).m = "ctrRx"
        /\ Tail(list) \in {<<>>, SendNow, StallBoth, Listen, ListenSend, ListenStall, Unhalt}
    BY <1>1, AckHeads DEF Begins, AcksRx
  <2> QED
    BY <2>1 DEF PollLists, Listens
<1>2. CASE list \in Listens
  <2>1. /\ Head(list).m \in {"rx", "tx", "dtog", "ctrTx"}
        /\ Tail(list) \in {<<>>, SendNow, StallBoth, Listen, ListenSend, Dtog}
    BY <1>2, PollHeads DEF Begins, Listens
  <2> QED
    BY <2>1 DEF PollLists, Listens
<1>3. CASE list \in {Look, TakeIt, NakTakeIt, TakePacket, StallRx, StallBoth, AckTx, AckTxStall,
                     AckTxSend, Arm, SendNow}
  <2>1. /\ Head(list).m \in {"which", "takeSetup", "takeOut", "rx", "tx", "ctrTx", "send"}
        /\ Tail(list) \in {<<>>, TakeIt, StallRx, StallBoth, SendNow}
    <3>1. CASE list \in {Look, TakeIt, NakTakeIt, TakePacket}
      BY <3>1, PollHeads DEF Begins
    <3>2. CASE list \in {StallRx, StallBoth, AckTx, AckTxStall}
      BY <3>2, PollHeads DEF Begins
    <3>3. CASE list \in {AckTxSend, Arm, SendNow}
      BY <3>3, PollHeads DEF Begins
    <3> QED
      BY <1>3, <3>1, <3>2, <3>3
  <2> QED
    BY <2>1 DEF PollLists
<1> QED
  BY <1>1, <1>2, <1>3 DEF PollLists

(* No list of a poll is one of a bus reset.                                  *)
LEMMA PollsPlaceNothing == \A list \in PollLists : list \notin ResetLists
<1>1. Reset1 \notin PollLists
  BY PollTails, ResetHeads DEF Begins
<1>2. Reset2 \notin PollLists /\ Reset3 \notin PollLists /\ Reset4 \notin PollLists
  BY <1>1, PollTails, ResetHeads DEF Begins
<1>3. Reset5 \notin PollLists /\ Reset6 \notin PollLists /\ Reset7 \notin PollLists
  BY <1>2, PollTails, ResetHeads DEF Begins
<1>4. Reset8 \notin PollLists /\ ResetOps \notin PollLists
  BY <1>3, PollTails, ResetHeads DEF Begins
<1> QED
  BY <1>1, <1>2, <1>3, <1>4 DEF ResetLists

(* The lists of a bus reset before, between and behind its two buffers are   *)
(* different ones.                                                           *)
LEMMA ResetApart ==
  /\ \A list \in {ResetOps, Reset8, Reset7} :
        list \notin {Reset6, Reset5, Reset4, Reset3, Reset2, Reset1, <<>>}
  /\ \A list \in {Reset6, Reset5, Reset4} : list \notin {Reset3, Reset2, Reset1, <<>>}
  /\ \A list \in {Reset3, Reset2, Reset1} : list # <<>>
<1>1. ResetOps \notin {Reset6, Reset5, Reset4, Reset3, Reset2, Reset1, <<>>}
  BY ResetHeads DEF Begins
<1>2. Reset8 \notin {Reset6, Reset5, Reset4, Reset3, Reset2, Reset1, <<>>}
  BY ResetHeads DEF Begins
<1>3. Reset7 \notin {Reset6, Reset5, Reset4, Reset3, Reset2, Reset1, <<>>}
  BY ResetHeads DEF Begins
<1>4. Reset6 \notin {Reset3, Reset2, Reset1, <<>>} /\ Reset5 \notin {Reset3, Reset2, Reset1, <<>>}
  BY ResetHeads DEF Begins
<1>5. Reset4 \notin {Reset3, Reset2, Reset1, <<>>}
  BY ResetHeads DEF Begins
<1>6. Reset3 # <<>> /\ Reset2 # <<>> /\ Reset1 # <<>>
  BY ResetHeads DEF Begins
<1> QED
  BY <1>1, <1>2, <1>3, <1>4, <1>5, <1>6

(* Which of the lists places a buffer or enables the address, and how the    *)
(* list goes on from one part to the next.                                   *)
LEMMA ResetSteps ==
  ASSUME todo \in PollLists \cup ResetLists, todo # <<>>
  PROVE  /\ Head(todo).m = "txaddr" => todo = Reset7 /\ Tail(todo) = Reset6
         /\ Head(todo).m = "rxaddr" => todo = Reset4 /\ Tail(todo) = Reset3
         /\ Head(todo).m = "enable" => todo = Reset1 /\ Tail(todo) = <<>>
         /\ Tail(todo) \in {ResetOps, Reset8, Reset7} => todo \in {ResetOps, Reset8}
         /\ Tail(todo) \in {Reset6, Reset5, Reset4} => todo \in {Reset7, Reset6, Reset5}
         /\ Tail(todo) \in {Reset3, Reset2, Reset1} => todo \in {Reset4, Reset3, Reset2}
<1>1. CASE todo \in {ResetOps, Reset8}
  <2>1. Tail(todo) \in {Reset8, Reset7} /\ Head(todo).m \in {"addr", "type"}
    BY <1>1, ResetHeads DEF Begins
  <2> QED
    BY <1>1, <2>1, ResetApart
<1>2. CASE todo \in {Reset7, Reset6, Reset5}
  <2>1. /\ (todo = Reset7 /\ Tail(todo) = Reset6) \/ Tail(todo) \in {Reset5, Reset4}
        /\ Head(todo).m \in {"txaddr", "dtog", "tx"}
        /\ Head(todo).m = "txaddr" => todo = Reset7
    <3>1. CASE todo = Reset7
      BY <3>1, ResetHeads DEF Begins
    <3>2. CASE todo = Reset6
      BY <3>2, ResetHeads DEF Begins
    <3>3. CASE todo = Reset5
      BY <3>3, ResetHeads DEF Begins
    <3> QED
      BY <1>2, <3>1, <3>2, <3>3
  <2>2. Head(todo).m = "txaddr" => Tail(todo) = Reset6
    BY <2>1, ResetHeads DEF Begins
  <2>3. Tail(todo) \in {Reset6, Reset5, Reset4}
    BY <2>1
  <2> QED
    BY <1>2, <2>1, <2>2, <2>3, ResetApart
<1>3. CASE todo \in {Reset4, Reset3, Reset2}
  <2>1. /\ Tail(todo) \in {Reset3, Reset2, Reset1}
        /\ Head(todo).m \in {"rxaddr", "dtog", "rx"}
        /\ Head(todo).m = "rxaddr" => todo = Reset4
    <3>1. CASE todo = Reset4
      BY <3>1, ResetHeads DEF Begins
    <3>2. CASE todo = Reset3
      BY <3>2, ResetHeads DEF Begins
    <3>3. CASE todo = Reset2
      BY <3>3, ResetHeads DEF Begins
    <3> QED
      BY <1>3, <3>1, <3>2, <3>3
  <2>2. Head(todo).m = "rxaddr" => Tail(todo) = Reset3
    BY <2>1, ResetHeads DEF Begins
  <2> QED
    BY <1>3, <2>1, <2>2, ResetApart
<1>4. CASE todo = Reset1
  <2>1. Head(todo).m = "enable" /\ Tail(todo) = <<>>
    BY <1>4, ResetHeads DEF Begins
  <2> QED
    BY <1>4, <2>1, ResetApart
<1>5. CASE todo \in PollLists
  <2>1. Tail(todo) \notin ResetLists
    BY <1>5, PollTails, PollsPlaceNothing
  <2>2. Head(todo).m \notin {"txaddr", "rxaddr", "enable"}
    BY <1>5, PollTails
  <2> QED
    BY <2>1, <2>2 DEF ResetLists
<1> QED
  BY <1>1, <1>2, <1>3, <1>4, <1>5 DEF ResetLists

(* The sizes are natural numbers.                                            *)
LEMMA RxSizeType == RxSize(MaxPacket) \in Nat /\ USBD_PM_TOP \in Nat /\ MaxPacket \in Nat
BY SizesAssumption DEF RxSize, USBD_PM_TOP

(* Every step keeps Layout: usb_pm_top is where _usbd_reset left it when a   *)
(* buffer is placed.                                                         *)
LEMMA NextLayout == ASSUME TypeInv, Layout, [Next]_vars PROVE Layout'
<1> DEFINE lists == PollLists \cup ResetLists
<1>1. todo \in lists
  BY DEF TypeInv, Types
<1>2. ResetLists = {ResetOps, Reset8, Reset7, Reset6, Reset5, Reset4, Reset3, Reset2, Reset1}
  BY DEF ResetLists
<1>3. ASSUME todo' \in PollLists, UNCHANGED table, usb_pm_top' \in Nat,
             enabled' = enabled \/ ~enabled' PROVE Layout'
  <2>1. todo' \notin ResetLists
    BY <1>3, PollsPlaceNothing
  <2>2. enabled' => Placed'
    BY <1>3 DEF Layout, Placed
  <2>3. table' \in [tx : Nat, rx : Nat, size : Nat]
    BY <1>3 DEF Layout
  <2> QED
    BY <1>2, <1>3, <2>1, <2>2, <2>3 DEF Layout
<1>4. ASSUME UNCHANGED <<layout, todo>>, enabled' = enabled \/ ~enabled' PROVE Layout'
  BY <1>4 DEF Layout, Placed, layout
<1>5. CASE PollReset
  <2>1. todo' = ResetOps /\ usb_pm_top' = USBD_PM_TOP /\ UNCHANGED <<table, enabled>>
    BY <1>5 DEF PollReset, PmTop
  <2>2. ResetOps \notin {Reset6, Reset5, Reset4, Reset3, Reset2, Reset1}
    BY ResetHeads DEF Begins
  <2>3. enabled' => Placed'
    BY <2>1 DEF Layout, Placed
  <2> QED
    BY <2>1, <2>2, <2>3, RxSizeType DEF Layout
<1>6. CASE PollRx \/ PollTx \/ Which
  <2>1. todo' \in PollLists
    BY <1>6, Joined, TxOutcome, WhichOutcome DEF PollRx, PollLists, Listens
  <2>2. UNCHANGED <<layout, enabled>>
    BY <1>6 DEF PollRx, PollTx, Which, Peripheral
  <2> QED
    BY <1>3, <2>1, <2>2 DEF layout, Layout
<1>7. CASE TakeSetup
  <2>1. memory.req.n \in Nat /\ memory.req.dir \in {"in", "out"}
    BY AskedTypes DEF TypeInv, Types
  <2>2. todo' \in {StallBoth, AckRxUnhalt, AckRxSend, AckRxListen, AckRxStall}
    BY <1>7, <2>1, SetupOutcome
  <2>3. usb_pm_top' = usb_pm_top \/ usb_pm_top' = USBD_PM_TOP + 2 * MaxPacket
    <3>1. CASE reg.rx # VALID /\ memory.kind = "setup"
      <4>1. IF memory.req.dir = "in" \/ memory.req.n = 0
            THEN StartRead(memory.req, <<Step("ctrRx")>>)
            ELSE StartWrite(memory.req, <<Step("ctrRx")>>)
        BY <1>7, <3>1 DEF TakeSetup
      <4>2. ASSUME StartRead(memory.req, <<Step("ctrRx")>>)
            PROVE  usb_pm_top' = usb_pm_top \/ usb_pm_top' = USBD_PM_TOP + 2 * MaxPacket
        <5>1. CASE memory.req.what = "refused"
          BY <4>2, <5>1 DEF StartRead
        <5>2. CASE memory.req.what # "refused" /\ memory.req.n > 0
          BY <4>2, <5>2 DEF StartRead
        <5>3. CASE memory.req.what # "refused" /\ memory.req.n = 0
          <6>1. /\ ~(memory.req.what = "refused")
                /\ ~(memory.req.what # "refused" /\ memory.req.n > 0)
            BY <5>3
          <6>2. usb_pm_top' = IF memory.req.what = "config" THEN USBD_PM_TOP + 2 * MaxPacket
                              ELSE usb_pm_top
            BY <4>2, <5>3, <6>1, Zenon DEF StartRead
          <6> QED
            BY <6>2
        <5> QED
          BY <2>1, <5>1, <5>2, <5>3
      <4> QED
        BY <4>1, <4>2 DEF StartWrite
    <3>2. CASE ~(reg.rx # VALID /\ memory.kind = "setup")
      BY <1>7, <3>2 DEF TakeSetup
    <3> QED
      BY <3>1, <3>2
  <2>4. usb_pm_top' \in Nat
    BY <2>3, RxSizeType DEF Layout
  <2>5. UNCHANGED <<table, enabled>>
    BY <1>7 DEF TakeSetup, Peripheral
  <2>6. todo' \in PollLists
    BY <2>2 DEF PollLists, AcksRx
  <2> QED
    BY <1>3, <2>4, <2>5, <2>6
<1>8. CASE TakeOut
  <2>1. usb_fsm_state \in Outs /\ usb_force_nak \in BOOLEAN
    <3>1. todo # <<>> /\ Head(todo).m = "takeOut"
      BY <1>8 DEF TakeOut, At
    <3>2. todo = TakePacket
      BY <1>1, <3>1, SingleHeads
    <3> QED
      BY <3>2 DEF TypeInv, Types
  <2>2. todo' \in {<<>>, StallBoth, AckRx, AckRxListen, AckRxStall, AckRxListenStall, AckRxSend,
                   AckRxListenSend}
    BY <1>8, <2>1, OutOutcome
  <2>3. UNCHANGED <<layout, enabled>>
    BY <1>8 DEF TakeOut, Peripheral
  <2>4. todo' \in PollLists
    BY <2>2 DEF PollLists, AcksRx
  <2> QED
    BY <1>3, <2>3, <2>4 DEF layout, Layout
<1>9. CASE Send
  <2>1. todo = SendNow
    BY <1>1, <1>9, SingleHeads DEF Send, At
  <2>2. todo' \in {<<>>, Arm}
    BY <1>9, <2>1, PollHeads, JoinedRx DEF Send, Begins, Rest
  <2>3. UNCHANGED <<layout, enabled>> /\ todo' \in PollLists
    BY <1>9, <2>2 DEF Send, Peripheral, PollLists
  <2> QED
    BY <1>3, <2>3 DEF layout, Layout
<1>10. CASE Place
  <2>1. UNCHANGED enabled /\ usb_pm_top' = usb_pm_top + MaxPacket /\ todo' = Tail(todo)
    BY <1>10 DEF Place, Peripheral, Rest
  <2>2. CASE At("txaddr")
    <3>1. todo = Reset7 /\ todo' = Reset6
      BY <1>1, <2>1, <2>2, ResetSteps DEF At
    <3>2. Head(todo).m # "rxaddr" /\ Reset7 \notin {<<>>, Reset6, Reset5, Reset4}
      BY <2>2, ResetHeads DEF At, Begins
    <3>3. table' = [table EXCEPT !.tx = usb_pm_top]
      BY <1>10, <3>2 DEF Place, At
    <3>4. usb_pm_top = USBD_PM_TOP
      BY <3>1 DEF Layout
    <3>5. Reset6 \notin {ResetOps, Reset8, Reset7, Reset3, Reset2, Reset1}
      BY ResetHeads DEF Begins, NAK, VALID
    <3>6. /\ table' \in [tx : Nat, rx : Nat, size : Nat] /\ usb_pm_top' \in Nat
          /\ table'.tx = USBD_PM_TOP /\ table'.rx = table.rx /\ table'.size = table.size
      BY <2>1, <3>3, <3>4, RxSizeType DEF Layout
    <3> QED
      BY <2>1, <3>1, <3>4, <3>5, <3>6 DEF Layout, Placed
  <2>3. CASE At("rxaddr")
    <3>1. todo = Reset4 /\ todo' = Reset3
      BY <1>1, <2>1, <2>3, ResetSteps DEF At
    <3>2. Head(todo).m # "txaddr"
      BY <2>3 DEF At
    <3>3. table' = [table EXCEPT !.rx = usb_pm_top, !.size = RxSize(MaxPacket)]
      BY <1>10, <3>2 DEF Place, At
    <3>4. usb_pm_top = USBD_PM_TOP + MaxPacket /\ table.tx = USBD_PM_TOP
      BY <3>1 DEF Layout
    <3>5. Reset3 \notin {ResetOps, Reset8, Reset7, Reset6, Reset5, Reset4}
      BY ResetHeads DEF Begins, NAK, VALID
    <3>6. /\ table' \in [tx : Nat, rx : Nat, size : Nat] /\ usb_pm_top' \in Nat
          /\ table'.tx = table.tx /\ table'.rx = usb_pm_top /\ table'.size = RxSize(MaxPacket)
      <4> DEFINE size == RxSize(MaxPacket)
      <4>1. /\ table \in [tx : Nat, rx : Nat, size : Nat] /\ usb_pm_top \in Nat
            /\ size \in Nat /\ MaxPacket \in Nat
        BY RxSizeType DEF Layout
      <4>2. table' = [table EXCEPT !.rx = usb_pm_top, !.size = size]
        BY <3>3
      <4> HIDE DEF size
      <4>3. /\ table' \in [tx : Nat, rx : Nat, size : Nat]
            /\ table'.tx = table.tx /\ table'.rx = usb_pm_top /\ table'.size = size
        BY <4>1, <4>2
      <4>4. usb_pm_top' \in Nat
        BY <2>1, <4>1
      <4> QED
        BY <4>3, <4>4 DEF size
    <3>7. Placed'
      BY <3>4, <3>6 DEF Placed
    <3> QED
      BY <3>1, <3>5, <3>6, <3>7 DEF Layout
  <2> QED
    BY <1>10, <2>2, <2>3 DEF Place
<1>11. CASE Enable
  <2>1. todo = Reset1 /\ todo' = <<>>
    BY <1>1, <1>11, ResetSteps DEF Enable, At, Rest
  <2>2. UNCHANGED layout /\ <<>> \notin ResetLists
    BY <1>11, PollsPlaceNothing DEF Enable, PollLists
  <2>3. Placed'
    BY <2>1, <2>2 DEF Layout, Placed, layout
  <2> QED
    BY <1>2, <2>1, <2>2, <2>3 DEF Layout, layout
<1>12. CASE WriteRegister
  <2>1. todo # <<>> /\ todo' = Tail(todo) /\ UNCHANGED <<layout, enabled>>
    BY <1>12 DEF WriteRegister, TypeInv, Types, Rest
  <2>2. Head(todo).m \notin {"txaddr", "rxaddr", "enable"}
    BY <1>12 DEF WriteRegister, TypeInv, Types, RegisterMacros
  <2>3. todo \notin {Reset7, Reset4, Reset1}
    BY <2>2, ResetHeads DEF Begins
  <2>4. /\ todo' \in {ResetOps, Reset8, Reset7} => todo \in {ResetOps, Reset8}
        /\ todo' \in {Reset6, Reset5, Reset4} => todo \in {Reset6, Reset5}
        /\ todo' \in {Reset3, Reset2, Reset1} => todo \in {Reset3, Reset2}
    BY <1>1, <2>1, <2>3, ResetSteps
  <2> QED
    BY <2>1, <2>4 DEF Layout, Placed, layout
<1>13. CASE ReadRegister
  BY <1>4, <1>13 DEF ReadRegister, Peripheral
<1>14. CASE HostSetup \/ HostIn \/ HostOut \/ HostSeesStall \/ HostGivesUp \/ BusReset
  <2>1. UNCHANGED <<layout, todo>>
    BY <1>14 DEF HostSetup, HostIn, HostOut, HostSeesStall, HostGivesUp, BusReset, program
  <2>2. enabled' = enabled \/ ~enabled'
    BY <1>14 DEF HostSetup, HostIn, HostOut, HostSeesStall, HostGivesUp, BusReset, Peripheral
  <2> QED
    BY <1>4, <2>1, <2>2
<1>15. CASE UNCHANGED vars
  BY <1>4, <1>15 DEF vars, program
<1> QED
  BY <1>5, <1>6, <1>7, <1>8, <1>9, <1>10, <1>11, <1>12, <1>13, <1>14, <1>15
     DEF Next, Poll, HostProgress

(* BuffersApart for every packet size that the memory has room for twice:    *)
(* whenever the device has an address its two buffers lie behind the buffer  *)
(* table, apart and inside the memory, however often the bus was reset or a  *)
(* configuration set (usb.cpp:519, 843-906, 927).                            *)
THEOREM BuffersStayApart ==
  ASSUME USBD_PM_TOP + MaxPacket + RxSize(MaxPacket) <= MemorySize
  PROVE  Spec => []BuffersApart
<1>1. Init => Layout
  <2> SUFFICES ASSUME Init PROVE Layout
    OBVIOUS
  <2>1. <<>> \notin ResetLists
    BY PollsPlaceNothing DEF PollLists
  <2> QED
    BY <2>1 DEF Init, Layout, ResetLists
<1>2. TypeInv /\ Layout /\ [Next]_vars => Layout'
  BY NextLayout
<1>3. Layout => BuffersApart
  BY RxSizeType, SizesAssumption DEF Layout, Placed, BuffersApart
<1> QED
  BY <1>1, <1>2, <1>3, EndpointInvariance, PTL DEF Spec

(* The sizes of the device: 64 byte packets in the GD32's 512 bytes.         *)
LEMMA DeviceSizes ==
  ASSUME MaxPacket = 64, MemorySize = 512
  PROVE  USBD_PM_TOP + MaxPacket + RxSize(MaxPacket) <= MemorySize
<1>1. MaxPacket % 32 = 0 /\ MaxPacket \div 32 = 2
  OBVIOUS
<1> QED
  BY <1>1 DEF USBD_PM_TOP, RxSize

-----------------------------------------------------------------------------
(* The lists of a poll differ from one another.                              *)
LEMMA Apart ==
  /\ <<>> \notin {Look, TakeIt, NakTakeIt, TakePacket, StallRx, StallBoth, AckTx, AckTxStall,
                  AckTxSend, Arm, SendNow} \cup AcksRx \cup Listens
  /\ Look \notin {TakeIt, NakTakeIt, TakePacket, StallRx, StallBoth, AckTx, AckTxStall,
                  AckTxSend, Arm, SendNow} \cup AcksRx \cup Listens
  /\ TakeIt \notin {NakTakeIt, TakePacket, StallRx, StallBoth, AckTx, AckTxStall,
                    AckTxSend, Arm, SendNow} \cup AcksRx \cup Listens
  /\ NakTakeIt \notin {TakePacket, StallRx, StallBoth, AckTx, AckTxStall,
                       AckTxSend, Arm, SendNow} \cup AcksRx \cup Listens
  /\ TakePacket \notin {StallRx, StallBoth, AckTx, AckTxStall,
                        AckTxSend, Arm, SendNow} \cup AcksRx \cup Listens
  /\ StallRx \notin {StallBoth, AckTx, AckTxStall, AckTxSend, Arm, SendNow} \cup AcksRx \cup Listens
  /\ StallBoth \notin {AckTx, AckTxStall, AckTxSend, Arm, SendNow} \cup AcksRx \cup Listens
  /\ AckTx \notin {AckTxStall, AckTxSend, Arm, SendNow} \cup AcksRx \cup Listens
  /\ AckTxStall \notin {AckTxSend, Arm, SendNow} \cup AcksRx \cup Listens
  /\ AckTxSend \notin {Arm, SendNow} \cup AcksRx \cup Listens
  /\ Arm \notin {SendNow} \cup AcksRx \cup Listens
  /\ SendNow \notin AcksRx \cup Listens
<1>1. \A list \in AcksRx : list # <<>> /\ Head(list).m = "ctrRx"
  BY AckHeads DEF Begins, AcksRx
<1>2. \A list \in Listens :
         /\ list # <<>> /\ Head(list).m \in {"rx", "tx", "ctrTx", "dtog"}
         /\ Head(list).m = "rx" => Head(list).s = VALID
         /\ Head(list).m = "tx" => Head(list).s = NAK
         /\ Head(list).m = "ctrTx" => Tail(list) = Listen
  <2> SUFFICES ASSUME NEW list \in Listens
               PROVE  /\ list # <<>> /\ Head(list).m \in {"rx", "tx", "ctrTx", "dtog"}
                      /\ Head(list).m = "rx" => Head(list).s = VALID
                      /\ Head(list).m = "tx" => Head(list).s = NAK
                      /\ Head(list).m = "ctrTx" => Tail(list) = Listen
    OBVIOUS
  <2>1. CASE list \in {Listen, ListenSend, ListenStall}
    BY <2>1, PollHeads DEF Begins
  <2>2. CASE list \in {AckTxListen, Unhalt, Dtog}
    BY <2>2, PollHeads DEF Begins
  <2> QED
    BY <2>1, <2>2 DEF Listens
<1>3. NAK # VALID /\ STALL # VALID /\ NAK # STALL
  BY DEF NAK, VALID, STALL
<1>4. <<>> \notin {Look, TakeIt, NakTakeIt, TakePacket, StallRx, StallBoth, AckTx, AckTxStall,
                   AckTxSend, Arm, SendNow} \cup AcksRx \cup Listens
  BY <1>1, <1>2, PollHeads DEF Begins
<1>5. Look \notin {TakeIt, NakTakeIt, TakePacket, StallRx, StallBoth, AckTx, AckTxStall,
                   AckTxSend, Arm, SendNow} \cup AcksRx \cup Listens
  BY <1>1, <1>2, PollHeads DEF Begins
<1>6. TakeIt \notin {NakTakeIt, TakePacket, StallRx, StallBoth, AckTx, AckTxStall,
                     AckTxSend, Arm, SendNow} \cup AcksRx \cup Listens
  BY <1>1, <1>2, PollHeads DEF Begins
<1>7. NakTakeIt \notin {TakePacket, StallRx, StallBoth, AckTx, AckTxStall,
                        AckTxSend, Arm, SendNow} \cup AcksRx \cup Listens
  BY <1>1, <1>2, <1>3, PollHeads DEF Begins
<1>8. TakePacket \notin {StallRx, StallBoth, AckTx, AckTxStall,
                         AckTxSend, Arm, SendNow} \cup AcksRx \cup Listens
  BY <1>1, <1>2, PollHeads DEF Begins
<1>9. StallRx \notin {StallBoth, AckTx, AckTxStall, AckTxSend, Arm, SendNow}
                       \cup AcksRx \cup Listens
  BY <1>1, <1>2, <1>3, PollHeads DEF Begins
<1>10. StallBoth \notin {AckTx, AckTxStall, AckTxSend, Arm, SendNow} \cup AcksRx \cup Listens
  <2>1. StallBoth \notin {AckTx, AckTxStall, AckTxSend, Arm, SendNow}
    BY <1>3, PollHeads DEF Begins
  <2>2. StallBoth \notin AcksRx \cup Listens
    BY <1>1, <1>2, <1>3, PollHeads DEF Begins
  <2> QED
    BY <2>1, <2>2
<1>11. AckTx \notin {AckTxStall, AckTxSend, Arm, SendNow} \cup AcksRx \cup Listens
  <2>1. AckTx \notin {AckTxStall, AckTxSend, Arm, SendNow}
    BY <1>4, PollHeads DEF Begins
  <2>2. AckTx \notin AcksRx \cup Listens
    BY <1>1, <1>2, PollHeads DEF Begins
  <2> QED
    BY <2>1, <2>2
<1>12. StallBoth # SendNow /\ StallBoth # Listen /\ SendNow # Listen
  BY <1>3, PollHeads DEF Begins
<1>13. AckTxStall \notin {AckTxSend, Arm, SendNow} \cup AcksRx \cup Listens
  <2>1. AckTxStall \notin {AckTxSend, Arm, SendNow}
    BY <1>12, PollHeads DEF Begins
  <2>2. AckTxStall \notin AcksRx \cup Listens
    BY <1>1, <1>2, <1>12, PollHeads DEF Begins
  <2> QED
    BY <2>1, <2>2
<1>14. AckTxSend \notin {Arm, SendNow} \cup AcksRx \cup Listens
  BY <1>1, <1>2, <1>12, PollHeads DEF Begins
<1>15. Arm \notin {SendNow} \cup AcksRx \cup Listens /\ SendNow \notin AcksRx \cup Listens
  BY <1>1, <1>2, <1>3, PollHeads DEF Begins
<1> QED
  BY <1>4, <1>5, <1>6, <1>7, <1>8, <1>9, <1>10, <1>11, <1>13, <1>14, <1>15

(* The lists that begin with an acknowledgement differ from one another.     *)
LEMMA ApartAcks ==
  /\ \A list \in AcksRx : list \notin Listens
  /\ AckRx \notin {AckRxSend, AckRxStall, AckRxListen, AckRxListenSend, AckRxListenStall,
                   AckRxUnhalt}
  /\ AckRxSend \notin {AckRxStall, AckRxListen, AckRxListenSend, AckRxListenStall, AckRxUnhalt}
  /\ AckRxStall \notin {AckRxListen, AckRxListenSend, AckRxListenStall, AckRxUnhalt}
  /\ AckRxListen \notin {AckRxListenSend, AckRxListenStall, AckRxUnhalt}
  /\ AckRxListenSend \notin {AckRxListenStall, AckRxUnhalt}
  /\ AckRxListenStall # AckRxUnhalt
<1>1. \A list \in AcksRx : Head(list).m = "ctrRx"
  BY AckHeads DEF Begins, AcksRx
<1>2. \A list \in Listens : Head(list).m # "ctrRx"
  BY PollHeads DEF Begins, Listens
<1>3. NAK # VALID /\ STALL # VALID /\ NAK # STALL
  BY DEF NAK, VALID, STALL
<1>4. <<>> \notin {SendNow, StallBoth, Listen, ListenSend, ListenStall, Unhalt}
  BY PollHeads DEF Begins
<1>5. /\ SendNow \notin {StallBoth, Listen, ListenSend, ListenStall, Unhalt}
      /\ StallBoth \notin {Listen, ListenSend, ListenStall, Unhalt}
  BY <1>3, PollHeads DEF Begins
<1>6. Listen \notin {ListenSend, ListenStall, Unhalt} /\ ListenSend \notin {ListenStall, Unhalt}
      /\ ListenStall # Unhalt
  BY <1>3, <1>4, <1>5, PollHeads DEF Begins
<1>7. AckRx \notin {AckRxSend, AckRxStall, AckRxListen, AckRxListenSend, AckRxListenStall,
                    AckRxUnhalt}
  BY <1>4, AckHeads DEF Begins
<1>8. AckRxSend \notin {AckRxStall, AckRxListen, AckRxListenSend, AckRxListenStall, AckRxUnhalt}
  BY <1>5, AckHeads DEF Begins
<1>9. AckRxStall \notin {AckRxListen, AckRxListenSend, AckRxListenStall, AckRxUnhalt}
  BY <1>5, AckHeads DEF Begins
<1>10. AckRxListen \notin {AckRxListenSend, AckRxListenStall, AckRxUnhalt}
  BY <1>6, AckHeads DEF Begins
<1>11. AckRxListenSend \notin {AckRxListenStall, AckRxUnhalt} /\ AckRxListenStall # AckRxUnhalt
  BY <1>6, AckHeads DEF Begins
<1> QED
  BY <1>1, <1>2, <1>7, <1>8, <1>9, <1>10, <1>11

(* Those that listen or touch the endpoint differ from one another.          *)
LEMMA ApartListens ==
  /\ Listen \notin {ListenSend, ListenStall, AckTxListen, Unhalt, Dtog}
  /\ ListenSend \notin {ListenStall, AckTxListen, Unhalt, Dtog}
  /\ ListenStall \notin {AckTxListen, Unhalt, Dtog}
  /\ AckTxListen \notin {Unhalt, Dtog}
  /\ Unhalt # Dtog
<1>1. <<>> \notin {SendNow, StallBoth} /\ SendNow # StallBoth
  BY PollHeads DEF Begins
<1>2. Listen \notin {ListenSend, ListenStall, AckTxListen, Unhalt, Dtog}
  BY <1>1, PollHeads DEF Begins
<1>3. ListenSend \notin {ListenStall, AckTxListen, Unhalt, Dtog}
  BY <1>1, PollHeads DEF Begins
<1>4. ListenStall \notin {AckTxListen, Unhalt, Dtog}
  BY PollHeads DEF Begins
<1>5. AckTxListen \notin {Unhalt, Dtog} /\ Unhalt # Dtog
  BY PollHeads DEF Begins
<1> QED
  BY <1>2, <1>3, <1>4, <1>5

-----------------------------------------------------------------------------
(* What each macro writes.                                                   *)
Elsewhere == <<memory, enabled, resetFlag, outgoing, layout, usb_fsm_state, usb_force_nak,
               usb_req, left, host, pending>>
Done == todo' = Tail(todo) /\ ~old'.valid /\ reg'.setup = reg.setup /\ UNCHANGED Elsewhere

(* What is left is the rest of the list, and nothing else changes.           *)
LEMMA WriteDone == ASSUME WriteRegister, Types PROVE Done /\ todo # <<>> /\ old.valid
<1>1. reg'.setup = reg.setup
  BY WriteEffect
<1>2. todo' = Tail(todo) /\ ~old'.valid /\ UNCHANGED Elsewhere /\ old.valid
  BY DEF WriteRegister, Rest, NotRead, Elsewhere
<1> QED
  BY <1>1, <1>2 DEF Done, Types

(* USB_SET_EP_RX_STAT (usb.h:444-445) changes the receive status alone.      *)
LEMMA WriteRx ==
  ASSUME Types, WriteRegister, Head(todo).m = "rx"
  PROVE  /\ reg'.ctrRx <=> reg.ctrRx
         /\ reg'.ctrTx <=> reg.ctrTx
         /\ reg'.tx = reg.tx /\ reg'.rx = Flip(reg.rx, Flip(old.rx, Head(todo).s))
<1>1. "rx" \in Spares /\ "rx" \notin {"ctrRx", "ctrTx", "tx"}
  BY DEF Spares
<1>2. reg'.tx = reg.tx /\ reg'.rx = Flip(reg.rx, Flip(old.rx, Head(todo).s))
  BY <1>1, WriteEffect
<1>3. (reg'.ctrRx <=> reg.ctrRx) /\ (reg'.ctrTx <=> reg.ctrTx)
  BY <1>1, WriteEffect
<1> QED
  BY <1>2, <1>3

(* USB_SET_EP_TX_STAT (usb.h:447-448) changes the transmit status alone.     *)
LEMMA WriteTx ==
  ASSUME Types, WriteRegister, Head(todo).m = "tx"
  PROVE  /\ reg'.ctrRx <=> reg.ctrRx
         /\ reg'.ctrTx <=> reg.ctrTx
         /\ reg'.rx = reg.rx /\ reg'.tx = Flip(reg.tx, Flip(old.tx, Head(todo).s))
<1>1. "tx" \in Spares /\ "tx" \notin {"ctrRx", "ctrTx", "rx"}
  BY DEF Spares
<1>2. reg'.rx = reg.rx /\ reg'.tx = Flip(reg.tx, Flip(old.tx, Head(todo).s))
  BY <1>1, WriteEffect
<1>3. (reg'.ctrRx <=> reg.ctrRx) /\ (reg'.ctrTx <=> reg.ctrTx)
  BY <1>1, WriteEffect
<1> QED
  BY <1>2, <1>3

(* The acknowledgements clear the one CTR bit they mean to.                  *)
LEMMA WriteAck ==
  ASSUME Types, WriteRegister, Head(todo).m \in {"ctrRx", "ctrTx"}
  PROVE  /\ reg'.ctrRx <=> reg.ctrRx /\ Head(todo).m = "ctrTx"
         /\ reg'.ctrTx <=> reg.ctrTx /\ Head(todo).m = "ctrRx"
         /\ reg'.rx = reg.rx /\ reg'.tx = reg.tx
<1>1. /\ Head(todo).m \in Spares /\ Head(todo).m \notin {"rx", "tx"}
      /\ Head(todo).m # "ctrRx" <=> Head(todo).m = "ctrTx"
  BY DEF Spares
<1>2. reg'.rx = reg.rx /\ reg'.tx = reg.tx
  BY <1>1, WriteEffect
<1>3. reg'.ctrRx <=> reg.ctrRx /\ Head(todo).m = "ctrTx"
  BY <1>1, WriteEffect
<1>4. reg'.ctrTx <=> reg.ctrTx /\ Head(todo).m = "ctrRx"
  BY <1>1, WriteEffect
<1> QED
  BY <1>2, <1>3, <1>4

(* Clearing a data toggle may clear a CTR bit that was set since the         *)
(* reading, and sets none.                                                   *)
LEMMA WriteDtog ==
  ASSUME Types, WriteRegister, Head(todo).m = "dtog"
  PROVE  /\ reg'.ctrRx => reg.ctrRx
         /\ reg'.ctrTx => reg.ctrTx
         /\ reg'.rx = reg.rx /\ reg'.tx = reg.tx
<1>1. "dtog" \notin {"rx", "tx", "ctrRx", "ctrTx"}
  OBVIOUS
<1>2. reg'.rx = reg.rx /\ reg'.tx = reg.tx
  BY <1>1, WriteEffect
<1>3. (reg'.ctrRx => reg.ctrRx) /\ (reg'.ctrTx => reg.ctrTx)
  BY <1>1, WriteEffect
<1> QED
  BY <1>2, <1>3

-----------------------------------------------------------------------------
(* The second layer: what host, register and program agree on from a SETUP   *)
(* to the end of its transfer.                                               *)
Attached == host.ended \notin {"off", "reset"}
Opening(req) == IF req.n = 0 THEN "statusIn" ELSE req.dir
Finishing == {AckTx, AckTxStall, StallBoth, StallRx}

Linked ==
  /\ (host.stage = "idle") <=> (host.ended # "no")
  /\ Attached => ~resetFlag
  /\ ~Attached => ~pending

(* While a SETUP waits to be read, nothing but the end of the poll that was  *)
(* under way and the way to _usbd_control_setup is left to execute.          *)
Waits ==
  /\ reg.ctrRx /\ reg.setup
  /\ memory.kind = "setup" /\ memory.req = host.req /\ memory.serial = host.serial
  /\ reg.rx # VALID /\ reg.tx \in {NAK, STALL}
  /\ todo \in {<<>>, Look, NakTakeIt, TakeIt} \cup Finishing
  /\ todo \in {TakeIt} \cup Finishing => reg.rx = NAK
  /\ todo \in {AckTx, AckTxStall, StallBoth} => reg.tx = NAK
  /\ todo = NakTakeIt /\ old.valid => old.rx = reg.rx
  /\ todo = StallRx /\ old.valid => old.rx # DISABLED
  /\ todo = StallBoth /\ old.valid => old.tx \in {NAK, STALL}
  /\ host.stage \in {"idle", Opening(host.req)} /\ host.ended # "write"
  /\ host.stage # "idle" => host.left = host.req.n

(* What a poll may still have to execute in each state.                      *)
Work ==
  /\ usb_fsm_state = "IDLE" =>
       todo \in {<<>>, Look, StallRx, StallBoth, AckTx, AckTxStall, Listen, ListenStall,
                 AckRxStall, AckRxListen, AckRxListenStall}
  /\ usb_fsm_state \in Sending => todo \in {<<>>, AckRxSend, SendNow, Arm, AckTxSend}
  /\ usb_fsm_state = "STATUS_IN" =>
       todo \in {<<>>, AckRxSend, SendNow, Arm, AckRxListenSend, ListenSend, AckRxUnhalt, Unhalt,
                 Dtog}
  /\ usb_fsm_state = "STATUS_OUT" => todo \in {<<>>, Look, TakePacket, AckTxListen, Listen}
  /\ usb_fsm_state \in Receiving => todo \in {<<>>, Look, TakePacket, AckRxListen, Listen}

Shape ==
  /\ usb_req.req = host.req /\ usb_req.serial = host.serial
  /\ Work
  /\ reg.ctrRx /\ todo \notin AcksRx => ~reg.setup
  /\ todo = Look => reg.ctrRx

(* The way to the host: a packet in the transmit buffer is the answer to the *)
(* request the host has open, and the device has heard nothing since.        *)
Way ==
  /\ reg.tx # DISABLED
  /\ todo = Arm => outgoing = host.serial
  /\ todo \in {Arm, StallBoth, Unhalt} /\ old.valid => old.tx = reg.tx
  /\ reg.tx = VALID =>
       /\ ~reg.ctrRx /\ outgoing = host.serial
       /\ usb_fsm_state \notin Receiving
       /\ todo \in {<<>>, AckTx, AckTxListen, Listen, AckTxSend, SendNow}
       /\ usb_fsm_state \in {"IDLE", "STATUS_OUT"} /\ todo \in {<<>>, Listen} => ~reg.ctrTx
       /\ todo = SendNow => usb_fsm_state \in Sending
       /\ todo = Listen => usb_fsm_state = "STATUS_OUT"
  /\ usb_fsm_state \in Ins /\ todo = <<>> => reg.tx = VALID \/ reg.ctrTx

(* The way from the host: it is closed from a packet to its reading, and     *)
(* open when the program waits for one.                                      *)
Ear ==
  /\ reg.rx = DISABLED => reg.ctrRx
  /\ todo \in AcksRx \cup Listens \cup {TakePacket} => reg.rx = NAK
  /\ usb_fsm_state \in Sending => reg.rx = NAK
  /\ usb_fsm_state \in Ins /\ todo \notin AcksRx => ~reg.ctrRx
  /\ todo \in Listens => ~reg.ctrRx
  /\ todo \in {Listen, ListenSend, ListenStall} /\ old.valid => old.rx = NAK
  /\ todo = StallRx /\ old.valid =>
       old.rx = reg.rx \/ (old.rx = VALID /\ reg.rx = NAK /\ reg.ctrRx)
  /\ usb_fsm_state \in Outs =>
       /\ ~usb_force_nak
       /\ todo \in {Look, TakePacket} => reg.rx = NAK /\ reg.ctrRx
       /\ todo = <<>> /\ reg.ctrRx => reg.rx = NAK
       /\ todo = <<>> /\ ~reg.ctrRx => reg.rx = VALID

(* The packets: the host expects no fewer than the program has still to      *)
(* send, and as many are still to come as the program expects.               *)
Unread == reg.ctrRx /\ todo \in {<<>>, Look, TakePacket}
ToSend == todo \in {AckRxSend, SendNow, Arm, AckTxSend}
Coming == (IF reg.tx = VALID THEN 1 ELSE 0) + (IF ToSend THEN 1 ELSE 0)
Tally ==
  /\ usb_fsm_state \in Sending \cup {"STATUS_OUT"} => host.stage \in {"in", "statusOut", "idle"}
  /\ usb_fsm_state \in Sending /\ host.stage # "idle" => host.left >= left + Coming
  /\ usb_fsm_state = "STATUS_OUT" /\ host.stage # "idle" => host.left >= Coming
  /\ usb_fsm_state \in Receiving =>
       /\ host.stage \in {"out", "statusIn", "idle"}
       /\ host.stage # "idle" => host.left + (IF Unread THEN 1 ELSE 0) = left
  /\ usb_fsm_state = "STATUS_IN" => host.stage \in {"statusIn", "idle"}
  /\ usb_fsm_state = "IDLE" /\ reg.tx = VALID => host.stage \in {"statusIn", "idle"}
  /\ host.ended = "write" =>
       /\ reg.tx # VALID /\ ~reg.ctrRx
       /\ usb_fsm_state \in {"STATUS_IN", "IDLE"}
       /\ todo \in {<<>>} \cup Finishing

InOrder == Shape /\ Way /\ Ear /\ Tally
Orderly == /\ Linked
           /\ Attached /\ pending => Waits
           /\ Attached /\ ~pending => InOrder

(* What STALL written over NAK can give, for each value it may have been     *)
(* computed from.                                                            *)
LEMMA FlipStalls ==
  /\ \A b \in {STALL, NAK, VALID} : Flip(NAK, Flip(b, STALL)) # VALID
  /\ \A b \in {STALL, NAK} : Flip(NAK, Flip(b, STALL)) \in {STALL, NAK}
  /\ Flip(NAK, Flip(VALID, STALL)) = DISABLED
BY DEF Flip, STALL, NAK, VALID, DISABLED

(* The four values of a status are different.                                *)
LEMMA StatFacts ==
  /\ DISABLED # STALL /\ DISABLED # NAK /\ DISABLED # VALID /\ STALL # NAK /\ STALL # VALID
  /\ NAK # VALID /\ Stats = {DISABLED, STALL, NAK, VALID}
BY DEF Stats, DISABLED, STALL, NAK, VALID

(* What a step of the program leaves to the host.                            *)
LEMMA PollKeeps ==
  ASSUME Poll
  PROVE  /\ UNCHANGED <<host, memory>>
         /\ resetFlag' = resetFlag \/ resetFlag' = FALSE
         /\ pending' = pending \/ pending' = FALSE
<1>1. UNCHANGED <<host, memory>>
  BY DEF Poll, PollReset, PollRx, PollTx, Which, TakeSetup, TakeOut, Send, Place, Enable,
     ReadRegister, WriteRegister, Peripheral
<1>2. resetFlag' = resetFlag \/ resetFlag' = FALSE
  BY DEF Poll, PollReset, PollRx, PollTx, Which, TakeSetup, TakeOut, Send, Place, Enable,
     ReadRegister, WriteRegister, Peripheral
<1>3. CASE TakeSetup
  <2>1. pending' = pending \/ pending' = FALSE
    BY <1>3 DEF TakeSetup
  <2> QED
    BY <1>1, <1>2, <2>1
<1>4. CASE ~TakeSetup
  <2>1. pending' = pending
    BY <1>4 DEF Poll, PollReset, PollRx, PollTx, Which, TakeOut, Send, Place, Enable,
       ReadRegister, WriteRegister
  <2> QED
    BY <1>1, <1>2, <2>1
<1> QED
  BY <1>3, <1>4

(* A step while a SETUP waits.                                               *)
LEMMA WaitSteps ==
  ASSUME TypeInv, Linked, Attached, pending, Waits, Poll, ~TakeSetup
  PROVE  Waits' /\ pending'
<1>1. /\ todo \in {<<>>, Look, NakTakeIt, TakeIt, AckTx, AckTxStall, StallBoth, StallRx}
      /\ ~resetFlag /\ reg.ctrRx /\ reg.setup /\ UNCHANGED <<host, memory>>
  BY PollKeeps DEF Waits, Linked, Finishing
<1>2. todo = <<>> \/ Head(todo).m \in {"which", "rx", "takeSetup", "ctrTx", "tx"}
  <2>1. CASE todo \in {Look, NakTakeIt, TakeIt}
    BY <2>1, PollHeads DEF Begins
  <2>2. CASE todo \in {AckTx, AckTxStall, StallBoth, StallRx}
    BY <2>2, PollHeads DEF Begins
  <2> QED
    BY <1>1, <2>1, <2>2
<1>3. PollRx \/ Which \/ ReadRegister \/ WriteRegister
  BY <1>1, <1>2 DEF Poll, PollReset, PollTx, TakeOut, TakeSetup, Send, Place, Enable, At
<1>4. CASE PollRx
  <2>1. todo' = Look /\ UNCHANGED <<reg, old, pending>>
    BY <1>4, Joined DEF PollRx, Peripheral
  <2> QED
    BY <1>1, <2>1, Apart DEF Waits, Finishing, Listens
<1>5. CASE Which
  <2>1. todo' = NakTakeIt /\ UNCHANGED <<reg, old, pending>>
    BY <1>1, <1>5, WhichOutcome DEF Which, Peripheral
  <2>2. ~old.valid
    BY <1>5 DEF Which, At, TypeInv, Types, RegisterMacros
  <2> QED
    BY <1>1, <2>1, <2>2, Apart DEF Waits, Finishing, Listens
<1>6. CASE ReadRegister
  <2>1. /\ UNCHANGED <<reg, todo, pending>> /\ old'.rx = reg.rx /\ old'.tx = reg.tx
    BY <1>6 DEF ReadRegister, Peripheral
  <2> QED
    BY <1>1, <2>1, StatFacts DEF Waits, Finishing
<1>7. CASE WriteRegister
  <2>1. /\ todo' = Tail(todo) /\ ~old'.valid /\ reg'.setup = reg.setup /\ UNCHANGED pending
        /\ old.valid /\ todo # <<>>
    BY <1>7, WriteDone DEF TypeInv, Done, Elsewhere
  <2>2. Types /\ reg.rx \in Stats /\ reg.tx \in Stats /\ old.rx \in Stats /\ old.tx \in Stats
    BY DEF TypeInv, Types, Register, Reading
  <2>3. Head(todo).m \in {"rx", "tx", "ctrTx"}
    BY <1>2, <2>1 DEF TypeInv, Types, RegisterMacros
  <2>4. reg'.ctrRx
    BY <1>1, <1>7, <2>2, <2>3, WriteRx, WriteTx, WriteAck
  <2>5. CASE todo = NakTakeIt
    <3>1. todo' = TakeIt /\ reg'.tx = reg.tx /\ reg'.rx = Flip(reg.rx, Flip(old.rx, NAK))
      BY <1>7, <2>1, <2>2, <2>5, WriteRx, PollHeads DEF Begins
    <3>2. reg'.rx = NAK
      BY <2>1, <2>2, <2>5, <3>1, FlipBack, StatFacts DEF Waits
    <3> QED
      BY <1>1, <2>1, <2>4, <3>1, <3>2, Apart, StatFacts DEF Waits, Finishing
  <2>6. CASE todo \in {AckTx, AckTxStall}
    <3>1. todo' \in {<<>>, StallBoth} /\ reg'.rx = reg.rx /\ reg'.tx = reg.tx
      BY <1>7, <2>1, <2>2, <2>6, WriteAck, PollHeads DEF Begins
    <3> QED
      BY <1>1, <2>1, <2>4, <2>6, <3>1, Apart, StatFacts DEF Waits, Finishing
  <2>7. CASE todo = StallBoth
    <3>1. todo' = StallRx /\ reg'.rx = reg.rx /\ reg'.tx = Flip(reg.tx, Flip(old.tx, STALL))
      BY <1>7, <2>1, <2>2, <2>7, WriteTx, PollHeads DEF Begins
    <3>2. reg'.tx \in {NAK, STALL}
      BY <2>1, <2>7, <3>1, FlipStalls DEF Waits
    <3> QED
      BY <1>1, <2>1, <2>4, <2>7, <3>1, <3>2, Apart, StatFacts DEF Waits, Finishing
  <2>8. CASE todo = StallRx
    <3>1. todo' = <<>> /\ reg'.tx = reg.tx /\ reg'.rx = Flip(reg.rx, Flip(old.rx, STALL))
      BY <1>7, <2>1, <2>2, <2>8, WriteRx, PollHeads DEF Begins
    <3>2. reg'.rx # VALID
      BY <2>1, <2>2, <2>8, <3>1, FlipStalls, StatFacts DEF Waits, Finishing
    <3> QED
      BY <1>1, <2>1, <2>4, <2>8, <3>1, <3>2, Apart, StatFacts DEF Waits, Finishing
  <2>9. todo \notin {Look, TakeIt}
    BY <2>3, PollHeads DEF Begins
  <2> QED
    BY <1>1, <2>1, <2>5, <2>6, <2>7, <2>8, <2>9
<1> QED
  BY <1>3, <1>4, <1>5, <1>6, <1>7

(* _usbd_control_setup reads the SETUP that waited, and starts on it.        *)
LEMMA TakeSteps ==
  ASSUME TypeInv, Linked, Attached, pending, Waits, TakeSetup
  PROVE  InOrder' /\ ~pending'
<1>1. todo = TakeIt
  BY SingleHeads DEF TakeSetup, At, TypeInv, Types
<1>2. /\ reg.rx = NAK /\ reg.rx # VALID /\ memory.kind = "setup" /\ reg.tx \in {NAK, STALL}
      /\ memory.req = host.req /\ memory.serial = host.serial /\ reg.ctrRx
  BY <1>1, StatFacts DEF Waits
<1>3. memory.req.n \in Nat /\ memory.req.dir \in {"in", "out"}
  BY AskedTypes DEF TypeInv, Types
<1>4. UNCHANGED <<reg, old, host, outgoing>> /\ ~old.valid
  BY <1>1, PollHeads DEF TakeSetup, Peripheral, TypeInv, Types, RegisterMacros, Begins
<1>5. ~pending' /\ usb_req'.req = host.req /\ usb_req'.serial = host.serial
  <2>1. /\ pending' = FALSE
        /\ usb_req' = [req |-> memory.req, serial |-> memory.serial]
    BY <1>2, <1>3, SetupOutcome
  <2> QED
    BY <1>2, <2>1
<1>6. /\ host.stage \in {"idle", Opening(host.req)} /\ host.ended # "write"
      /\ host.stage # "idle" => host.left = host.req.n
  BY DEF Waits
<1> DEFINE n == host.req.n
<1>7. ASSUME todo' = AckRxStall, usb_fsm_state' = "IDLE" PROVE InOrder'
  <2>1. Shape'
    BY <1>2, <1>4, <1>5, <1>7 DEF Shape, Work, Sending, Receiving, AcksRx
  <2>2. Way'
    BY <1>2, <1>4, <1>7, Apart, StatFacts DEF Way, AcksRx, Ins, Sending
  <2>3. Ear'
    BY <1>2, <1>4, <1>7, Apart, ApartAcks, StatFacts DEF Ear, AcksRx, Ins, Outs, Sending,
       Receiving
  <2>4. Tally'
    BY <1>2, <1>4, <1>6, <1>7, StatFacts DEF Tally, Sending, Receiving
  <2> QED
    BY <2>1, <2>2, <2>3, <2>4 DEF InOrder
<1>8. ASSUME n > 0, host.req.dir = "in", todo' = AckRxSend, left' = n - 1,
             usb_fsm_state' \in Sending
      PROVE InOrder'
  <2>1. Shape'
    BY <1>2, <1>4, <1>5, <1>8 DEF Shape, Work, Sending, Receiving, AcksRx
  <2>2. Way'
    BY <1>2, <1>4, <1>8, Apart, StatFacts DEF Way, AcksRx, Ins, Sending
  <2>3. Ear'
    BY <1>2, <1>4, <1>8, Apart, ApartAcks, StatFacts DEF Ear, AcksRx, Ins, Outs, Sending,
       Receiving
  <2>4. host.stage \in {"idle", "in"}
    BY <1>3, <1>2, <1>6, <1>8 DEF Opening
  <2>5. Coming' = 1
    BY <1>2, <1>4, <1>8, StatFacts DEF Coming, ToSend
  <2>6. Tally'
    BY <1>2, <1>3, <1>4, <1>6, <1>8, <2>4, <2>5, StatFacts DEF Tally, Sending, Receiving
  <2> QED
    BY <2>1, <2>2, <2>3, <2>6 DEF InOrder
<1>9. ASSUME n = 0, todo' \in {AckRxUnhalt, AckRxSend}, usb_fsm_state' = "STATUS_IN"
      PROVE InOrder'
  <2>1. Shape'
    BY <1>2, <1>4, <1>5, <1>9 DEF Shape, Work, Sending, Receiving, AcksRx
  <2>2. Way'
    BY <1>2, <1>4, <1>9, Apart, StatFacts DEF Way, AcksRx, Ins, Sending
  <2>3. Ear'
    BY <1>2, <1>4, <1>9, Apart, ApartAcks, StatFacts DEF Ear, AcksRx, Ins, Outs, Sending,
       Receiving
  <2>4. host.stage \in {"idle", "statusIn"}
    BY <1>3, <1>2, <1>6, <1>9 DEF Opening
  <2>5. Tally'
    BY <1>2, <1>4, <1>6, <1>9, <2>4, StatFacts DEF Tally, Sending, Receiving
  <2> QED
    BY <2>1, <2>2, <2>3, <2>5 DEF InOrder
<1>10. ASSUME n > 0, host.req.dir = "out", todo' = AckRxListen, left' = n,
              usb_fsm_state' \in Receiving, usb_force_nak' = FALSE
       PROVE InOrder'
  <2>1. Shape'
    BY <1>2, <1>4, <1>5, <1>10 DEF Shape, Work, Sending, Receiving, AcksRx
  <2>2. Way'
    BY <1>2, <1>4, <1>10, Apart, StatFacts DEF Way, AcksRx, Ins, Sending, Receiving
  <2>3. Ear'
    BY <1>2, <1>4, <1>10, Apart, ApartAcks, StatFacts DEF Ear, AcksRx, Ins, Outs, Sending,
       Receiving
  <2>4. host.stage \in {"idle", "out"}
    BY <1>3, <1>2, <1>6, <1>10 DEF Opening
  <2>5. ~Unread'
    BY <1>10, Apart DEF Unread, AcksRx
  <2>6. Tally'
    BY <1>2, <1>3, <1>4, <1>6, <1>10, <2>4, <2>5, StatFacts DEF Tally, Sending, Receiving
  <2> QED
    BY <2>1, <2>2, <2>3, <2>6 DEF InOrder
<1>11. n \in Nat /\ memory.req.n = n
  BY <1>2, <1>3
<1> HIDE DEF n
<1>12. \/ todo' = AckRxStall /\ usb_fsm_state' = "IDLE"
       \/ n > 0 /\ host.req.dir = "in" /\ todo' = AckRxSend /\ left' = n - 1
            /\ usb_fsm_state' \in Sending
       \/ n = 0 /\ todo' \in {AckRxUnhalt, AckRxSend} /\ usb_fsm_state' = "STATUS_IN"
       \/ n > 0 /\ host.req.dir = "out" /\ todo' = AckRxListen /\ left' = n
            /\ usb_fsm_state' \in Receiving /\ usb_force_nak' = FALSE
  BY <1>2, <1>3, <1>11, SetupOutcome DEF Sending, Receiving
<1> QED
  BY <1>5, <1>7, <1>8, <1>9, <1>10, <1>12

(* The polls of the program in an open transfer: the reads of USB_ISTR_REG.  *)
LEMMA OpenPolls ==
  ASSUME TypeInv, InOrder, PollRx \/ PollTx
  PROVE  InOrder'
<1>1. /\ todo = <<>> /\ UNCHANGED <<reg, old, host, outgoing, usb_req>> /\ ~old.valid
  BY DEF PollRx, PollTx, Peripheral, TypeInv, Types
<1>2. usb_fsm_state \in FsmStates /\ left \in Nat /\ host.left \in Nat
  BY DEF TypeInv, Types, HostType
<1>3. CASE PollRx
  <2>1. todo' = Look /\ reg.ctrRx /\ UNCHANGED <<usb_fsm_state, usb_force_nak, left>>
    BY <1>3, Joined DEF PollRx
  <2>2. usb_fsm_state \notin Ins /\ reg.tx # VALID
    BY <1>1, <2>1, Apart DEF InOrder, Ear, Way
  <2>3. Shape'
    BY <1>1, <1>2, <2>1, <2>2, Apart DEF InOrder, Shape, Work, Ins, FsmStates, Sending, Receiving
  <2>4. Way'
    BY <1>1, <2>1, <2>2, Apart DEF InOrder, Way, Listens
  <2>5. Ear'
    BY <1>1, <2>1, <2>2, Apart DEF InOrder, Ear, Ins
  <2>6. Tally'
    BY <1>1, <2>1, <2>2, Apart DEF InOrder, Tally, Unread, Coming, ToSend, Ins, AcksRx
  <2> QED
    BY <2>3, <2>4, <2>5, <2>6 DEF InOrder
<1>4. CASE PollTx
  <2>1. ~reg.ctrRx /\ reg.ctrTx
    BY <1>4 DEF PollTx
  <2>2. CASE usb_fsm_state = "DATA_IN"
    <3>1. todo' = AckTxSend /\ left' = left - 1 /\ usb_fsm_state' \in Sending
          /\ usb_force_nak' = usb_force_nak
      BY <1>4, <2>2, TxOutcome DEF Ins, Sending
    <3>2. Shape'
      BY <1>1, <2>1, <3>1, Apart DEF InOrder, Shape, Work, Sending, Receiving
    <3>3. Way'
      BY <1>1, <2>1, <2>2, <3>1, Apart DEF InOrder, Way, Listens, Sending, Receiving
    <3>4. Ear'
      BY <1>1, <2>1, <2>2, <3>1, Apart DEF InOrder, Ear, Ins, Outs, Sending, Receiving
    <3>5. Coming' = Coming + 1 /\ Coming \in Nat
      BY <1>1, <3>1, Apart DEF Coming, ToSend, AcksRx
    <3>6. Tally'
      BY <1>1, <1>2, <2>1, <2>2, <3>1, <3>5, Apart DEF InOrder, Tally, Sending, Receiving
    <3> QED
      BY <3>2, <3>3, <3>4, <3>6 DEF InOrder
  <2>3. CASE usb_fsm_state = "LAST_DATA_IN"
    <3>1. todo' = AckTxListen /\ left' = left /\ usb_fsm_state' = "STATUS_OUT"
          /\ usb_force_nak' = FALSE
      BY <1>4, <2>3, TxOutcome DEF Ins, Sending
    <3>2. Shape'
      BY <1>1, <2>1, <3>1, Apart DEF InOrder, Shape, Work, Sending, Receiving, Listens
    <3>3. Way'
      BY <1>1, <2>1, <2>3, <3>1, Apart, ApartListens DEF InOrder, Way, Listens, Sending,
         Receiving, Ins
    <3>4. Ear'
      BY <1>1, <2>1, <2>3, <3>1, Apart, ApartListens DEF InOrder, Ear, Ins, Outs, Sending,
         Receiving, Listens
    <3>5. Coming' = Coming /\ left = 0
      BY <1>1, <2>3, <3>1, Apart, ApartAcks DEF Coming, ToSend, AcksRx, Listens, TypeInv, Counts
    <3>6. Coming \in Nat
      BY DEF Coming
    <3>7. Tally'
      BY <1>1, <1>2, <2>1, <2>3, <3>1, <3>5, <3>6, Apart DEF InOrder, Tally, Sending, Receiving
    <3> QED
      BY <3>2, <3>3, <3>4, <3>7 DEF InOrder
  <2>4. CASE usb_fsm_state = "STATUS_IN"
    <3>1. todo' = AckTx /\ left' = left /\ usb_fsm_state' = "IDLE"
          /\ usb_force_nak' = usb_force_nak
      BY <1>4, <2>4, TxOutcome DEF Ins, Sending
    <3>2. Shape'
      BY <1>1, <2>1, <3>1, Apart DEF InOrder, Shape, Work, Sending, Receiving, Listens
    <3>3. Way'
      BY <1>1, <2>1, <2>4, <3>1, Apart DEF InOrder, Way, Listens, Sending, Receiving, Ins
    <3>4. Ear'
      BY <1>1, <2>1, <2>4, <3>1, Apart DEF InOrder, Ear, Ins, Outs, Sending, Receiving, Listens
    <3>5. Tally'
      BY <1>1, <2>1, <2>4, <3>1, Apart DEF InOrder, Tally, Sending, Receiving, Finishing
    <3> QED
      BY <3>2, <3>3, <3>4, <3>5 DEF InOrder
  <2>5. CASE usb_fsm_state \notin Ins
    <3>1. todo' = AckTxStall /\ left' = left /\ usb_fsm_state' = "IDLE"
          /\ usb_force_nak' = usb_force_nak
      BY <1>4, <2>5, TxOutcome DEF Ins, Sending
    <3>2. reg.tx # VALID
      BY <1>1, <1>2, <2>1, <2>5 DEF InOrder, Way, FsmStates, Ins, Sending, Receiving
    <3>3. Shape'
      BY <1>1, <2>1, <3>1, Apart DEF InOrder, Shape, Work, Sending, Receiving, Listens
    <3>4. Way'
      BY <1>1, <2>1, <3>1, <3>2, Apart DEF InOrder, Way, Listens, Sending, Receiving, Ins
    <3>5. Ear'
      BY <1>1, <2>1, <3>1, Apart DEF InOrder, Ear, Ins, Outs, Sending, Receiving, Listens
    <3>6. Tally'
      BY <1>1, <2>1, <3>1, <3>2, Apart DEF InOrder, Tally, Sending, Receiving, Finishing
    <3> QED
      BY <3>3, <3>4, <3>5, <3>6 DEF InOrder
  <2> QED
    BY <2>2, <2>3, <2>4, <2>5 DEF Ins, Sending
<1> QED
  BY <1>3, <1>4

(* The handlers of a received packet.                                        *)
LEMMA OpenHandlers ==
  ASSUME TypeInv, InOrder, Which \/ TakeOut
  PROVE  InOrder'
<1>1. /\ UNCHANGED <<reg, old, host, outgoing, usb_req>> /\ ~old.valid
  BY DEF Which, TakeOut, At, Peripheral, TypeInv, Types, RegisterMacros
<1>2. usb_fsm_state \in FsmStates /\ left \in Nat /\ host.left \in Nat
  BY DEF TypeInv, Types, HostType
<1>3. CASE Which
  <2>1. todo = Look
    BY <1>3, SingleHeads DEF Which, At, TypeInv, Types
  <2>2. reg.ctrRx /\ ~reg.setup /\ reg.tx # VALID /\ usb_fsm_state \notin Ins
    BY <2>1, Apart DEF InOrder, Shape, Way, Ear
  <2>3. CASE usb_fsm_state \in Outs
    <3>1. todo' = TakePacket /\ UNCHANGED <<usb_fsm_state, usb_force_nak, left>>
      BY <1>3, <2>2, <2>3, WhichOutcome DEF Which
    <3>2. Shape'
      BY <1>1, <2>1, <2>2, <2>3, <3>1, Apart DEF InOrder, Shape, Work, Outs, Receiving, Sending
    <3>3. Way'
      BY <1>1, <2>1, <2>2, <3>1, Apart DEF InOrder, Way
    <3>4. Ear'
      BY <1>1, <2>1, <2>2, <2>3, <3>1, Apart DEF InOrder, Ear, Ins, Outs, Receiving, Sending,
         Listens
    <3>5. Tally'
      BY <1>1, <2>1, <2>2, <3>1, Apart DEF InOrder, Tally, Unread, Coming, ToSend, Ins, AcksRx
    <3> QED
      BY <3>2, <3>3, <3>4, <3>5 DEF InOrder
  <2>4. CASE usb_fsm_state \notin Outs
    <3>1. todo' = StallBoth /\ usb_fsm_state' = "IDLE"
          /\ UNCHANGED <<usb_force_nak, left>>
      BY <1>3, <2>2, <2>4, WhichOutcome DEF Which
    <3>2. Shape'
      BY <1>1, <2>2, <3>1, Apart DEF InOrder, Shape, Work, Receiving, Sending
    <3>3. Way'
      BY <1>1, <2>2, <3>1, Apart DEF InOrder, Way, Ins, Sending
    <3>4. Ear'
      BY <1>1, <2>2, <3>1, Apart DEF InOrder, Ear, Ins, Outs, Receiving, Sending
    <3>5. Tally'
      BY <1>1, <2>2, <3>1, Apart DEF InOrder, Tally, Sending, Receiving
    <3> QED
      BY <3>2, <3>3, <3>4, <3>5 DEF InOrder
  <2> QED
    BY <2>3, <2>4
<1>4. CASE TakeOut
  <2>1. todo = TakePacket /\ usb_fsm_state \in Outs
    BY <1>4, SingleHeads DEF TakeOut, At, TypeInv, Types
  <2>2. reg.rx = NAK /\ reg.rx # VALID /\ reg.ctrRx /\ ~usb_force_nak /\ reg.tx # VALID
    BY <2>1, StatFacts DEF InOrder, Ear, Way
  <2>3. host.ended # "write" /\ usb_force_nak' = usb_force_nak
    BY <1>4, <2>2 DEF InOrder, Tally, TakeOut
  <2>4. todo' \in {AckRxListen, AckRxListenStall, AckRxListenSend}
    BY <1>4, <2>1, <2>2, OutOutcome DEF TypeInv, Types
  <2>5. todo' \in AcksRx /\ todo' \notin Listens
    BY <2>4, ApartAcks DEF AcksRx
  <2>6. /\ todo' \notin {<<>>, Look, TakePacket, SendNow, Arm, AckTxSend, AckRxSend, StallBoth,
                         StallRx, Unhalt}
    BY <2>4, <2>5, Apart, ApartAcks DEF AcksRx, Listens
  <2>7. Way'
    BY <1>1, <2>2, <2>6 DEF InOrder, Way
  <2>8. \/ usb_fsm_state' = "IDLE" /\ todo' \in {AckRxListen, AckRxListenStall}
        \/ /\ usb_fsm_state \in Receiving /\ usb_fsm_state' \in Receiving /\ left' = left - 1
           /\ todo' = AckRxListen
        \/ /\ usb_fsm_state = "LAST_DATA_OUT" /\ usb_fsm_state' = "STATUS_IN"
           /\ todo' = AckRxListenSend
    BY <1>4, <2>1, <2>2, OutOutcome DEF TypeInv, Types, Receiving
  <2>9. Shape'
    BY <1>1, <2>5, <2>6, <2>8 DEF InOrder, Shape, Work, Sending, Receiving
  <2>10. Ear'
    BY <1>1, <2>2, <2>3, <2>5, <2>6, <2>8, StatFacts DEF InOrder, Ear, Ins, Outs, Sending,
       Receiving
  <2>11. Unread /\ ~Unread' /\ ~ToSend'
    BY <2>1, <2>2, <2>6 DEF Unread, ToSend
  <2>12. Tally'
    <3>1. CASE usb_fsm_state' = "IDLE"
      BY <1>1, <2>2, <2>3, <3>1 DEF InOrder, Tally, Sending, Receiving
    <3>2. CASE usb_fsm_state \in Receiving /\ usb_fsm_state' \in Receiving /\ left' = left - 1
      BY <1>1, <1>2, <2>2, <2>3, <2>11, <3>2 DEF InOrder, Tally, Sending, Receiving
    <3>3. CASE usb_fsm_state = "LAST_DATA_OUT" /\ usb_fsm_state' = "STATUS_IN"
      <4>1. host.stage \in {"statusIn", "idle"}
        BY <1>2, <2>11, <3>3 DEF InOrder, Tally, Receiving, TypeInv, Counts
      <4> QED
        BY <1>1, <2>2, <2>3, <3>3, <4>1 DEF Tally, Sending, Receiving
    <3> QED
      BY <2>8, <3>1, <3>2, <3>3
  <2> QED
    BY <2>7, <2>9, <2>10, <2>12 DEF InOrder
<1> QED
  BY <1>3, <1>4

(* A packet is put into the transmit buffer, and a macro reads the register. *)
LEMMA OpenSendRead ==
  ASSUME TypeInv, InOrder, Send \/ ReadRegister
  PROVE  InOrder'
<1>1. /\ UNCHANGED <<reg, host, usb_req, usb_fsm_state, usb_force_nak, left>>
  BY DEF Send, ReadRegister, Peripheral
<1>2. CASE Send
  <2>1. todo = SendNow /\ ~old.valid /\ UNCHANGED old
    BY <1>2, SingleHeads DEF Send, At, TypeInv, Types, RegisterMacros
  <2>2. usb_fsm_state \in Ins /\ ~reg.ctrRx /\ host.ended # "write"
    <3>1. usb_fsm_state \in Ins
      BY <2>1, Apart DEF InOrder, Shape, Work, Ins, TypeInv, Types, FsmStates, Sending, Receiving,
         AcksRx, Listens
    <3> QED
      BY <2>1, <3>1, Apart DEF InOrder, Ear, Tally, Finishing
  <2>3. CASE reg.tx = VALID
    <3>1. todo' = <<>> /\ UNCHANGED outgoing
      BY <1>2, <2>1, <2>3, PollHeads DEF Send, Rest, Begins
    <3>2. usb_fsm_state \in Sending
      BY <2>1, <2>3 DEF InOrder, Way
    <3>3. Shape'
      BY <1>1, <2>2, <3>1, <3>2, Apart DEF InOrder, Shape, Work, Sending, Receiving
    <3>4. Way'
      BY <1>1, <2>1, <2>2, <2>3, <3>1, <3>2, Apart, StatFacts DEF InOrder, Way, Sending,
         Receiving, Listens
    <3>5. Ear'
      BY <1>1, <2>1, <2>2, <3>1, <3>2, Apart DEF InOrder, Ear, Ins, Outs, Sending, Receiving,
         Listens
    <3>6. Coming >= Coming' /\ Coming \in Nat /\ Coming' \in Nat
      BY <1>1, <2>1, <3>1, Apart DEF Coming, ToSend, AcksRx
    <3>7. Tally'
      <4>1. host.left \in Nat /\ left \in Nat
        BY DEF TypeInv, Types, HostType
      <4> QED
        BY <1>1, <2>2, <3>2, <3>6, <4>1 DEF InOrder, Tally, Sending, Receiving
    <3> QED
      BY <3>3, <3>4, <3>5, <3>7 DEF InOrder
  <2>4. CASE reg.tx # VALID
    <3>1. todo' = Arm /\ outgoing' = usb_req.serial
      BY <1>2, <2>1, <2>4, PollHeads, JoinedRx DEF Send, Rest, Begins
    <3>2. Shape'
      BY <1>1, <2>2, <3>1, Apart DEF InOrder, Shape, Work, Ins, Sending, Receiving
    <3>3. Way'
      BY <1>1, <2>1, <2>4, <3>1, Apart DEF InOrder, Way, Shape
    <3>4. Ear'
      BY <1>1, <2>1, <2>2, <3>1, Apart DEF InOrder, Ear, Ins, Outs, Sending, Receiving, Listens
    <3>5. Coming' = Coming
      BY <1>1, <2>1, <3>1 DEF Coming, ToSend
    <3>6. Tally'
      BY <1>1, <2>2, <2>4, <3>5 DEF InOrder, Tally, Ins, Sending, Receiving
    <3> QED
      BY <3>2, <3>3, <3>4, <3>6 DEF InOrder
  <2> QED
    BY <2>3, <2>4
<1>3. CASE ReadRegister
  <2>1. /\ UNCHANGED <<todo, outgoing>> /\ old'.rx = reg.rx /\ old'.tx = reg.tx
    BY <1>3 DEF ReadRegister
  <2>2. Shape' /\ Tally'
    BY <1>1, <2>1 DEF InOrder, Shape, Work, Tally, Coming, ToSend, Unread
  <2>3. Way'
    BY <1>1, <2>1 DEF InOrder, Way
  <2>4. Ear'
    BY <1>1, <2>1 DEF InOrder, Ear, Listens
  <2> QED
    BY <2>2, <2>3, <2>4 DEF InOrder
<1> QED
  BY <1>2, <1>3

(* A macro that stalls writes the register.                                  *)
LEMMA OpenWriteStall ==
  ASSUME TypeInv, InOrder, WriteRegister, todo \in {StallRx, StallBoth}
  PROVE  InOrder'
<1>1. /\ UNCHANGED <<host, usb_req, usb_fsm_state, usb_force_nak, left, outgoing>>
      /\ todo' = Tail(todo) /\ ~old'.valid /\ old.valid /\ reg'.setup = reg.setup /\ Types
  BY WriteDone DEF TypeInv, Done, Elsewhere
<1>2. usb_fsm_state = "IDLE" /\ reg.tx # VALID
  BY Apart DEF InOrder, Shape, Work, Way, TypeInv, Types, FsmStates, Sending, Receiving, AcksRx,
     Listens
<1>3. reg.rx \in Stats /\ reg.tx \in Stats /\ old.rx \in Stats /\ old.tx \in Stats
  BY <1>1 DEF Types, Register, Reading
<1>4. STALL \in Stats
  BY StatFacts
<1>5. ASSUME todo' \in {<<>>, StallRx}, reg'.ctrRx <=> reg.ctrRx, reg'.tx \in {STALL, reg.tx},
             reg'.rx = DISABLED => reg'.ctrRx
      PROVE InOrder'
  <2>1. reg'.tx # VALID /\ reg'.tx # DISABLED
    BY <1>2, <1>5, StatFacts DEF InOrder, Way
  <2>2. Shape'
    BY <1>1, <1>2, <1>5, Apart DEF InOrder, Shape, Work, Sending, Receiving, AcksRx, Listens
  <2>3. Way'
    BY <1>1, <1>2, <1>5, <2>1, Apart DEF InOrder, Way, Ins, Sending, Listens
  <2>4. Ear'
    BY <1>1, <1>2, <1>5, Apart DEF InOrder, Ear, Ins, Outs, Sending, Receiving
  <2>5. Tally'
    BY <1>1, <1>2, <1>5, <2>1 DEF InOrder, Tally, Sending, Receiving, Finishing
  <2> QED
    BY <2>2, <2>3, <2>4, <2>5 DEF InOrder
<1>6. CASE todo = StallRx
  <2>1. todo' = <<>> /\ Head(todo).m = "rx" /\ Head(todo).s = STALL
    BY <1>1, <1>6, PollHeads DEF Begins
  <2>2. /\ reg'.ctrRx <=> reg.ctrRx
        /\ reg'.tx = reg.tx /\ reg'.rx = Flip(reg.rx, Flip(old.rx, STALL))
    BY <1>1, <2>1, WriteRx
  <2>3. old.rx = reg.rx \/ (old.rx = VALID /\ reg.rx = NAK /\ reg.ctrRx)
    BY <1>1, <1>6 DEF InOrder, Ear
  <2>4. reg'.rx = STALL \/ (reg'.rx = DISABLED /\ reg.ctrRx)
    BY <1>3, <1>4, <2>2, <2>3, FlipBack, FlipStalls
  <2> QED
    BY <1>5, <2>1, <2>2, <2>4, StatFacts
<1>7. CASE todo = StallBoth
  <2>1. todo' = StallRx /\ Head(todo).m = "tx" /\ Head(todo).s = STALL
    BY <1>1, <1>7, PollHeads DEF Begins
  <2>2. /\ reg'.ctrRx <=> reg.ctrRx
        /\ reg'.rx = reg.rx /\ reg'.tx = Flip(reg.tx, Flip(old.tx, STALL))
    BY <1>1, <2>1, WriteTx
  <2>3. old.tx = reg.tx
    BY <1>1, <1>7 DEF InOrder, Way
  <2>4. reg'.tx = STALL
    BY <1>3, <1>4, <2>2, <2>3, FlipBack
  <2> QED
    BY <1>5, <2>1, <2>2, <2>4 DEF InOrder, Ear
<1> QED
  BY <1>6, <1>7

(* CTR_TX is cleared.                                                        *)
LEMMA OpenWriteAckTx ==
  ASSUME TypeInv, InOrder, WriteRegister, todo \in {AckTx, AckTxStall, AckTxListen, AckTxSend}
  PROVE  InOrder'
<1>1. /\ UNCHANGED <<host, usb_req, usb_fsm_state, usb_force_nak, left, outgoing>>
      /\ todo' = Tail(todo) /\ ~old'.valid /\ old.valid /\ reg'.setup = reg.setup /\ Types
  BY WriteDone DEF TypeInv, Done, Elsewhere
<1>2. Head(todo).m = "ctrTx"
  BY PollHeads DEF Begins
<1>3. (reg'.ctrRx <=> reg.ctrRx) /\ ~reg'.ctrTx /\ reg'.rx = reg.rx /\ reg'.tx = reg.tx
  BY <1>1, <1>2, WriteAck
<1>4. usb_fsm_state \in FsmStates
  BY DEF TypeInv, Types
<1>5. CASE todo \in {AckTx, AckTxStall}
  <2>1. /\ todo' \in {<<>>, StallBoth} /\ usb_fsm_state = "IDLE"
        /\ reg.tx = VALID => todo' = <<>>
    <3>1. IF todo = AckTx THEN todo' = <<>> ELSE todo = AckTxStall /\ todo' = StallBoth
      <4>1. Tail(AckTx) = <<>> /\ Tail(AckTxStall) = StallBoth
        BY PollHeads DEF Begins
      <4> QED
        BY <1>1, <1>5, <4>1
    <3>2. usb_fsm_state = "IDLE"
      BY <1>4, <1>5, Apart DEF InOrder, Shape, Work, FsmStates, Sending, Receiving, AcksRx, Listens
    <3>3. reg.tx = VALID => todo # AckTxStall
      BY Apart DEF InOrder, Way, Listens
    <3> QED
      BY <3>1, <3>2, <3>3
  <2>2. Shape'
    BY <1>1, <1>3, <1>5, <2>1, Apart DEF InOrder, Shape, Work, Sending, Receiving, AcksRx, Listens
  <2>3. Way'
    BY <1>1, <1>3, <1>5, <2>1, Apart DEF InOrder, Way, Ins, Sending, Listens, Receiving
  <2>4. Ear'
    BY <1>1, <1>3, <1>5, <2>1, Apart DEF InOrder, Ear, Ins, Outs, Sending, Receiving
  <2>5. Tally'
    BY <1>1, <1>3, <1>5, <2>1 DEF InOrder, Tally, Sending, Receiving, Finishing
  <2> QED
    BY <2>2, <2>3, <2>4, <2>5 DEF InOrder
<1>6. CASE todo = AckTxListen
  <2>1. todo' = Listen /\ usb_fsm_state = "STATUS_OUT"
    <3>1. todo' = Listen
      BY <1>1, <1>6, PollHeads DEF Begins
    <3>2. usb_fsm_state = "STATUS_OUT"
      BY <1>4, <1>6, Apart, ApartAcks, ApartListens DEF InOrder, Shape, Work, FsmStates, Sending,
         Receiving, AcksRx, Listens
    <3> QED
      BY <3>1, <3>2
  <2>2. todo \in Listens /\ todo' \in Listens
    BY <1>6, <2>1 DEF Listens
  <2>3. Shape'
    BY <1>1, <1>3, <2>1, <2>2, Apart, ApartAcks DEF InOrder, Shape, Work, Sending, Receiving
  <2>4. Way'
    BY <1>1, <1>3, <1>6, <2>1, <2>2, Apart, ApartListens DEF InOrder, Way, Ins, Sending, Receiving
  <2>5. Ear'
    BY <1>1, <1>3, <2>1, <2>2, Apart, ApartAcks DEF InOrder, Ear, Ins, Outs, Sending, Receiving
  <2>6. ~ToSend /\ ~ToSend' /\ Coming' = Coming
    BY <1>3, <2>2, Apart, ApartAcks DEF ToSend, Coming, AcksRx
  <2>7. Tally'
    BY <1>1, <1>3, <1>6, <2>1, <2>6 DEF InOrder, Tally, Sending, Receiving, Finishing
  <2> QED
    BY <2>3, <2>4, <2>5, <2>7 DEF InOrder
<1>7. CASE todo = AckTxSend
  <2>1. todo' = SendNow /\ usb_fsm_state \in Sending
    <3>1. todo' = SendNow
      BY <1>1, <1>7, PollHeads DEF Begins
    <3>2. usb_fsm_state \in Sending
      BY <1>4, <1>7, Apart DEF InOrder, Shape, Work, FsmStates, Sending,
         Receiving, AcksRx, Listens
    <3> QED
      BY <3>1, <3>2
  <2>2. Shape'
    BY <1>1, <1>3, <1>7, <2>1, Apart DEF InOrder, Shape, Work, Sending, Receiving
  <2>3. Way'
    BY <1>1, <1>3, <1>7, <2>1, Apart DEF InOrder, Way, Ins, Sending, Receiving, Listens
  <2>4. Ear'
    BY <1>1, <1>3, <1>7, <2>1, Apart DEF InOrder, Ear, Ins, Outs, Sending, Receiving
  <2>5. Coming' = Coming
    BY <1>3, <1>7, <2>1 DEF ToSend, Coming
  <2>6. Tally'
    BY <1>1, <1>3, <1>7, <2>1, <2>5, Apart DEF InOrder, Tally, Sending, Receiving, Finishing
  <2> QED
    BY <2>2, <2>3, <2>4, <2>6 DEF InOrder
<1> QED
  BY <1>5, <1>6, <1>7

(* CTR_RX is cleared: from now on the host may send the next packet.         *)
LEMMA OpenWriteAckRx ==
  ASSUME TypeInv, InOrder, WriteRegister, todo \in AcksRx
  PROVE  InOrder'
<1>1. /\ UNCHANGED <<host, usb_req, usb_fsm_state, usb_force_nak, left, outgoing>>
      /\ todo' = Tail(todo) /\ ~old'.valid /\ old.valid /\ reg'.setup = reg.setup /\ Types
  BY WriteDone DEF TypeInv, Done, Elsewhere
<1>2. Head(todo).m = "ctrRx"
  BY AckHeads DEF Begins, AcksRx
<1>3. ~reg'.ctrRx /\ (reg'.ctrTx <=> reg.ctrTx) /\ reg'.rx = reg.rx /\ reg'.tx = reg.tx
  BY <1>1, <1>2, WriteAck
<1>4. usb_fsm_state \in FsmStates
  BY DEF TypeInv, Types
<1>5. reg.rx = NAK /\ reg.rx # VALID /\ reg.rx # DISABLED /\ reg.tx # VALID
  <2>1. todo \notin {<<>>, AckTx, AckTxListen, Listen, AckTxSend, SendNow}
    BY Apart, ApartAcks DEF Listens
  <2> QED
    BY <2>1, StatFacts DEF InOrder, Ear, Way
<1>6. host.ended # "write" /\ ~Unread /\ ~Unread'
  <2>1. todo \notin {<<>>, Look, TakePacket} \cup Finishing
    BY Apart DEF Finishing
  <2> QED
    BY <1>3, <2>1 DEF InOrder, Tally, Unread
<1>7. ASSUME todo' \notin {<<>>, Look, TakePacket, Arm} \cup AcksRx, Work', ToSend' => ToSend
      PROVE InOrder'
  <2>1. Shape'
    BY <1>1, <1>3, <1>7 DEF InOrder, Shape
  <2>2. Way'
    BY <1>1, <1>3, <1>5, <1>7 DEF InOrder, Way
  <2>3. Ear'
    BY <1>1, <1>3, <1>5, <1>7 DEF InOrder, Ear, Outs, Receiving
  <2>4. Coming >= Coming' /\ Coming \in Nat /\ Coming' \in Nat
    BY <1>3, <1>7 DEF Coming
  <2>5. Tally'
    <3>1. host.left \in Nat /\ left \in Nat
      BY DEF TypeInv, Types, HostType
    <3> QED
      BY <1>1, <1>3, <1>5, <1>6, <2>4, <3>1 DEF InOrder, Tally
  <2> QED
    BY <2>1, <2>2, <2>3, <2>5 DEF InOrder
<1>8. CASE todo = AckRxSend
  <2>1. todo' = SendNow /\ usb_fsm_state \in Ins /\ ToSend
    <3>1. todo' = SendNow
      BY <1>1, <1>8, AckHeads DEF Begins
    <3>2. usb_fsm_state \in Ins
      BY <1>4, <1>8, Apart, ApartAcks DEF InOrder, Shape, Work, FsmStates, Sending, Receiving,
         AcksRx, Listens, Ins
    <3> QED
      BY <1>8, <3>1, <3>2 DEF ToSend
  <2>2. Work'
    BY <1>1, <2>1 DEF Work, Ins, Sending, Receiving
  <2> QED
    BY <1>7, <2>1, <2>2, Apart
<1>9. CASE todo \in {AckRxStall, AckRxListenStall}
  <2>1. todo' \in {StallBoth, ListenStall} /\ usb_fsm_state = "IDLE"
    <3>1. todo' \in {StallBoth, ListenStall}
      BY <1>1, <1>9, AckHeads DEF Begins
    <3>2. usb_fsm_state = "IDLE"
      BY <1>4, <1>9, Apart, ApartAcks DEF InOrder, Shape, Work, FsmStates, Sending, Receiving,
         AcksRx, Listens
    <3> QED
      BY <3>1, <3>2
  <2>2. Work'
    BY <1>1, <2>1 DEF Work, Sending, Receiving
  <2>3. todo' \notin {<<>>, Look, TakePacket, Arm, SendNow, AckTxSend} \cup AcksRx
    BY <2>1, Apart, ApartAcks DEF Listens
  <2> QED
    BY <1>7, <2>2, <2>3 DEF ToSend, AcksRx
<1>10. CASE todo = AckRxListen
  <2>1. todo' = Listen /\ usb_fsm_state \in {"IDLE"} \cup Receiving
    <3>1. todo' = Listen
      BY <1>1, <1>10, AckHeads DEF Begins
    <3>2. usb_fsm_state \in {"IDLE"} \cup Receiving
      BY <1>4, <1>10, Apart, ApartAcks DEF InOrder, Shape, Work, FsmStates, Sending, Receiving,
         AcksRx, Listens
    <3> QED
      BY <3>1, <3>2
  <2>2. Work'
    BY <1>1, <2>1 DEF Work, Sending, Receiving
  <2>3. todo' \notin {<<>>, Look, TakePacket, Arm, SendNow, AckTxSend} \cup AcksRx
    BY <2>1, Apart, ApartAcks DEF Listens
  <2> QED
    BY <1>7, <2>2, <2>3 DEF ToSend, AcksRx
<1>11. CASE todo \in {AckRxListenSend, AckRxUnhalt}
  <2>1. todo' \in {ListenSend, Unhalt} /\ usb_fsm_state = "STATUS_IN"
    <3>1. todo' \in {ListenSend, Unhalt}
      BY <1>1, <1>11, AckHeads DEF Begins
    <3>2. usb_fsm_state = "STATUS_IN"
      BY <1>4, <1>11, Apart, ApartAcks DEF InOrder, Shape, Work, FsmStates, Sending, Receiving,
         AcksRx, Listens
    <3> QED
      BY <3>1, <3>2
  <2>2. Work'
    BY <1>1, <2>1 DEF Work, Sending, Receiving
  <2>3. todo' \notin {<<>>, Look, TakePacket, Arm, SendNow, AckTxSend} \cup AcksRx
    BY <2>1, Apart, ApartAcks DEF Listens
  <2> QED
    BY <1>7, <2>2, <2>3 DEF ToSend, AcksRx
<1>12. todo # AckRx
  BY <1>4, Apart, ApartAcks DEF InOrder, Shape, Work, FsmStates, Sending, Receiving, AcksRx,
     Listens
<1> QED
  BY <1>8, <1>9, <1>10, <1>11, <1>12 DEF AcksRx

(* The packet in the transmit buffer is offered to the host.                 *)
LEMMA OpenWriteArm ==
  ASSUME TypeInv, InOrder, WriteRegister, todo = Arm
  PROVE  InOrder'
<1>1. /\ UNCHANGED <<host, usb_req, usb_fsm_state, usb_force_nak, left, outgoing>>
      /\ todo' = Tail(todo) /\ ~old'.valid /\ old.valid /\ reg'.setup = reg.setup /\ Types
  BY WriteDone DEF TypeInv, Done, Elsewhere
<1>2. todo' = <<>> /\ Head(todo).m = "tx" /\ Head(todo).s = VALID
  BY <1>1, PollHeads DEF Begins
<1>3. /\ reg'.ctrRx <=> reg.ctrRx
      /\ reg'.ctrTx <=> reg.ctrTx
      /\ reg'.rx = reg.rx /\ reg'.tx = Flip(reg.tx, Flip(old.tx, VALID))
  BY <1>1, <1>2, WriteTx
<1>4. reg'.tx = VALID
  <2>1. old.tx = reg.tx /\ reg.tx \in Stats
    BY <1>1 DEF InOrder, Way, Types, Register
  <2> QED
    BY <1>3, <2>1, FlipBack, StatFacts
<1>5. usb_fsm_state \in Ins /\ ~reg.ctrRx /\ host.ended # "write" /\ reg.tx # VALID
      /\ outgoing = host.serial
  <2>1. usb_fsm_state \in Ins
    BY Apart DEF InOrder, Shape, Work, Ins, TypeInv, Types, FsmStates, Sending, Receiving, AcksRx,
       Listens
  <2> QED
    BY <2>1, Apart DEF InOrder, Ear, Way, Tally, Finishing, Listens
<1>6. usb_fsm_state \notin Receiving \cup {"IDLE", "STATUS_OUT"}
  BY <1>5 DEF Ins, Sending, Receiving
<1>7. Shape'
  BY <1>1, <1>2, <1>3, <1>5, Apart DEF InOrder, Shape, Work, Ins, Sending, Receiving
<1>8. Way'
  BY <1>1, <1>2, <1>3, <1>4, <1>5, <1>6, Apart, StatFacts DEF Way, Listens
<1>9. Ear'
  BY <1>1, <1>2, <1>3, <1>5, <1>6, Apart DEF InOrder, Ear, Outs, Ins
<1>10. Coming' = Coming
  BY <1>2, <1>4, <1>5, Apart DEF Coming, ToSend, AcksRx
<1>11. Tally'
  BY <1>1, <1>5, <1>6, <1>10 DEF InOrder, Tally
<1> QED
  BY <1>7, <1>8, <1>9, <1>11 DEF InOrder

(* The device listens: a packet may come from here on.                       *)
LEMMA OpenWriteListen ==
  ASSUME TypeInv, InOrder, WriteRegister, todo \in {Listen, ListenSend, ListenStall}
  PROVE  InOrder'
<1>1. /\ UNCHANGED <<host, usb_req, usb_fsm_state, usb_force_nak, left, outgoing>>
      /\ todo' = Tail(todo) /\ ~old'.valid /\ old.valid /\ reg'.setup = reg.setup /\ Types
  BY WriteDone DEF TypeInv, Done, Elsewhere
<1>2. Head(todo).m = "rx" /\ Head(todo).s = VALID
  BY <1>1, PollHeads DEF Begins
<1>3. /\ reg'.ctrRx <=> reg.ctrRx
      /\ reg'.ctrTx <=> reg.ctrTx
      /\ reg'.tx = reg.tx /\ reg'.rx = Flip(reg.rx, Flip(old.rx, VALID))
  BY <1>1, <1>2, WriteRx
<1>4. todo \in Listens
  BY DEF Listens
<1>5. ~reg.ctrRx /\ reg'.rx = VALID /\ reg'.rx # DISABLED
  <2>1. old.rx = NAK /\ reg.rx = NAK /\ ~reg.ctrRx
    BY <1>1, <1>4 DEF InOrder, Ear
  <2> QED
    BY <1>3, <2>1, FlipBack, StatFacts
<1>6. host.ended # "write" /\ usb_fsm_state \in FsmStates
  <2>1. todo \notin {<<>>} \cup Finishing
    BY <1>4, Apart DEF Finishing
  <2> QED
    BY <2>1 DEF InOrder, Tally, TypeInv, Types
<1>7. ~Unread /\ ~Unread' /\ ~reg'.ctrRx
  BY <1>3, <1>5 DEF Unread
<1>8. todo \notin AcksRx \cup {AckRxSend, SendNow, Arm, AckTxSend}
  BY <1>4, Apart, ApartAcks DEF AcksRx
<1>9. CASE todo = Listen
  <2>1. todo' = <<>>
    BY <1>1, <1>9, PollHeads DEF Begins
  <2>2. usb_fsm_state \in {"IDLE", "STATUS_OUT"} \cup Receiving
    BY <1>6, <1>8, <1>9, Apart, ApartListens DEF InOrder, Shape, Work, FsmStates, Sending,
       Receiving, AcksRx, Listens
  <2>3. usb_fsm_state \notin Ins
    BY <2>2 DEF Ins, Sending, Receiving
  <2>4. Shape'
    BY <1>1, <1>7, <2>1, <2>2, Apart DEF InOrder, Shape, Work, Sending, Receiving
  <2>5. Way'
    BY <1>1, <1>3, <1>7, <1>9, <2>1, <2>2, <2>3, Apart DEF InOrder, Way, Listens
  <2>6. Ear'
    BY <1>1, <1>5, <1>7, <1>9, <2>1, <2>3, Apart DEF InOrder, Ear, Ins, AcksRx, Outs, Receiving
  <2>7. Coming' = Coming
    BY <1>3, <1>8, <2>1, Apart DEF Coming, ToSend, AcksRx
  <2>8. Tally'
    BY <1>1, <1>3, <1>6, <1>7, <2>7 DEF InOrder, Tally
  <2> QED
    BY <2>4, <2>5, <2>6, <2>8 DEF InOrder
<1>10. CASE todo = ListenSend
  <2>1. todo' = SendNow /\ usb_fsm_state = "STATUS_IN"
    <3>1. todo' = SendNow
      BY <1>1, <1>10, PollHeads DEF Begins
    <3>2. usb_fsm_state = "STATUS_IN"
      BY <1>4, <1>6, <1>8, <1>10, Apart, ApartListens DEF InOrder, Shape, Work, FsmStates, Sending,
         Receiving, AcksRx, Listens
    <3> QED
      BY <3>1, <3>2
  <2>2. reg.tx # VALID
    BY <1>4, <1>10, Apart, ApartListens DEF InOrder, Way, Listens
  <2>3. Shape'
    BY <1>1, <1>7, <2>1, Apart DEF InOrder, Shape, Work, Sending, Receiving
  <2>4. Way'
    BY <1>1, <1>3, <2>1, <2>2, Apart DEF InOrder, Way, Listens
  <2>5. Ear'
    BY <1>1, <1>5, <1>7, <2>1, Apart DEF InOrder, Ear, Sending, AcksRx, Outs, Receiving
  <2>6. Tally'
    BY <1>1, <1>3, <1>6, <2>1 DEF InOrder, Tally, Sending, Receiving
  <2> QED
    BY <2>3, <2>4, <2>5, <2>6 DEF InOrder
<1>11. CASE todo = ListenStall
  <2>1. todo' = StallBoth /\ usb_fsm_state = "IDLE"
    <3>1. todo' = StallBoth
      BY <1>1, <1>11, PollHeads DEF Begins
    <3>2. usb_fsm_state = "IDLE"
      BY <1>4, <1>6, <1>8, <1>11, Apart, ApartListens DEF InOrder, Shape, Work, FsmStates, Sending,
         Receiving, AcksRx, Listens
    <3> QED
      BY <3>1, <3>2
  <2>2. reg.tx # VALID
    BY <1>4, <1>11, Apart, ApartListens DEF InOrder, Way, Listens
  <2>3. Shape'
    BY <1>1, <1>7, <2>1, Apart DEF InOrder, Shape, Work, Sending, Receiving
  <2>4. Way'
    BY <1>1, <1>3, <2>1, <2>2, Apart DEF InOrder, Way, Listens, Ins, Sending
  <2>5. Ear'
    BY <1>1, <1>5, <1>7, <2>1, Apart DEF InOrder, Ear, Sending, AcksRx, Outs, Receiving
  <2>6. Tally'
    BY <1>1, <1>3, <1>6, <2>1, <2>2 DEF InOrder, Tally, Sending, Receiving
  <2> QED
    BY <2>3, <2>4, <2>5, <2>6 DEF InOrder
<1> QED
  BY <1>9, <1>10, <1>11

(* CLEAR_FEATURE touches the endpoint on its way to the status stage.        *)
LEMMA OpenWriteUnhalt ==
  ASSUME TypeInv, InOrder, WriteRegister, todo \in {Unhalt, Dtog}
  PROVE  InOrder'
<1>1. /\ UNCHANGED <<host, usb_req, usb_fsm_state, usb_force_nak, left, outgoing>>
      /\ todo' = Tail(todo) /\ ~old'.valid /\ old.valid /\ reg'.setup = reg.setup /\ Types
  BY WriteDone DEF TypeInv, Done, Elsewhere
<1>2. todo \in Listens /\ ~reg.ctrRx /\ reg.rx = NAK
  BY DEF InOrder, Ear, Listens
<1>3. usb_fsm_state = "STATUS_IN" /\ host.ended # "write" /\ reg.tx # VALID
  <2>1. todo \notin {<<>>} \cup Finishing
    BY <1>2, Apart DEF Finishing
  <2>2. todo \notin AcksRx \cup {Listen, ListenStall, AckTxListen}
    BY <1>2, ApartAcks, ApartListens
  <2>3. usb_fsm_state = "STATUS_IN"
    BY <1>2, <2>2, Apart DEF InOrder, Shape, Work, FsmStates, Sending, Receiving, AcksRx, TypeInv,
       Types, Listens
  <2> QED
    BY <1>2, <2>1, <2>2, <2>3, Apart DEF InOrder, Tally, Way
<1>4. todo' \in {Dtog, ListenSend} /\ reg'.rx = reg.rx /\ reg'.tx \in {NAK, reg.tx} /\ ~reg'.ctrRx
  <2>1. CASE todo = Unhalt
    <3>1. todo' = Dtog /\ Head(todo).m = "tx" /\ Head(todo).s = NAK
      BY <1>1, <2>1, PollHeads DEF Begins
    <3>2. ~reg'.ctrRx /\ reg'.rx = reg.rx /\ reg'.tx = Flip(reg.tx, Flip(old.tx, NAK))
      BY <1>1, <1>2, <3>1, WriteTx
    <3>3. old.tx = reg.tx /\ reg.tx \in Stats
      BY <1>1, <2>1 DEF InOrder, Way, Types, Register
    <3>4. reg'.tx = NAK
      BY <3>2, <3>3, FlipBack, StatFacts
    <3> QED
      BY <3>1, <3>2, <3>4
  <2>2. CASE todo = Dtog
    <3>1. todo' = ListenSend /\ Head(todo).m = "dtog"
      BY <1>1, <2>2, PollHeads DEF Begins
    <3> QED
      BY <1>1, <1>2, <3>1, WriteDtog
  <2> QED
    BY <2>1, <2>2
<1>5. reg'.tx # VALID /\ reg'.tx # DISABLED
  BY <1>3, <1>4, StatFacts DEF InOrder, Way
<1>6. todo' \notin AcksRx \cup {<<>>, Look, Arm, TakePacket, StallRx, StallBoth}
  BY <1>4, Apart, ApartAcks DEF Listens
<1>7. Shape'
  BY <1>1, <1>3, <1>4, <1>6 DEF InOrder, Shape, Work, Sending, Receiving
<1>8. Way'
  BY <1>1, <1>5, <1>6 DEF Way
<1>9. Ear'
  BY <1>1, <1>2, <1>3, <1>4, <1>6, StatFacts DEF Ear, Sending, Outs, Receiving
<1>10. Tally'
  BY <1>1, <1>3 DEF InOrder, Tally, Sending, Receiving
<1> QED
  BY <1>7, <1>8, <1>9, <1>10 DEF InOrder

(* Every step of the program in an open transfer.                            *)
LEMMA OpenSteps ==
  ASSUME TypeInv, Linked, Attached, ~pending, InOrder, Poll
  PROVE  InOrder' /\ ~pending'
<1>1. ~resetFlag /\ todo \in PollLists \ {TakeIt, NakTakeIt, AckRx}
  <2>1. todo \notin {TakeIt, NakTakeIt, AckRx}
    BY Apart, ApartAcks DEF InOrder, Shape, Work, TypeInv, Types, FsmStates, Sending, Receiving,
       AcksRx, Listens
  <2>2. todo \in PollLists
    BY DEF InOrder, Shape, Work, TypeInv, Types, FsmStates, Sending, Receiving, PollLists, AcksRx,
       Listens
  <2> QED
    BY <2>1, <2>2 DEF Linked
<1>2. ~PollReset /\ ~TakeSetup /\ ~Place /\ ~Enable
  <2>1. todo # <<>> => Head(todo).m \notin {"txaddr", "rxaddr", "enable"}
    BY <1>1, PollTails
  <2>2. todo # <<>> => Head(todo).m # "takeSetup"
    BY <1>1, SingleHeads
  <2> QED
    BY <1>1, <2>1, <2>2 DEF PollReset, TakeSetup, Place, Enable, At
<1>3. ~pending'
  <2>1. pending' = pending
    BY <1>2 DEF Poll, PollRx, PollTx, Which, TakeOut, Send, ReadRegister, WriteRegister
  <2> QED
    BY <2>1
<1>4. CASE WriteRegister
  <2>1. todo # <<>> /\ Head(todo).m \in RegisterMacros
    BY <1>4 DEF WriteRegister, TypeInv, Types
  <2>2. todo \notin {Look, TakePacket, SendNow}
    BY <2>1, PollHeads DEF Begins, RegisterMacros
  <2>3. todo \in {StallRx, StallBoth, AckTx, AckTxStall, AckTxSend, Arm} \cup AcksRx \cup Listens
    BY <1>1, <2>1, <2>2 DEF PollLists
  <2> QED
    BY <1>3, <1>4, <2>3, OpenWriteStall, OpenWriteAckTx, OpenWriteAckRx, OpenWriteArm,
       OpenWriteListen, OpenWriteUnhalt DEF Listens
<1> QED
  BY <1>2, <1>3, <1>4, OpenPolls, OpenHandlers, OpenSendRead DEF Poll

-----------------------------------------------------------------------------
(* The host starts a transfer: at rest, or after one that it has seen end    *)
(* with its status packet while the device still tidies up.                  *)
LEMMA HostStarts ==
  ASSUME TypeInv, Orderly, Eager \subseteq {"write"}, HostSetup
  PROVE  Orderly'
<1>1. PICK req \in Requests :
        /\ memory' = [kind |-> "setup", req |-> req, serial |-> 1 - host.serial]
        /\ host' = [stage |-> IF req.n = 0 THEN "statusIn" ELSE req.dir, req |-> req,
                    left |-> req.n, serial |-> 1 - host.serial, ended |-> "no", sound |-> TRUE,
                    calm |-> Quiet]
  BY DEF HostSetup
<1>2. req.n \in Nat /\ req.dir \in {"in", "out"}
  BY AskedTypes DEF Asked
<1>3. /\ ~reg.ctrRx /\ reg.rx # DISABLED /\ host.stage = "idle"
      /\ UNCHANGED <<todo, old, resetFlag>>
      /\ reg' = [reg EXCEPT !.ctrRx = TRUE, !.setup = TRUE, !.rx = NAK, !.tx = NAK]
      /\ pending' = TRUE
  BY DEF HostSetup, program
<1>4. reg'.ctrRx /\ reg'.setup /\ reg'.rx = NAK /\ reg'.tx = NAK
  BY <1>3 DEF TypeInv, Types, Register
<1>5. /\ host'.ended = "no" /\ host'.stage = Opening(host'.req) /\ host'.left = host'.req.n
      /\ memory'.kind = "setup" /\ memory'.req = host'.req /\ memory'.serial = host'.serial
  BY <1>1 DEF Opening
<1>6. host'.stage # "idle"
  BY <1>1, <1>2
<1>7. Quiet \/ (host.ended = "write" /\ Attached)
  BY DEF HostSetup, Attached
<1>8. ~pending /\ ~resetFlag
  <2>1. ~pending
    BY <1>3 DEF Orderly, Waits, Linked
  <2>2. ~resetFlag
    BY <1>7 DEF Quiet, Orderly, Linked
  <2> QED
    BY <2>1, <2>2
<1>9. Attached' /\ Linked'
  BY <1>3, <1>5, <1>6, <1>8 DEF Attached, Linked
<1>10. Waits'
  <2>1. CASE Quiet
    <3>1. todo' = <<>>
      BY <1>3, <2>1 DEF Quiet
    <3> QED
      BY <1>4, <1>5, <3>1, Apart, StatFacts DEF Waits, Finishing
  <2>2. CASE host.ended = "write" /\ Attached
    <3>1. /\ todo \in {<<>>} \cup Finishing /\ reg.tx # VALID /\ Way /\ Ear
      BY <1>8, <2>2 DEF Orderly, InOrder, Tally
    <3>2. todo = StallRx /\ old.valid => old.rx # DISABLED
      BY <1>3, <3>1, StatFacts DEF Ear
    <3>3. todo = StallBoth /\ old.valid => old.tx \in {NAK, STALL}
      BY <3>1, StatFacts DEF Way, TypeInv, Types, Register
    <3>4. todo' # TakeIt /\ todo' # NakTakeIt
      BY <1>3, <3>1, Apart DEF Finishing
    <3> QED
      BY <1>3, <1>4, <1>5, <3>1, <3>2, <3>3, <3>4, StatFacts DEF Waits
  <2> QED
    BY <1>7, <2>1, <2>2
<1> QED
  BY <1>3, <1>9, <1>10 DEF Orderly

(* The host takes a packet.                                                  *)
LEMMA HostTakes ==
  ASSUME TypeInv, Orderly, HostIn
  PROVE  Orderly' /\ host'.sound = host.sound
<1>1. host.stage \in {"in", "statusIn"} /\ reg.tx = VALID /\ host.ended = "no" /\ Attached
  BY DEF HostIn, Orderly, Linked, Attached
<1>2. ~pending
  BY <1>1, StatFacts DEF Orderly, Waits
<1>3. InOrder /\ outgoing = host.serial /\ ~reg.ctrRx /\ usb_fsm_state \notin Receiving
  BY <1>1, <1>2 DEF Orderly, InOrder, Way
<1>4. /\ UNCHANGED <<memory, outgoing, enabled, resetFlag, layout, program, pending>>
      /\ reg' = [reg EXCEPT !.ctrTx = TRUE, !.tx = NAK]
  BY DEF HostIn
<1>5. /\ reg'.ctrTx /\ reg'.tx = NAK /\ reg'.rx = reg.rx /\ reg'.ctrRx = reg.ctrRx
      /\ reg'.setup = reg.setup
  BY <1>4 DEF TypeInv, Types, Register
<1>6. host' = [host EXCEPT
                 !.left = IF host.stage = "statusIn" THEN host.left ELSE host.left - 1,
                 !.stage = IF host.stage = "statusIn" THEN "idle"
                           ELSE IF host.left = 1 THEN "statusOut" ELSE "in",
                 !.ended = IF host.stage = "statusIn" THEN "write" ELSE host.ended,
                 !.sound = host.sound /\ outgoing = host.serial]
  BY DEF HostIn
<1>7. host \in HostType /\ host.sound \in BOOLEAN
  BY DEF TypeInv, Types, HostType
<1>8. host'.sound = host.sound /\ host'.req = host.req /\ host'.serial = host.serial
  BY <1>3, <1>6, <1>7 DEF HostType
<1>9. /\ host.stage = "statusIn" => host'.stage = "idle" /\ host'.ended = "write"
      /\ host.stage = "in" => /\ host'.stage \in {"statusOut", "in"} /\ host'.ended = "no"
                              /\ host'.left = host.left - 1
  BY <1>1, <1>6, <1>7 DEF HostType
<1>10. Linked' /\ Attached'
  BY <1>1, <1>2, <1>4, <1>9 DEF Orderly, Linked, Attached
<1>11. UNCHANGED <<todo, old, usb_fsm_state, usb_force_nak, usb_req, left, outgoing>>
  BY <1>4 DEF program
<1>12. todo \in {<<>>, AckTx, AckTxListen, Listen, AckTxSend, SendNow}
  BY <1>1, <1>3 DEF InOrder, Way
<1>13. Shape'
  BY <1>3, <1>5, <1>8, <1>11 DEF InOrder, Shape, Work
<1>14. Way'
  <2>1. todo \notin {Arm, StallBoth, Unhalt}
    BY <1>12, Apart, ApartListens DEF Listens
  <2> QED
    BY <1>5, <1>11, <2>1, StatFacts DEF Way
<1>15. Ear'
  <2>1. todo # StallRx
    BY <1>12, Apart DEF Listens
  <2> QED
    BY <1>3, <1>5, <1>11, <2>1 DEF InOrder, Ear
<1>16. Tally'
  <2>1. usb_fsm_state \in FsmStates /\ host.left \in Nat /\ left \in Nat
    BY DEF TypeInv, Types, HostType
  <2>2. CASE usb_fsm_state \in Sending \cup {"STATUS_OUT"}
    <3>1. host.stage = "in"
      BY <1>1, <1>3, <2>2 DEF InOrder, Tally
    <3>2. Coming = Coming' + 1 /\ Coming' \in Nat
      BY <1>1, <1>5, <1>11, StatFacts DEF Coming, ToSend
    <3>3. usb_fsm_state \notin Receiving \cup {"STATUS_IN", "IDLE"}
      BY <2>2 DEF Sending, Receiving
    <3> QED
      BY <1>3, <1>9, <1>11, <2>1, <3>1, <3>2, <3>3 DEF InOrder, Tally
  <2>3. CASE usb_fsm_state \in {"STATUS_IN", "IDLE"}
    <3>1. host.stage = "statusIn"
      BY <1>1, <1>3, <2>3 DEF InOrder, Tally
    <3>2. todo \in {<<>>} \cup Finishing
      <4>1. todo \notin {AckTxListen, AckTxSend}
        <5>1. CASE usb_fsm_state = "IDLE"
          BY <1>3, <5>1, Apart, ApartAcks, ApartListens DEF InOrder, Shape, Work, AcksRx, Listens
        <5>2. CASE usb_fsm_state = "STATUS_IN"
          BY <1>3, <5>2, Apart, ApartAcks, ApartListens DEF InOrder, Shape, Work, AcksRx, Listens
        <5> QED
          BY <2>3, <5>1, <5>2
      <4>2. todo \notin {Listen, SendNow}
        BY <1>1, <1>3, <2>3 DEF InOrder, Way, Sending
      <4> QED
        BY <1>12, <4>1, <4>2 DEF Finishing
    <3>3. usb_fsm_state \notin Receiving \cup Sending \cup {"STATUS_OUT"}
      BY <2>3 DEF Sending, Receiving
    <3> QED
      BY <1>3, <1>5, <1>9, <1>11, <2>3, <3>1, <3>2, <3>3, StatFacts DEF Tally
  <2> QED
    BY <1>3, <2>1, <2>2, <2>3 DEF FsmStates, Sending, Receiving
<1>17. ~pending'
  BY <1>2, <1>4
<1> QED
  BY <1>8, <1>10, <1>13, <1>14, <1>15, <1>16, <1>17 DEF Orderly, InOrder

(* The host sends a packet: the program waits for one, and has nothing left  *)
(* to send.                                                                  *)
LEMMA HostSends ==
  ASSUME TypeInv, Orderly, HostOut
  PROVE  Orderly' /\ host'.sound = host.sound
<1>1. host.stage \in {"out", "statusOut"} /\ reg.rx = VALID /\ host.ended = "no" /\ Attached
  BY DEF HostOut, Orderly, Linked, Attached
<1>2. ~pending
  BY <1>1 DEF Orderly, Waits
<1>3. /\ UNCHANGED <<outgoing, enabled, resetFlag, layout, program, pending>>
      /\ reg' = [reg EXCEPT !.ctrRx = TRUE, !.setup = FALSE, !.rx = NAK]
  BY DEF HostOut
<1>4. /\ reg'.ctrRx /\ ~reg'.setup /\ reg'.rx = NAK /\ reg'.tx = reg.tx
      /\ reg'.ctrTx = reg.ctrTx
  BY <1>3 DEF TypeInv, Types, Register
<1>5. host' = [host EXCEPT
                 !.left = IF host.stage = "statusOut" THEN host.left ELSE host.left - 1,
                 !.stage = IF host.stage = "statusOut" THEN "idle"
                           ELSE IF host.left = 1 THEN "statusIn" ELSE "out",
                 !.ended = IF host.stage = "statusOut" THEN "read" ELSE host.ended]
  BY DEF HostOut
<1>6. host \in HostType
  BY DEF TypeInv, Types
<1>7. host'.sound = host.sound /\ host'.req = host.req /\ host'.serial = host.serial
  BY <1>5, <1>6 DEF HostType
<1>8. /\ host.stage = "statusOut" => host'.stage = "idle" /\ host'.ended = "read"
      /\ host.stage = "out" => /\ host'.stage \in {"statusIn", "out"} /\ host'.ended = "no"
                               /\ host'.left = host.left - 1
  BY <1>1, <1>5, <1>6 DEF HostType
<1>9. Linked' /\ Attached'
  BY <1>1, <1>2, <1>3, <1>8 DEF Orderly, Linked, Attached
<1>10. UNCHANGED <<todo, old, usb_fsm_state, usb_force_nak, usb_req, left, outgoing>>
  BY <1>3 DEF program
<1>11. InOrder /\ usb_fsm_state \in FsmStates /\ host.left \in Nat /\ left \in Nat
  BY <1>1, <1>2 DEF Orderly, TypeInv, Types, HostType
<1>12. usb_fsm_state \notin Ins /\ todo \notin AcksRx \cup Listens \cup {TakePacket}
  BY <1>1, <1>11, StatFacts DEF InOrder, Ear, Tally, Ins
<1>13. reg.tx # VALID
  <2>1. usb_fsm_state \in {"IDLE", "STATUS_OUT"} \cup Receiving
    BY <1>11, <1>12 DEF FsmStates, Ins, Sending, Receiving
  <2>2. host.left = 0 \/ host.stage = "out"
    BY <1>1 DEF TypeInv, Counts
  <2>3. reg.tx = VALID => Coming >= 1
    BY DEF Coming
  <2>4. Coming \in Nat
    BY DEF Coming
  <2> QED
    BY <1>1, <1>11, <2>1, <2>2, <2>3, <2>4 DEF InOrder, Way, Tally
<1>14. Shape'
  BY <1>4, <1>7, <1>10, <1>11 DEF InOrder, Shape, Work
<1>15. Way'
  BY <1>4, <1>7, <1>10, <1>11, <1>12, <1>13 DEF InOrder, Way
<1>16. Ear'
  BY <1>1, <1>4, <1>10, <1>11, <1>12, StatFacts DEF InOrder, Ear, Ins
<1>17. Tally'
  <2>1. CASE usb_fsm_state \in Receiving
    <3>1. todo = <<>> /\ ~reg.ctrRx
      <4>1. todo \in {<<>>, Look}
        BY <1>11, <1>12, <2>1 DEF InOrder, Shape, Work, AcksRx, Listens
      <4> QED
        BY <1>1, <1>11, <2>1, <4>1, StatFacts DEF InOrder, Ear, Outs
    <3>2. ~Unread /\ Unread'
      BY <1>4, <1>10, <3>1 DEF Unread
    <3>3. host.stage = "out"
      BY <1>1, <1>11, <2>1 DEF InOrder, Tally
    <3> QED
      BY <1>8, <1>10, <1>11, <2>1, <3>2, <3>3 DEF InOrder, Tally, Sending, Receiving
  <2>2. CASE usb_fsm_state = "STATUS_OUT"
    <3>1. host.stage = "statusOut"
      BY <1>1, <1>11, <2>2 DEF InOrder, Tally
    <3> QED
      BY <1>8, <1>10, <2>2, <3>1 DEF Tally, Sending, Receiving
  <2>3. CASE usb_fsm_state = "IDLE"
    <3>1. host'.ended # "write"
      BY <1>1, <1>8
    <3> QED
      BY <1>4, <1>10, <1>13, <2>3, <3>1 DEF Tally, Sending, Receiving
  <2> QED
    BY <1>11, <1>12, <2>1, <2>2, <2>3 DEF FsmStates, Ins, Sending, Receiving
<1>18. ~pending'
  BY <1>2, <1>3
<1> QED
  BY <1>7, <1>9, <1>14, <1>15, <1>16, <1>17, <1>18 DEF Orderly, InOrder

(* The host leaves its transfer, or the bus is reset.                        *)
LEMMA HostLeaves ==
  ASSUME TypeInv, Orderly, ~ResetAnywhere, HostSeesStall \/ HostGivesUp \/ BusReset
  PROVE  Orderly' /\ host'.sound = host.sound
<1>1. host \in HostType /\ UNCHANGED <<memory, outgoing, layout, program, pending>>
  BY DEF HostSeesStall, HostGivesUp, BusReset, Peripheral, TypeInv, Types
<1>2. CASE HostSeesStall \/ HostGivesUp
  <2>1. host' = Ends("stall") \/ host' = Ends("given up")
    BY <1>2 DEF HostSeesStall, HostGivesUp
  <2>2. /\ host'.stage = "idle" /\ host'.ended \in {"stall", "given up"}
        /\ host'.sound = host.sound /\ host'.req = host.req /\ host'.serial = host.serial
    BY <1>1, <2>1 DEF Ends, HostType
  <2>3. UNCHANGED <<reg, resetFlag, todo, old, usb_fsm_state, usb_force_nak, usb_req, left,
                    outgoing, memory, pending>>
    BY <1>1, <1>2 DEF HostSeesStall, HostGivesUp, Peripheral, program
  <2>4. host.stage # "idle" /\ host.ended = "no" /\ Attached
    BY <1>2 DEF HostSeesStall, HostGivesUp, Orderly, Linked, Attached
  <2>5. Linked'
    BY <2>2, <2>3, <2>4 DEF Orderly, Linked, Attached
  <2>6. Waits => Waits'
    BY <2>2, <2>3 DEF Waits
  <2>7. InOrder => InOrder'
    <3>1. Shape => Shape'
      <4>1. Work' <=> Work
        BY <2>3 DEF Work
      <4> QED
        BY <2>2, <2>3, <4>1 DEF Shape
    <3>2. (Way => Way') /\ (Ear => Ear')
      BY <2>2, <2>3 DEF Way, Ear
    <3>3. Tally => Tally'
      BY <2>2, <2>3 DEF Tally
    <3> QED
      BY <3>1, <3>2, <3>3 DEF InOrder
  <2>8. pending' = pending
    BY <2>3
  <2> QED
    BY <2>2, <2>4, <2>5, <2>6, <2>7, <2>8 DEF Orderly
<1>3. CASE BusReset
  <2>1. ~reg.ctrRx /\ host' = Ends("reset")
    BY <1>3 DEF BusReset
  <2>2. /\ host'.stage = "idle" /\ host'.ended = "reset" /\ host'.sound = host.sound
    BY <1>1, <2>1 DEF Ends, HostType
  <2>3. ~pending
    BY <2>1 DEF Orderly, Linked, Waits
  <2>4. ~pending'
    BY <1>1, <2>3
  <2> QED
    BY <2>2, <2>4 DEF Orderly, Linked, Attached
<1> QED
  BY <1>2, <1>3

(* The second layer, with the types and the property it carries.             *)
Sound == TypeInv /\ Orderly /\ host.sound

(* Every step keeps it, for a host that sends a SETUP before the device is   *)
(* at rest only when it has seen a write end with its status packet, and for *)
(* a bus that is not reset over an unread packet.                            *)
LEMMA NextOrderly ==
  ASSUME Eager \subseteq {"write"}, ~ResetAnywhere, Sound, [Next]_vars
  PROVE  Sound'
<1>1. TypeInv'
  BY NextTypes DEF Sound
<1>2. CASE UNCHANGED vars
  <2>1. UNCHANGED <<reg, memory, outgoing, resetFlag, host, pending, todo, old, usb_fsm_state,
                    usb_force_nak, usb_req, left>>
    BY <1>2 DEF vars, program
  <2>2. Linked => Linked'
    BY <2>1 DEF Linked, Attached
  <2>3. Waits => Waits'
    BY <2>1 DEF Waits
  <2>4. (Shape => Shape') /\ (Way => Way')
    BY <2>1 DEF Shape, Work, Way
  <2>5. (Ear => Ear') /\ (Tally => Tally')
    BY <2>1 DEF Ear, Tally, Coming, ToSend, Unread
  <2>6. host'.sound = host.sound /\ pending' = pending /\ (Attached' <=> Attached)
    BY <2>1 DEF Attached
  <2> QED
    BY <1>1, <2>2, <2>3, <2>4, <2>5, <2>6 DEF Sound, Orderly, InOrder
<1>3. CASE Poll
  <2>1. /\ host' = host /\ (resetFlag' = resetFlag \/ resetFlag' = FALSE)
        /\ pending' = pending \/ pending' = FALSE
    BY <1>3, PollKeeps
  <2>2. Attached' <=> Attached
    BY <2>1 DEF Attached
  <2>3. Linked'
    <3>1. pending' => pending
      BY <2>1
    <3>2. resetFlag' => resetFlag
      BY <2>1
    <3> QED
      BY <2>1, <2>2, <3>1, <3>2 DEF Sound, Orderly, Linked
  <2>4. CASE ~Attached
    BY <1>1, <2>1, <2>2, <2>3, <2>4 DEF Sound, Orderly
  <2>5. CASE Attached /\ pending
    BY <1>1, <1>3, <2>1, <2>3, <2>5, WaitSteps, TakeSteps DEF Sound, Orderly
  <2>6. CASE Attached /\ ~pending
    BY <1>1, <1>3, <2>1, <2>3, <2>6, OpenSteps DEF Sound, Orderly
  <2> QED
    BY <2>4, <2>5, <2>6
<1>4. CASE HostSetup
  <2>1. host'.sound
    BY <1>4 DEF HostSetup
  <2> QED
    BY <1>1, <1>4, <2>1, HostStarts DEF Sound
<1>5. CASE HostProgress \/ HostGivesUp \/ BusReset
  BY <1>1, <1>5, HostTakes, HostSends, HostLeaves DEF HostProgress, Sound
<1> QED
  BY <1>2, <1>3, <1>4, <1>5 DEF Next

(* So the second layer holds throughout.                                     *)
LEMMA SoundAlways ==
  ASSUME Eager \subseteq {"write"}, ~ResetAnywhere PROVE Spec => []Sound
<1>1. Init => Sound
  <2> SUFFICES ASSUME Init PROVE Sound
    OBVIOUS
  <2>1. host.sound /\ host.ended = "off" /\ host.stage = "idle" /\ ~pending
    BY DEF Init
  <2> QED
    BY <2>1, InitTypes DEF Sound, Orderly, Linked, Attached
<1>2. Sound /\ [Next]_vars => Sound'
  BY NextOrderly
<1> QED
  BY <1>1, <1>2, PTL DEF Spec

(* SetupKept: from its acknowledgement to its reading by _usbd_control_setup *)
(* a SETUP stays in the receive buffer, announced by CTR_RX and SETUP; no    *)
(* macro of the poll that it arrived in clears either bit or lets another    *)
(* packet in (usb.cpp:244-256, usb.h:428-471).                               *)
THEOREM SetupIsKept ==
  ASSUME Eager \subseteq {"write"}, ~ResetAnywhere PROVE Spec => []SetupKept
<1>1. Sound => SetupKept
  BY DEF Sound, Orderly, Linked, Waits, SetupKept
<1> QED
  BY <1>1, SoundAlways, PTL

(* ReplyIsOwn: every packet that the host takes was written for the request  *)
(* it has open (usb.cpp:244-256, 376-395).                                   *)
THEOREM ReplyIsForRequest ==
  ASSUME Eager \subseteq {"write"}, ~ResetAnywhere PROVE Spec => []ReplyIsOwn
<1>1. Sound => ReplyIsOwn
  BY DEF Sound, ReplyIsOwn
<1> QED
  BY <1>1, SoundAlways, PTL

(* ArmedForPhase: when the program has nothing left to do and a transfer is  *)
(* open, the direction that its state waits for is VALID (usb.h:428-448,     *)
(* usb.cpp:376-460).                                                         *)
THEOREM PhaseIsArmed ==
  ASSUME Eager \subseteq {"write"}, ~ResetAnywhere PROVE Spec => []ArmedForPhase
<1>1. ASSUME Sound, Quiet, host.ended = "no" PROVE Awaits
  <2>1. InOrder /\ todo = <<>> /\ ~reg.ctrRx /\ ~reg.ctrTx
    BY <1>1 DEF Quiet, Sound, Orderly, Waits, Attached
  <2>2. usb_fsm_state \in Ins => reg.tx = VALID
    BY <2>1 DEF InOrder, Way
  <2>3. usb_fsm_state \in Outs => reg.rx = VALID
    BY <2>1 DEF InOrder, Ear
  <2>4. CASE usb_fsm_state \in Ins
    BY <2>2, <2>4 DEF Awaits, Ins, Sending
  <2>5. CASE usb_fsm_state \in Outs
    BY <2>3, <2>5 DEF Awaits, Outs, Receiving
  <2>6. CASE usb_fsm_state \notin Ins \cup Outs
    BY <2>6 DEF Awaits, Ins, Outs, Sending, Receiving
  <2> QED
    BY <2>4, <2>5, <2>6
<1>2. Sound => ArmedForPhase
  BY <1>1 DEF ArmedForPhase
<1> QED
  BY <1>2, SoundAlways, PTL

-----------------------------------------------------------------------------
(* The third layer: a transfer that began with the device at rest, for a     *)
(* request that is served.                                                   *)
Plain == host.calm /\ host.ended = "no" /\ host.req.what # "refused"

(* The SETUP waits: both directions NAK, and no packet to acknowledge.       *)
CalmWait ==
  /\ ~reg.ctrTx /\ reg.tx = NAK /\ reg.rx = NAK
  /\ todo \in {<<>>, Look, NakTakeIt, TakeIt}

(* No status bit is left over from the transfer before, so the program finds *)
(* each packet in the state that expects it.                                 *)
CalmOpen ==
  /\ usb_fsm_state # "IDLE" /\ reg.tx # STALL /\ reg.rx # STALL
  /\ reg.tx = VALID => todo = <<>>
  /\ usb_fsm_state \in Sending =>
       /\ reg.tx = VALID \/ ToSend => host.left = left + 1
       /\ reg.tx # VALID /\ ~ToSend => host.left = left
       /\ reg.ctrTx => reg.tx = NAK /\ todo \in {<<>>, AckTxSend}
  /\ usb_fsm_state \in Receiving => ~reg.ctrTx /\ (Unread => memory.kind = "data")
  /\ usb_fsm_state = "STATUS_IN" => ~reg.ctrTx
  /\ usb_fsm_state = "STATUS_OUT" =>
       /\ ~reg.ctrRx /\ reg.tx = NAK /\ host.stage = "statusOut"
       /\ reg.ctrTx => todo = AckTxListen

Calm == /\ Plain /\ pending => CalmWait
        /\ Plain /\ ~pending => CalmOpen
        /\ host.ended = "stall" /\ host.calm => host.req.what = "refused"

(* From the SETUP's arrival to its reading: _usbd_control_setup leaves the   *)
(* endpoint as CalmOpen says, for a request that is served.                  *)
LEMMA CalmWaitSteps ==
  ASSUME TypeInv, Orderly, Plain, pending, CalmWait, Poll
  PROVE  IF TakeSetup THEN CalmOpen' ELSE CalmWait'
<1>1. Attached /\ Waits /\ ~resetFlag /\ reg.ctrRx /\ reg.setup /\ host' = host
  BY PollKeeps DEF Plain, Attached, Orderly, Linked, Waits
<1>2. CASE ~TakeSetup
  <2>1. todo = <<>> \/ Head(todo).m \in {"which", "rx", "takeSetup"}
    BY PollHeads DEF CalmWait, Begins
  <2>2. PollRx \/ Which \/ ReadRegister \/ WriteRegister
    BY <1>1, <1>2, <2>1 DEF Poll, PollReset, PollTx, TakeOut, TakeSetup, Send, Place, Enable, At
  <2>3. CASE PollRx
    <3>1. todo' = Look /\ reg' = reg
      BY <2>3, Joined DEF PollRx, Peripheral
    <3> QED
      BY <1>2, <3>1 DEF CalmWait
  <2>4. CASE Which
    <3>1. todo' = NakTakeIt /\ reg' = reg
      BY <1>1, <2>4, WhichOutcome DEF Which, Peripheral
    <3> QED
      BY <1>2, <3>1 DEF CalmWait
  <2>5. CASE ReadRegister
    <3>1. todo' = todo /\ reg' = reg
      BY <2>5 DEF ReadRegister, Peripheral
    <3> QED
      BY <1>2, <3>1 DEF CalmWait
  <2>6. CASE WriteRegister
    <3>1. todo' = Tail(todo) /\ old.valid /\ todo # <<>> /\ Types
          /\ Head(todo).m \in RegisterMacros
      BY <2>6, WriteDone DEF TypeInv, Done, Types
    <3>2. todo = NakTakeIt
      BY <3>1, PollHeads DEF CalmWait, RegisterMacros, Begins
    <3>3. todo' = TakeIt /\ Head(todo).m = "rx" /\ Head(todo).s = NAK
      BY <3>1, <3>2, PollHeads DEF Begins
    <3>4. /\ reg'.tx = reg.tx /\ reg'.rx = Flip(reg.rx, Flip(old.rx, NAK))
          /\ reg'.ctrTx <=> reg.ctrTx
      BY <2>6, <3>1, <3>3, WriteRx
    <3>5. reg'.rx = NAK
      BY <1>1, <3>1, <3>2, <3>4, FlipBack, StatFacts DEF CalmWait, Waits
    <3> QED
      BY <1>2, <3>3, <3>4, <3>5 DEF CalmWait
  <2> QED
    BY <2>2, <2>3, <2>4, <2>5, <2>6
<1>3. CASE TakeSetup
  <2>1. /\ memory.kind = "setup" /\ memory.req = host.req
        /\ memory.req.n \in Nat /\ memory.req.dir \in {"in", "out"}
    BY <1>1, AskedTypes DEF Waits, TypeInv, Types
  <2>2. reg.tx = NAK /\ reg.rx = NAK /\ ~reg.ctrTx /\ UNCHANGED reg /\ NAK # VALID /\ NAK # STALL
    BY <1>3, StatFacts DEF CalmWait, TakeSetup, Peripheral
  <2> DEFINE n == host.req.n
  <2>3. \/ n > 0 /\ todo' = AckRxSend /\ left' = n - 1 /\ usb_fsm_state' \in Sending
        \/ todo' \in {AckRxUnhalt, AckRxSend} /\ usb_fsm_state' = "STATUS_IN"
        \/ todo' = AckRxListen /\ usb_fsm_state' \in Receiving
    BY <1>3, <2>1, <2>2, SetupOutcome DEF Plain, Sending, Receiving
  <2>4. host'.left = n /\ n \in Nat
    BY <1>1, <2>1 DEF Waits, Plain, Orderly, Linked
  <2> HIDE DEF n
  <2>5. CASE n > 0 /\ todo' = AckRxSend /\ left' = n - 1 /\ usb_fsm_state' \in Sending
    <3>1. ToSend'
      BY <2>5 DEF ToSend
    <3>2. CalmOpen'
      BY <2>2, <2>4, <2>5, <3>1 DEF CalmOpen, Sending, Receiving
    <3> QED
      BY <1>3, <3>2
  <2>6. CASE todo' \in {AckRxUnhalt, AckRxSend} /\ usb_fsm_state' = "STATUS_IN"
    <3>1. CalmOpen'
      BY <2>2, <2>6 DEF CalmOpen, Sending, Receiving
    <3> QED
      BY <1>3, <3>1
  <2>7. CASE todo' = AckRxListen /\ usb_fsm_state' \in Receiving
    <3>1. ~Unread'
      BY <2>7, Apart DEF Unread, AcksRx
    <3>2. CalmOpen'
      BY <2>2, <2>7, <3>1 DEF CalmOpen, Sending, Receiving
    <3> QED
      BY <1>3, <3>2
  <2> QED
    BY <2>3, <2>5, <2>6, <2>7
<1> QED
  BY <1>2, <1>3

(* The polls and handlers of an open transfer: each packet finds the state   *)
(* that expects it, so no handler stalls.                                    *)
LEMMA CalmOpenHandlers ==
  ASSUME TypeInv, InOrder, Linked, Plain, CalmOpen, ~WriteRegister,
         PollRx \/ PollTx \/ Which \/ TakeOut \/ Send \/ ReadRegister
  PROVE  CalmOpen'
<1>1. UNCHANGED <<reg, host, memory>> /\ host.stage # "idle"
  BY DEF PollRx, PollTx, Which, TakeOut, Send, ReadRegister, Peripheral, Plain, Linked
<1>2. usb_fsm_state \in FsmStates /\ left \in Nat /\ host.left \in Nat
  BY DEF TypeInv, Types, HostType
<1>3. CASE PollRx
  <2>1. todo = <<>> /\ todo' = Look /\ reg.ctrRx /\ UNCHANGED <<usb_fsm_state, left>>
    BY <1>3, Joined DEF PollRx
  <2>2. usb_fsm_state \in Receiving
    BY <1>2, <2>1, Apart DEF InOrder, Ear, CalmOpen, FsmStates, Ins, Sending, Receiving
  <2>3. reg.tx # VALID /\ Unread
    BY <2>1 DEF InOrder, Way, Unread
  <2> QED
    BY <1>1, <2>1, <2>2, <2>3 DEF CalmOpen, Sending, Receiving
<1>4. CASE PollTx
  <2>1. todo = <<>> /\ reg.ctrTx /\ ~reg.ctrRx
    BY <1>4 DEF PollTx
  <2>2. usb_fsm_state \in Sending /\ reg.tx = NAK /\ reg.tx # VALID /\ reg.tx # STALL
    BY <1>2, <2>1, Apart, StatFacts DEF CalmOpen, FsmStates, Sending, Receiving, Listens
  <2>3. host.left = left
    BY <2>1, <2>2, Apart DEF CalmOpen, ToSend, AcksRx
  <2>4. CASE usb_fsm_state = "DATA_IN"
    <3>1. todo' = AckTxSend /\ left' = left - 1 /\ usb_fsm_state' \in Sending
      BY <1>4, <2>4, TxOutcome DEF Ins, Sending
    <3>2. ToSend'
      BY <3>1 DEF ToSend
    <3> QED
      BY <1>1, <1>2, <2>2, <2>3, <3>1, <3>2 DEF CalmOpen, Sending, Receiving
  <2>5. CASE usb_fsm_state = "LAST_DATA_IN"
    <3>1. todo' = AckTxListen /\ usb_fsm_state' = "STATUS_OUT"
      BY <1>4, <2>5, TxOutcome DEF Ins, Sending
    <3>2. host.stage = "statusOut"
      BY <1>1, <2>2, <2>3, <2>5 DEF TypeInv, Counts, InOrder, Tally
    <3> QED
      BY <1>1, <2>1, <2>2, <3>1, <3>2 DEF CalmOpen, Sending, Receiving
  <2> QED
    BY <2>2, <2>4, <2>5 DEF Sending
<1>5. CASE Which
  <2>1. todo = Look /\ reg.ctrRx /\ ~reg.setup
    <3>1. todo = Look
      BY <1>5, SingleHeads DEF Which, At, TypeInv, Types
    <3> QED
      BY <3>1, Apart DEF InOrder, Shape
  <2>2. usb_fsm_state \in Receiving
    BY <1>2, <2>1, Apart DEF InOrder, Ear, CalmOpen, FsmStates, Ins, Sending, Receiving
  <2>3. todo' = TakePacket /\ UNCHANGED <<usb_fsm_state, left>>
    BY <1>5, <2>1, <2>2, WhichOutcome DEF Which, Outs
  <2>4. reg.tx # VALID /\ Unread
    BY <2>1 DEF InOrder, Way, Unread
  <2> QED
    BY <1>1, <2>2, <2>3, <2>4 DEF CalmOpen, Sending, Receiving
<1>6. CASE TakeOut
  <2>1. todo = TakePacket /\ usb_fsm_state \in Outs
    BY <1>6, SingleHeads DEF TakeOut, At, TypeInv, Types
  <2>2. reg.rx = NAK /\ reg.rx # VALID /\ reg.ctrRx /\ ~usb_force_nak /\ reg.tx # VALID
    BY <2>1, StatFacts DEF InOrder, Ear, Way
  <2>3. usb_fsm_state \in Receiving /\ memory.kind = "data" /\ ~reg.ctrTx
    BY <2>1, <2>2 DEF CalmOpen, Outs, Receiving, Unread
  <2>4. usb_req.req.what # "refused"
    BY DEF Plain, InOrder, Shape
  <2>5. \/ usb_fsm_state' \in Receiving /\ todo' = AckRxListen
        \/ usb_fsm_state' = "STATUS_IN"
    BY <1>6, <2>1, <2>2, <2>3, <2>4, OutOutcome DEF TypeInv, Types, Receiving
  <2>6. usb_fsm_state' \in Receiving => ~Unread'
    BY <2>5, Apart DEF Unread, AcksRx, Receiving
  <2> QED
    BY <1>1, <2>2, <2>3, <2>5, <2>6 DEF CalmOpen, Sending, Receiving
<1>7. CASE Send
  <2>1. todo = SendNow /\ todo # <<>>
    BY <1>7, SingleHeads DEF Send, At, TypeInv, Types
  <2>2. todo' = Arm /\ reg.tx # VALID /\ UNCHANGED <<usb_fsm_state, left>>
    BY <1>7, <2>1, PollHeads, JoinedRx DEF Send, Rest, Begins, CalmOpen
  <2>3. ToSend /\ ToSend' /\ todo \notin {<<>>, AckTxSend, AckTxListen} /\ ~Unread'
    BY <2>1, <2>2, Apart DEF ToSend, Listens, Unread
  <2> QED
    BY <1>1, <2>2, <2>3 DEF CalmOpen
<1>8. CASE ReadRegister
  <2>1. UNCHANGED <<todo, usb_fsm_state, left>>
    BY <1>8 DEF ReadRegister
  <2> QED
    BY <1>1, <2>1 DEF CalmOpen, ToSend, Unread
<1> QED
  BY <1>3, <1>4, <1>5, <1>6, <1>7, <1>8

(* The macros of an open transfer: none sets STALL, and what they set is     *)
(* what they mean to.                                                        *)
LEMMA CalmOpenWrites ==
  ASSUME TypeInv, InOrder, Linked, Plain, CalmOpen, WriteRegister
  PROVE  CalmOpen'
<1>1. /\ UNCHANGED <<host, usb_fsm_state, left, memory>>
      /\ todo' = Tail(todo) /\ ~old'.valid /\ old.valid /\ todo # <<>> /\ Types
  BY WriteDone DEF TypeInv, Done, Elsewhere
<1>2. usb_fsm_state \in FsmStates /\ Head(todo).m \in RegisterMacros /\ reg.tx # VALID
      /\ reg.tx # STALL /\ reg.rx # STALL /\ usb_fsm_state # "IDLE"
  BY <1>1 DEF Types, CalmOpen
<1>3. CASE todo \in AcksRx
  <2>1. Head(todo).m = "ctrRx"
    BY <1>3, AckHeads DEF Begins, AcksRx
  <2>2. ~reg'.ctrRx /\ (reg'.ctrTx <=> reg.ctrTx) /\ reg'.rx = reg.rx /\ reg'.tx = reg.tx
    BY <1>1, <2>1, WriteAck
  <2>3. usb_fsm_state \in Sending => todo = AckRxSend /\ todo' = SendNow
    <3>1. usb_fsm_state \in Sending => todo = AckRxSend
      BY <1>3, Apart, ApartAcks DEF InOrder, Shape, Work
    <3>2. Tail(AckRxSend) = SendNow
      BY AckHeads DEF Begins
    <3> QED
      BY <1>1, <3>1, <3>2
  <2>4. usb_fsm_state \in Sending => ToSend /\ ToSend'
    BY <2>3 DEF ToSend
  <2>5. todo \notin {<<>>, AckTxSend, AckTxListen} /\ ~Unread'
    BY <1>3, <2>2, Apart, ApartAcks DEF Listens, Unread
  <2> QED
    BY <1>1, <1>2, <2>2, <2>4, <2>5 DEF CalmOpen
<1>4. CASE todo \in {AckTxSend, AckTxListen}
  <2>1. Head(todo).m = "ctrTx" /\ todo' \in {SendNow, Listen}
    BY <1>1, <1>4, PollHeads DEF Begins
  <2>2. (reg'.ctrRx <=> reg.ctrRx) /\ ~reg'.ctrTx /\ reg'.rx = reg.rx /\ reg'.tx = reg.tx
    BY <1>1, <2>1, WriteAck
  <2>3. usb_fsm_state \in Sending => ToSend /\ ToSend'
    <3>1. usb_fsm_state \in Sending => todo = AckTxSend
      <4>1. AckTxListen \notin {<<>>, AckRxSend, SendNow, Arm, AckTxSend}
        BY Apart, ApartAcks DEF AcksRx, Listens
      <4>2. usb_fsm_state \in Sending => todo \in {<<>>, AckRxSend, SendNow, Arm, AckTxSend}
        BY DEF InOrder, Shape, Work
      <4> QED
        BY <1>4, <4>1, <4>2
    <3>2. Tail(AckTxSend) = SendNow
      BY PollHeads DEF Begins
    <3> QED
      BY <1>1, <3>1, <3>2 DEF ToSend
  <2>4. ~Unread'
    BY <2>1, Apart DEF Unread, Listens
  <2> QED
    BY <1>1, <1>2, <2>2, <2>3, <2>4 DEF CalmOpen
<1>5. CASE todo = Arm
  <2>1. todo' = <<>> /\ Head(todo).m = "tx" /\ Head(todo).s = VALID /\ ToSend
    BY <1>1, <1>5, PollHeads DEF Begins, ToSend
  <2>2. /\ reg'.ctrRx <=> reg.ctrRx
        /\ reg'.ctrTx <=> reg.ctrTx
        /\ reg'.rx = reg.rx /\ reg'.tx = Flip(reg.tx, Flip(old.tx, VALID))
    BY <1>1, <2>1, WriteTx
  <2>3. reg'.tx = VALID /\ VALID # STALL
    <3>1. old.tx = reg.tx /\ reg.tx \in Stats
      BY <1>1, <1>5 DEF InOrder, Way, Types, Register
    <3> QED
      BY <2>2, <3>1, FlipBack, StatFacts
  <2>4. usb_fsm_state \in Ins /\ todo \notin {<<>>, AckTxSend}
    BY <1>2, <1>5, Apart DEF InOrder, Shape, Work, Ins, FsmStates, Sending, Receiving, AcksRx,
       Listens
  <2> QED
    BY <1>1, <1>2, <2>1, <2>2, <2>3, <2>4 DEF CalmOpen, Ins, Sending, Receiving
<1>6. CASE todo \in {Listen, ListenSend}
  <2>1. Head(todo).m = "rx" /\ Head(todo).s = VALID /\ todo \in Listens
    BY <1>6, PollHeads DEF Begins, Listens
  <2>2. /\ reg'.ctrRx <=> reg.ctrRx
        /\ reg'.ctrTx <=> reg.ctrTx
        /\ reg'.tx = reg.tx /\ reg'.rx = Flip(reg.rx, Flip(old.rx, VALID))
    BY <1>1, <2>1, WriteRx
  <2>3. reg'.rx # STALL /\ ~reg.ctrRx
    <3>1. old.rx = NAK /\ reg.rx = NAK /\ ~reg.ctrRx
      BY <1>1, <1>6, <2>1 DEF InOrder, Ear
    <3> QED
      BY <2>2, <3>1, FlipBack, StatFacts
  <2>4. usb_fsm_state \notin Sending /\ todo # AckTxListen /\ ~Unread'
    <3>1. usb_fsm_state \notin Sending
      BY <2>1, Apart, ApartAcks DEF InOrder, Shape, Work, AcksRx
    <3>2. todo # AckTxListen
      BY <1>6, ApartListens
    <3> QED
      BY <2>2, <2>3, <3>1, <3>2 DEF Unread
  <2> QED
    BY <1>1, <1>2, <2>2, <2>3, <2>4 DEF CalmOpen
<1>7. CASE todo \in {Unhalt, Dtog}
  <2>1. usb_fsm_state = "STATUS_IN"
    <3>1. todo \in Listens /\ todo \notin {Listen, AckTxListen}
      BY <1>7, ApartListens DEF Listens
    <3> QED
      BY <1>2, <3>1, Apart, ApartAcks DEF InOrder, Shape, Work, FsmStates, AcksRx, Sending,
         Receiving, Listens
  <2>2. reg'.rx = reg.rx /\ reg'.tx \in {NAK, reg.tx} /\ (reg'.ctrTx => reg.ctrTx)
    <3>1. CASE todo = Unhalt
      <4>1. Head(todo).m = "tx" /\ Head(todo).s = NAK
        BY <3>1, PollHeads DEF Begins
      <4>2. /\ reg'.ctrTx <=> reg.ctrTx
            /\ reg'.rx = reg.rx /\ reg'.tx = Flip(reg.tx, Flip(old.tx, NAK))
        BY <1>1, <4>1, WriteTx
      <4>3. old.tx = reg.tx /\ reg.tx \in Stats
        BY <1>1, <3>1 DEF InOrder, Way, Types, Register
      <4> QED
        BY <4>2, <4>3, FlipBack, StatFacts
    <3>2. CASE todo = Dtog
      BY <1>1, <3>2, WriteDtog, PollHeads DEF Begins
    <3> QED
      BY <1>7, <3>1, <3>2
  <2> QED
    BY <1>1, <1>2, <2>1, <2>2, StatFacts DEF CalmOpen, Sending, Receiving
<1>8. todo \notin {Look, TakePacket, SendNow}
  BY <1>2, PollHeads DEF Begins, RegisterMacros
<1> QED
  BY <1>1, <1>2, <1>3, <1>4, <1>5, <1>6, <1>7, <1>8
     DEF InOrder, Shape, Work, FsmStates, Sending, Receiving, AcksRx

Settled == Sound /\ Calm

(* Every step keeps the third layer.                                         *)
LEMMA NextCalm ==
  ASSUME Eager \subseteq {"write"}, ~ResetAnywhere, Settled, [Next]_vars
  PROVE  Settled'
<1>1. Sound' /\ TypeInv /\ Orderly /\ Linked
  BY NextOrderly DEF Settled, Sound, Orderly
<1>2. host \in HostType
  BY <1>1 DEF TypeInv, Types
<1>3. CASE UNCHANGED vars
  <2>1. UNCHANGED <<reg, memory, host, pending, todo, usb_fsm_state, left>>
    BY <1>3 DEF vars, program
  <2>2. (CalmWait => CalmWait') /\ (CalmOpen => CalmOpen') /\ (Plain' <=> Plain)
    BY <2>1 DEF CalmWait, CalmOpen, Plain, ToSend, Unread
  <2>3. Calm'
    BY <2>1, <2>2 DEF Settled, Calm
  <2> QED
    BY <1>1, <2>3 DEF Settled
<1>4. CASE Poll
  <2>1. host' = host /\ (pending' = pending \/ pending' = FALSE)
    BY <1>4, PollKeeps
  <2>2. Plain' <=> Plain
    BY <2>1 DEF Plain
  <2>3. CASE ~Plain
    <3>1. Calm'
      BY <2>1, <2>2, <2>3 DEF Settled, Calm
    <3> QED
      BY <1>1, <3>1 DEF Settled
  <2>4. CASE Plain /\ pending
    <3>1. Attached /\ Waits /\ CalmWait
      BY <1>1, <2>4 DEF Plain, Attached, Orderly, Settled, Calm
    <3>2. IF TakeSetup THEN ~pending' ELSE pending'
      BY <1>1, <1>4, <2>4, <3>1, TakeSteps, WaitSteps
    <3>3. IF TakeSetup THEN CalmOpen' ELSE CalmWait'
      BY <1>1, <1>4, <2>4, <3>1, CalmWaitSteps
    <3>4. Calm'
      BY <2>1, <2>2, <2>4, <3>2, <3>3 DEF Calm, Plain
    <3> QED
      BY <1>1, <3>4 DEF Settled
  <2>5. CASE Plain /\ ~pending
    <3>1. Attached /\ InOrder /\ CalmOpen
      BY <1>1, <2>5 DEF Plain, Attached, Orderly, Settled, Calm
    <3>2. ~pending'
      BY <1>1, <1>4, <2>5, <3>1, OpenSteps
    <3>3. ~PollReset /\ ~TakeSetup /\ ~Place /\ ~Enable
      <4>1. ~resetFlag /\ todo \in PollLists \ {TakeIt}
        <5>1. usb_fsm_state \in FsmStates /\ Work
          BY <1>1, <3>1 DEF InOrder, Shape, TypeInv, Types
        <5>2. todo # TakeIt
          BY <5>1, Apart DEF Work, FsmStates, Sending, Receiving, AcksRx, Listens
        <5>3. todo \in PollLists
          BY <5>1 DEF Work, FsmStates, Sending, Receiving, PollLists, AcksRx, Listens
        <5> QED
          BY <1>1, <3>1, <5>2, <5>3 DEF Linked
      <4>2. todo # <<>> => Head(todo).m \notin {"txaddr", "rxaddr", "enable", "takeSetup"}
        BY <4>1, PollTails, SingleHeads
      <4> QED
        BY <4>1, <4>2 DEF PollReset, TakeSetup, Place, Enable, At
    <3>4. CalmOpen'
      BY <1>1, <1>4, <2>5, <3>1, <3>3, CalmOpenHandlers, CalmOpenWrites DEF Poll
    <3>5. Calm'
      BY <2>1, <2>2, <2>5, <3>2, <3>4 DEF Calm, Plain
    <3> QED
      BY <1>1, <3>5 DEF Settled
  <2> QED
    BY <2>3, <2>4, <2>5
<1>5. CASE HostSetup
  <2>1. /\ host'.ended = "no" /\ host'.calm = Quiet /\ pending' = TRUE
        /\ UNCHANGED todo
        /\ reg' = [reg EXCEPT !.ctrRx = TRUE, !.setup = TRUE, !.rx = NAK, !.tx = NAK]
    BY <1>5 DEF HostSetup, program
  <2>2. reg'.rx = NAK /\ reg'.tx = NAK /\ reg'.ctrTx = reg.ctrTx
    BY <1>1, <2>1 DEF TypeInv, Types, Register
  <2>3. host'.calm => CalmWait'
    BY <2>1, <2>2 DEF CalmWait, Quiet
  <2>4. Calm'
    BY <2>1, <2>3 DEF Calm, Plain
  <2> QED
    BY <1>1, <2>4 DEF Settled
<1>6. CASE HostIn
  <2>1. host.stage \in {"in", "statusIn"} /\ reg.tx = VALID /\ host.ended = "no" /\ Attached
    BY <1>1, <1>6 DEF HostIn, Linked, Attached
  <2>2. ~pending /\ ~pending' /\ InOrder
    <3>1. ~pending
      BY <1>1, <2>1, StatFacts DEF Orderly, Waits
    <3> QED
      BY <1>1, <1>6, <2>1, <3>1 DEF HostIn, Orderly
  <2>3. /\ reg' = [reg EXCEPT !.ctrTx = TRUE, !.tx = NAK]
        /\ UNCHANGED <<todo, usb_fsm_state, left, memory>>
        /\ host' = [host EXCEPT
                     !.left = IF host.stage = "statusIn" THEN host.left ELSE host.left - 1,
                     !.stage = IF host.stage = "statusIn" THEN "idle"
                               ELSE IF host.left = 1 THEN "statusOut" ELSE "in",
                     !.ended = IF host.stage = "statusIn" THEN "write" ELSE host.ended,
                     !.sound = host.sound /\ outgoing = host.serial]
    BY <1>6 DEF HostIn, program
  <2>4. /\ host'.req = host.req /\ host'.calm = host.calm
        /\ host'.ended = IF host.stage = "statusIn" THEN "write" ELSE "no"
        /\ host'.left = IF host.stage = "statusIn" THEN host.left ELSE host.left - 1
    BY <1>2, <2>1, <2>3 DEF HostType
  <2>5. reg'.tx = NAK /\ reg'.rx = reg.rx
    BY <1>1, <2>3 DEF TypeInv, Types, Register
  <2>6. ASSUME Plain' PROVE CalmOpen'
    <3>1. host.stage = "in" /\ Plain /\ CalmOpen
      BY <2>1, <2>2, <2>4, <2>6 DEF Plain, Settled, Calm
    <3>2. usb_fsm_state \in Sending /\ todo = <<>>
      BY <1>1, <2>1, <2>2, <3>1, StatFacts DEF CalmOpen, InOrder, Way, Tally, TypeInv, Types,
         FsmStates, Sending, Receiving
    <3>3. ~ToSend'
      BY <2>3, <3>2, Apart DEF ToSend, AcksRx
    <3>4. host'.left = left' /\ host.left = left + 1
      BY <1>1, <2>1, <2>3, <2>4, <3>1, <3>2 DEF CalmOpen, TypeInv, Types
    <3> QED
      BY <2>3, <2>5, <3>1, <3>2, <3>3, <3>4, StatFacts DEF CalmOpen, Sending, Receiving
  <2>7. Calm'
    BY <2>2, <2>4, <2>6 DEF Calm
  <2> QED
    BY <1>1, <2>7 DEF Settled
<1>7. CASE HostOut
  <2>1. host.stage \in {"out", "statusOut"} /\ reg.rx = VALID /\ host.ended = "no" /\ Attached
    BY <1>1, <1>7 DEF HostOut, Linked, Attached
  <2>2. ~pending /\ ~pending' /\ InOrder
    <3>1. ~pending
      BY <1>1, <2>1 DEF Orderly, Waits
    <3> QED
      BY <1>1, <1>7, <2>1, <3>1 DEF HostOut, Orderly
  <2>3. /\ reg' = [reg EXCEPT !.ctrRx = TRUE, !.setup = FALSE, !.rx = NAK]
        /\ UNCHANGED <<todo, usb_fsm_state, left>>
        /\ memory' = [kind |-> IF host.stage = "out" THEN "data" ELSE "status",
                      req |-> NoRequest, serial |-> host.serial]
        /\ host' = [host EXCEPT
                     !.left = IF host.stage = "statusOut" THEN host.left ELSE host.left - 1,
                     !.stage = IF host.stage = "statusOut" THEN "idle"
                               ELSE IF host.left = 1 THEN "statusIn" ELSE "out",
                     !.ended = IF host.stage = "statusOut" THEN "read" ELSE host.ended]
    BY <1>7 DEF HostOut, program
  <2>4. /\ host'.req = host.req /\ host'.calm = host.calm
        /\ host'.ended = IF host.stage = "statusOut" THEN "read" ELSE "no"
    BY <1>2, <2>1, <2>3 DEF HostType
  <2>5. reg'.rx = NAK /\ reg'.tx = reg.tx /\ reg'.ctrTx = reg.ctrTx
    BY <1>1, <2>3 DEF TypeInv, Types, Register
  <2>6. ASSUME Plain' PROVE CalmOpen'
    <3>1. host.stage = "out" /\ Plain /\ CalmOpen /\ memory'.kind = "data"
      BY <2>1, <2>2, <2>3, <2>4, <2>6 DEF Plain, Settled, Calm
    <3>2. usb_fsm_state \in Receiving
      BY <1>1, <2>1, <2>2, <3>1, StatFacts DEF CalmOpen, InOrder, Tally, TypeInv, Types, FsmStates,
         Sending, Receiving
    <3> QED
      BY <2>3, <2>5, <3>1, <3>2, StatFacts DEF CalmOpen, Sending, Receiving
  <2>7. Calm'
    BY <2>2, <2>4, <2>6 DEF Calm
  <2> QED
    BY <1>1, <2>7 DEF Settled
<1>8. CASE HostSeesStall
  <2>1. host' = Ends("stall") /\ enabled
    BY <1>8 DEF HostSeesStall
  <2>2. /\ host'.ended = "stall" /\ host'.calm = host.calm /\ host'.req = host.req
    BY <1>2, <2>1 DEF Ends, HostType
  <2>3. ~Plain
    BY <1>8, StatFacts DEF HostSeesStall, Settled, Calm, CalmWait, CalmOpen
  <2>4. host.ended = "no"
    BY <1>1, <1>8 DEF HostSeesStall, Linked
  <2>5. Calm'
    BY <2>2, <2>3, <2>4 DEF Calm, Plain
  <2> QED
    BY <1>1, <2>5 DEF Settled
<1>9. CASE HostGivesUp \/ BusReset
  <2>1. host' = Ends("given up") \/ host' = Ends("reset")
    BY <1>9 DEF HostGivesUp, BusReset
  <2>2. host'.ended \in {"given up", "reset"}
    BY <1>2, <2>1 DEF Ends, HostType
  <2>3. Calm'
    BY <2>2 DEF Calm, Plain
  <2> QED
    BY <1>1, <2>3 DEF Settled
<1> QED
  BY <1>3, <1>4, <1>5, <1>6, <1>7, <1>8, <1>9 DEF Next, HostProgress

(* StallMeansRefused: a transfer that began with the device at rest ends     *)
(* with a STALL only if its request is refused, whatever was given up before *)
(* and in whatever state that left the status bits (usb.cpp:313-368,         *)
(* 376-460).                                                                 *)
THEOREM OnlyRefusedStalls ==
  ASSUME Eager \subseteq {"write"}, ~ResetAnywhere PROVE Spec => []StallMeansRefused
<1>1. Init => Settled
  <2> SUFFICES ASSUME Init PROVE Settled
    OBVIOUS
  <2>1. host.sound /\ host.ended = "off" /\ host.stage = "idle" /\ ~pending
    BY DEF Init
  <2> QED
    BY <2>1, InitTypes DEF Settled, Calm, Plain, Sound, Orderly, Linked, Attached
<1>2. Settled /\ [Next]_vars => Settled'
  BY NextCalm
<1>3. Settled => StallMeansRefused
  BY DEF Settled, Calm, StallMeansRefused
<1> QED
  BY <1>1, <1>2, <1>3, PTL DEF Spec
=============================================================================
