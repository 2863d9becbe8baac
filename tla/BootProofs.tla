----------------------------- MODULE BootProofs -----------------------------
(***************************************************************************)
(* Proofs about Boot for every layout of the flash, every set of headers   *)
(* and everything that stage 2 and the application may leave behind.       *)
(***************************************************************************)
EXTENDS Boot, TLAPS

-----------------------------------------------------------------------------
(* What main reads.                                                          *)

(* The stack pointer read is a truth value, the size a number.               *)
LEMMA ReadTypes ==
  /\ \A sp \in SigValues(flash) : sp \in BOOLEAN
  /\ \A size \in SizeValues(flash) : size \in Nat
<1>1. \A sp \in SigValues(flash) : sp \in BOOLEAN
  BY BootAssumption DEF SigValues, WordValues
<1>2. \A n \in 0 .. SizeLimit : n \in Nat
  BY BootAssumption
<1>3. SizeLimit \in Nat /\ \A p \in DOMAIN HeaderOf : HeaderOf[p].size \in Nat
  BY BootAssumption
<1>4. ASSUME NEW size \in SizeValues(flash)
      PROVE  \/ size \in 0 .. SizeLimit \/ size = SizeLimit
             \/ \E p \in DOMAIN HeaderOf : size = HeaderOf[p].size
  BY DEF SizeValues, WordValues
<1> QED
  BY <1>1, <1>2, <1>3, <1>4

(* main goes to the application, to stage 2 or to the fault handler.         *)
LEMMA VerdictIsStage ==
  ASSUME NEW f, NEW forced \in BOOLEAN, NEW sp \in BOOLEAN, NEW size \in Nat, NEW sum
  PROVE  Verdict(f, forced, sp, size, sum) \in {"stage2", "app", "hang"}
<1>1. SizeLimit \in Nat
  BY BootAssumption
<1>2. CASE forced \/ ~sp
  BY <1>2 DEF Verdict
<1>3. CASE ~forced /\ sp /\ size >= SizeLimit
  BY <1>3 DEF Verdict
<1>4. CASE ~forced /\ sp /\ size < SizeLimit
  BY <1>1, <1>4 DEF Verdict
<1> QED
  BY <1>1, <1>2, <1>3, <1>4

(* The first word of two headers tells the images apart: a header word that  *)
(* is whole belongs to one payload.                                          *)
LEMMA WordHasOneOwner ==
  ASSUME NEW f, NEW k \in 0 .. 3, NEW p \in DOMAIN HeaderOf, NEW q \in DOMAIN HeaderOf,
         WordOf(f, k, p), WordOf(f, k, q)
  PROVE  p = q
<1>1. WordSize \in Nat /\ WordSize > 0 /\ start_addr \in Int
  BY BootAssumption, LayoutAssumption DEF start_addr
<1> DEFINE x == start_addr + k * WordSize
<1>2. k * WordSize \in Nat /\ k * WordSize < 4 * WordSize /\ (k + 1) * WordSize > k * WordSize
  BY <1>1
<1>3. x \in WordAddr(k) /\ x - start_addr \in 0 .. (HeaderSize - 1)
  BY <1>1, <1>2 DEF WordAddr, HeaderSize
<1>4. f[x] = IF p = Old THEN Old ELSE Byte(p, x - start_addr)
  BY <1>3 DEF WordOf
<1>5. f[x] = IF q = Old THEN Old ELSE Byte(q, x - start_addr)
  BY <1>3 DEF WordOf
<1>6. Byte(p, x - start_addr) # Old /\ Byte(q, x - start_addr) # Old
  BY <1>3, BootAssumption
<1>7. Byte(p, x - start_addr) = Byte(q, x - start_addr) => p = q
  BY DEF Byte
<1> QED
  BY <1>4, <1>5, <1>6, <1>7

(* A word that belongs to a payload is not blank.                            *)
LEMMA WordNotBlank ==
  ASSUME NEW f, NEW k \in 0 .. 3, NEW p \in DOMAIN HeaderOf, WordOf(f, k, p)
  PROVE  ~WordBlank(f, k)
<1>1. WordSize \in Nat /\ WordSize > 0 /\ start_addr \in Int
  BY BootAssumption, LayoutAssumption DEF start_addr
<1> DEFINE x == start_addr + k * WordSize
<1>2. k * WordSize \in Nat /\ k * WordSize < 4 * WordSize /\ (k + 1) * WordSize > k * WordSize
  BY <1>1
<1>3. x \in WordAddr(k) /\ x - start_addr \in 0 .. (HeaderSize - 1)
  BY <1>1, <1>2 DEF WordAddr, HeaderSize
<1>4. f[x] = IF p = Old THEN Old ELSE Byte(p, x - start_addr)
  BY <1>3 DEF WordOf
<1>5. Old # Blank /\ Byte(p, x - start_addr) # Blank
  BY <1>3, BootAssumption, CellAssumption
<1> QED
  BY <1>3, <1>4, <1>5 DEF WordBlank

(* Where the header is payload p's, main reads what p's header says.         *)
LEMMA HeaderRead ==
  ASSUME NEW p \in DOMAIN HeaderOf, \A k \in 0 .. 3 : WordOf(flash, k, p)
  PROVE  /\ SigValues(flash) = {HeaderOf[p].sp}
         /\ SizeValues(flash) = {HeaderOf[p].size}
         /\ SumValues(flash) = {HeaderOf[p].sum}
<1>1. ASSUME NEW k \in 0 .. 3
      PROVE  /\ ~WordDamaged(flash, k) /\ ~WordBlank(flash, k)
             /\ {q \in DOMAIN HeaderOf : WordOf(flash, k, q)} = {p}
  BY WordHasOneOwner, WordNotBlank DEF WordDamaged
<1>2. ASSUME NEW field
      PROVE  {HeaderOf[r][field] : r \in {p}} = {HeaderOf[p][field]}
  OBVIOUS
<1>3. SigValues(flash) = {HeaderOf[r]["sp"] : r \in {p}}
  <2>1. /\ ~WordDamaged(flash, 0) /\ ~WordBlank(flash, 0)
        /\ {q \in DOMAIN HeaderOf : WordOf(flash, 0, q)} = {p}
    BY <1>1
  <2> QED
    BY <2>1, Zenon DEF SigValues, WordValues
<1>4. SizeValues(flash) = {HeaderOf[r]["size"] : r \in {p}}
  <2>1. /\ ~WordDamaged(flash, 2) /\ ~WordBlank(flash, 2)
        /\ {q \in DOMAIN HeaderOf : WordOf(flash, 2, q)} = {p}
    BY <1>1
  <2> QED
    BY <2>1, Zenon DEF SizeValues, WordValues
<1>5. SumValues(flash) = {HeaderOf[r]["sum"] : r \in {p}}
  <2>1. /\ ~WordDamaged(flash, 3) /\ ~WordBlank(flash, 3)
        /\ {q \in DOMAIN HeaderOf : WordOf(flash, 3, q)} = {p}
    BY <1>1
  <2> QED
    BY <2>1, Zenon DEF SumValues, WordValues
<1> QED
  BY <1>2, <1>3, <1>4, <1>5

(* Whole words never cover more than the bytes they are made from.           *)
LEMMA CrcLenBound ==
  ASSUME NEW size \in Nat
  PROVE  CrcLen(size) \in Nat /\ CrcLen(size) <= size
<1>1. WordSize \in Nat /\ WordSize > 0
  BY BootAssumption
<1>2. size \div WordSize \in Nat /\ size = WordSize * (size \div WordSize) + (size % WordSize)
      /\ size % WordSize >= 0
  BY <1>1, SMTT(30)
<1> QED
  BY <1>1, <1>2 DEF CrcLen

-----------------------------------------------------------------------------
(* The inductive invariant: the magic value reaches main only when the       *)
(* application has put it there, since a power-up, an application that is    *)
(* reset and stage 2 all leave something else.                               *)
MarkerIsMeant == ram0 = "magic" => requested
BootInv == BootTypeOK /\ MarkerIsMeant

LEMMA InitBootInv == BootInit => BootInv
BY BootAssumption DEF BootInit, BootInv, BootTypeOK, MarkerIsMeant, RamContents, Stages

LEMMA MainBootInv == BootInv /\ Main => BootInv'
<1> SUFFICES ASSUME BootInv, Main PROVE BootInv'
  OBVIOUS
<1>1. stage' \in {"stage2", "app", "hang"} /\ checked' \in BOOLEAN
  <2>1. PICK sp \in SigValues(flash), size \in SizeValues(flash), sum \in SumValues(flash) :
          LET verdict == Verdict(flash, Forced, sp, size, sum)
          IN /\ IF verdict = "hang" THEN DeadEnd ELSE ChainTo(verdict)
             /\ checked' = (verdict = "app" /\ ~Unhashed(size, sum) /\ CrcLen(size) > 0)
    BY Zenon DEF Main
  <2>2. Forced \in BOOLEAN
    BY DEF Forced, BootInv, BootTypeOK
  <2>3. Verdict(flash, Forced, sp, size, sum) \in {"stage2", "app", "hang"}
    BY <2>2, VerdictIsStage, ReadTypes
  <2> QED
    BY <2>1, <2>3 DEF DeadEnd, ChainTo
<1>2. flash' = flash /\ button' = button
      /\ requested' = IF stage' = "stage2" THEN FALSE ELSE requested
  BY DEF Main
<1>3. ram0' = CASE stage' = "stage2" -> "program" [] stage' = "app" -> "zero"
                [] stage' = "hang" -> ram0
  BY DEF Main, MarkerAfter
<1>4. CASE stage' = "stage2"
  BY <1>1, <1>2, <1>3, <1>4 DEF BootInv, BootTypeOK, MarkerIsMeant, RamContents, Stages
<1>5. CASE stage' = "app"
  BY <1>1, <1>2, <1>3, <1>5 DEF BootInv, BootTypeOK, MarkerIsMeant, RamContents, Stages
<1>6. CASE stage' = "hang"
  BY <1>1, <1>2, <1>3, <1>6 DEF BootInv, BootTypeOK, MarkerIsMeant, RamContents, Stages
<1> QED
  BY <1>1, <1>4, <1>5, <1>6

LEMMA NextBootInv == BootInv /\ [BootNext]_bootVars => BootInv'
<1> SUFFICES ASSUME BootInv, [BootNext]_bootVars PROVE BootInv'
  OBVIOUS
<1> USE DEF BootInv, BootTypeOK, MarkerIsMeant, RamContents, Stages
<1>1. CASE StartC  BY <1>1 DEF StartC
<1>2. CASE Main  BY <1>2, MainBootInv
<1>3. CASE AppRequestsDfu  BY <1>3 DEF AppRequestsDfu
<1>4. CASE AppResets  BY <1>4 DEF AppResets
<1>5. CASE Button  BY <1>5 DEF Button
<1>6. CASE PowerCycle  BY <1>6 DEF PowerCycle, SupplyReturns
<1>7. CASE LeaveStage2 /\ flash' \in Contents
  BY <1>7, BootAssumption DEF LeaveStage2
<1>8. CASE UNCHANGED bootVars  BY <1>8 DEF bootVars
<1> QED
  BY <1>1, <1>2, <1>3, <1>4, <1>5, <1>6, <1>7, <1>8 DEF BootNext

(* Every behaviour of stage 1 keeps the invariant (main.cpp:48-65).          *)
THEOREM BootInvariance == BootSpec => []BootInv
<1>1. BootInit => BootInv
  BY InitBootInv
<1>2. BootInv /\ [BootNext]_bootVars => BootInv'
  BY NextBootInv
<1> QED
  BY <1>1, <1>2, PTL DEF BootSpec

(* The boot variables keep their types, whatever is in the flash.            *)
THEOREM BootTypeCorrect == BootSpec => []BootTypeOK
<1>1. BootInv => BootTypeOK
  BY DEF BootInv
<1> QED
  BY <1>1, BootInvariance, PTL

-----------------------------------------------------------------------------
(* The decision.                                                             *)

(* A bootable image, not forced, is never refused: its header is read as it  *)
(* is, and its checksum covers bytes of the flash only (main.cpp:140-161).   *)
LEMMA BootableIsStarted ==
  ASSUME Bootable, stage = "main", ram0 # "magic", button = FALSE, Main
  PROVE  stage' = "app"
<1>1. PICK p \in DOMAIN HeaderOf :
        HeaderOf[p].sp /\ HeaderOf[p].size < SizeLimit /\ Holds(p)
  BY DEF Bootable
<1> DEFINE size == HeaderOf[p].size
           sum == HeaderOf[p].sum
<1>2. /\ SigValues(flash) = {HeaderOf[p].sp}
      /\ SizeValues(flash) = {size}
      /\ SumValues(flash) = {sum}
  BY <1>1, HeaderRead DEF Holds
<1>3. LET verdict == Verdict(flash, FALSE, TRUE, size, sum)
      IN IF verdict = "hang" THEN DeadEnd ELSE ChainTo(verdict)
  <2>1. HeaderOf[p].sp = TRUE
    BY <1>1, BootAssumption
  <2>2. Forced = FALSE
    BY DEF Forced
  <2> QED
    BY <1>2, <2>1, <2>2 DEF Main
<1>4. size \in Nat /\ SizeLimit \in Nat /\ size < SizeLimit
  BY <1>1, BootAssumption
<1>5. Verdict(flash, FALSE, TRUE, size, sum) =
        IF Unhashed(size, sum) THEN "app"
        ELSE IF CrcFaults(size) THEN "hang"
        ELSE IF Crc(flash, size) = sum THEN "app" ELSE "stage2"
  BY <1>4 DEF Verdict
<1>6. CASE Unhashed(size, sum)
  BY <1>3, <1>5, <1>6 DEF ChainTo
<1>7. CASE ~Unhashed(size, sum)
  <2>1. CrcFrom + size <= end_addr /\ Crc(flash, size) = sum
    BY <1>1, <1>7 DEF Holds
  <2>2. CrcFrom \in Int /\ end_addr \in Int
    BY BootAssumption, LayoutAssumption DEF CrcFrom, HeaderSize, start_addr, end_addr
  <2>3. ~CrcFaults(size)
    BY <1>4, <2>1, <2>2, CrcLenBound DEF CrcFaults
  <2> QED
    BY <1>3, <1>5, <1>7, <2>1, <2>3 DEF ChainTo
<1> QED
  BY <1>6, <1>7

(* Stage 2 has a reason: a button, a request of the application, or no image *)
(* that can be booted (main.cpp:140-161).                                    *)
THEOREM DfuOnlyWithReason == BootSpec => DfuHasReason
<1>1. BootInv /\ [BootNext]_bootVars
        => (stage = "main" /\ stage' = "stage2" /\ ~button /\ ~requested => ~Bootable)
  <2> SUFFICES ASSUME BootInv, [BootNext]_bootVars, stage = "main", stage' = "stage2",
                      ~button, ~requested, Bootable
               PROVE  FALSE
    OBVIOUS
  <2>1. ram0 # "magic" /\ button = FALSE
    BY DEF BootInv, BootTypeOK, MarkerIsMeant
  <2>2. Main
    BY DEF BootNext, StartC, AppRequestsDfu, AppResets, Button, PowerCycle, SupplyReturns,
           LeaveStage2, bootVars
  <2> QED
    BY <2>1, <2>2, BootableIsStarted
<1> QED
  BY <1>1, BootInvariance, PTL DEF BootSpec, DfuHasReason
=============================================================================
