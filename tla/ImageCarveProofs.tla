-------------------------- MODULE ImageCarveProofs --------------------------
(***************************************************************************)
(* Proofs about ImageCarve for images, windows, overlaps and caps of any   *)
(* size.                                                                   *)
(***************************************************************************)
EXTENDS ImageCarve, TLAPS

\* Windows advance, and overlap by at least one signature, whatever sizes the
\* caller asks for.
LEMMA WindowFacts ==
    /\ Window \in Nat /\ Window >= 2 * Magic
    /\ Overlap \in Nat /\ Overlap >= Magic
    /\ Step \in Nat /\ Step >= 1
    /\ Step + Overlap = Window
<1>1. Window \in Nat /\ Window >= 2 * Magic
  BY SizesAssumption DEF Window, Higher
<1>2. Window \div 2 \in Nat /\ 2 * (Window \div 2) <= Window /\ Magic <= Window \div 2
  BY <1>1, SizesAssumption
<1>3. Overlap \in Nat /\ Overlap >= Magic /\ Overlap <= Window \div 2
  BY <1>1, <1>2, SizesAssumption DEF Overlap, Higher, Lower
<1>4. Window - Overlap >= 1 /\ Window - Overlap \in Nat
  BY <1>1, <1>2, <1>3, SizesAssumption
<1>5. Step = Window - Overlap
  BY <1>4 DEF Step, Higher
<1> QED BY <1>1, <1>3, <1>4, <1>5

LEMMA InitIInv == Init => IInv
<1> SUFFICES ASSUME Init
             PROVE  IInv
  OBVIOUS
<1>1. TypeOK
  BY DEF Init, TypeOK
<1>2. Behind
  <2>1. \A m \in sqlite : m \in Nat /\ m + Magic <= Length
    BY <1>1, SizesAssumption DEF TypeOK, Starts
  <2>2. Length = 0 => sqlite = {}
    BY <2>1, SizesAssumption
  <2>3. \A m \in sqlite : ~(m < 0)
    BY <2>1
  <2> QED BY <2>2, <2>3 DEF Init, Behind
<1>3. Counted
  BY CapsAssumption DEF Init, Counted
<1>4. Inside
  BY SizesAssumption DEF Init, Inside
<1> QED BY <1>1, <1>2, <1>3, <1>4 DEF IInv

LEMMA StepIInv ==
    ASSUME IInv, [Next]_vars
    PROVE  IInv'
<1> USE DEF vars, image, results
<1>0. TypeOK /\ Behind /\ Counted /\ Inside
  BY DEF IInv
<1>1. \A m \in sqlite : m \in Nat /\ m + Magic <= Length /\ m \in Starts
  BY <1>0 DEF TypeOK, Starts
<1>2. CASE ReadWindow
  <2>1. CASE base <= Length
    <3>1. PICK want : want = Lower(Length - base, Window)
      OBVIOUS
    <3>2. want \in Nat /\ want <= Length - base /\ want <= Window
          /\ (want = Length - base \/ want = Window)
      BY <1>0, <2>1, <3>1, WindowFacts, SizesAssumption DEF TypeOK, Lower
    <3>3. /\ n' \in 0..want /\ (reads = "deliver" => n' = want)
          /\ todo' = HitsIn(base, n')
          /\ lost' = lost \cup (HitsIn(base, want) \ HitsIn(base, n'))
          /\ pc' = "scan" /\ base' = base
          /\ UNCHANGED <<sqlite, reads, build, seen, carves, artifacts, carved>>
      BY <1>2, <2>1, <3>1, <3>2 DEF ReadWindow, Fills
    <3>4. TypeOK'
      BY <1>0, <3>2, <3>3 DEF TypeOK, HitsIn
    <3>5. HitsIn(base, want) \subseteq Handled'
      BY <3>3 DEF Handled
    <3>6. Behind'
      <4>1. ASSUME NEW m \in sqlite, m < base + Step \/ base + n' >= Length
            PROVE  m \in Handled'
        <5>1. CASE m < base
          <6>1. m \in Handled /\ todo = {}
            BY <1>0, <1>2, <5>1 DEF Behind, Counted, ReadWindow
          <6> QED BY <3>3, <6>1 DEF Handled
        <5>2. CASE base <= m
          <6>1. m + Magic <= base + want
            <7>1. m + Magic <= Length
              BY <1>1
            <7>2. CASE want = Length - base
              BY <1>0, <1>1, <7>1, <7>2, SizesAssumption DEF TypeOK
            <7>3. CASE want = Window /\ m < base + Step
              BY <1>0, <1>1, <7>3, WindowFacts, SizesAssumption DEF TypeOK
            <7>4. CASE base + n' >= Length
              <8>1. PICK got \in Nat : n' = got /\ got <= want
                BY <3>2, <3>3
              <8>2. base \in Nat /\ m \in Nat /\ base + got >= Length
                BY <1>0, <1>1, <7>4, <8>1 DEF TypeOK
              <8>3. base + got <= base + want
                BY <3>2, <8>1, <8>2
              <8>4. base + want >= Length
                BY <3>2, <8>1, <8>2, <8>3, SizesAssumption
              <8> QED BY <3>2, <7>1, <8>2, <8>4, SizesAssumption
            <7> QED BY <3>2, <4>1, <7>2, <7>3, <7>4
          <6> QED BY <3>5, <5>2, <6>1 DEF HitsIn
        <5> QED BY <1>0, <1>1, <5>1, <5>2 DEF TypeOK
      <4> QED BY <3>3, <4>1 DEF Behind, Step, Overlap
    <3>7. Counted'
      BY <1>0, <1>2, <3>3 DEF Counted, ReadWindow
    <3>8. Inside'
      BY <1>0, <2>1, <3>1, <3>3 DEF Inside
    <3> QED BY <3>4, <3>6, <3>7, <3>8 DEF IInv
  <2>2. CASE ~(base <= Length)
    <3>1. /\ pc' \in {"overflow", "scan"} /\ n' = 0 /\ todo' = {} /\ lost' = lost
          /\ UNCHANGED <<sqlite, reads, build, base, seen, carves, artifacts, carved>>
      BY <1>2, <2>2 DEF ReadWindow
    <3>2. TypeOK'
      BY <1>0, <3>1 DEF TypeOK
    <3>3. sqlite \subseteq Handled'
      <4>1. \A m \in sqlite : m < base
        BY <1>0, <1>1, <2>2, SizesAssumption DEF TypeOK
      <4>2. \A m \in sqlite : m \in seen \cup lost
        BY <1>0, <1>2, <4>1 DEF Behind, Handled, Counted, ReadWindow
      <4> QED BY <3>1, <4>2 DEF Handled
    <3>4. Behind'
      BY <3>1, <3>3 DEF Behind, Handled
    <3>5. Counted'
      BY <1>0, <1>2, <3>1 DEF Counted, ReadWindow
    <3>6. Inside'
      BY <1>0, <2>2, <3>1 DEF Inside
    <3> QED BY <3>2, <3>4, <3>5, <3>6 DEF IInv
  <2> QED BY <2>1, <2>2
<1>3. CASE CarveHit
  <2>1. PICK m \in todo :
           /\ todo' = todo \ {m} /\ seen' = seen \cup {m}
           /\ IF m \notin seen /\ carves < MaxCarves
              THEN /\ CarveAt(m)
                   /\ pc' = IF artifacts' >= MaxArtifacts THEN "done" ELSE pc
              ELSE UNCHANGED <<pc, carves, artifacts, carved>>
    BY <1>3 DEF CarveHit
  <2>2. m \in Starts /\ m \in sqlite /\ pc = "scan"
        /\ UNCHANGED <<sqlite, reads, build, base, n, lost>>
    BY <1>0, <1>1, <1>3, <2>1 DEF TypeOK, CarveHit
  <2>3. Handled' = Handled
    BY <2>1, <2>2 DEF Handled
  <2>4. artifacts < MaxArtifacts
    BY <1>0, <2>2 DEF Counted
  <2>5. CASE m \notin seen /\ carves < MaxCarves
    <3>1. PICK records \in 0..MaxPerDb : artifacts' = artifacts + records
      BY <2>1, <2>5 DEF CarveAt
    <3>2. /\ carved' = [carved EXCEPT ![m] = @ + 1] /\ carves' = carves + 1
          /\ pc' = IF artifacts' >= MaxArtifacts THEN "done" ELSE pc
      BY <2>1, <2>5 DEF CarveAt
    <3>3. TypeOK'
      BY <1>0, <2>1, <2>2, <3>1, <3>2, CapsAssumption DEF TypeOK
    <3>4. carved[m] \in Nat /\ carved[m] <= 1 /\ carved[m] # 1
      BY <1>0, <2>2, <2>5 DEF TypeOK, Counted
    <3>5. carved[m] = 0 /\ carved'[m] = 1 /\ \A k \in Starts : k # m => carved'[k] = carved[k]
      BY <1>0, <2>2, <3>2, <3>4 DEF TypeOK
    <3>6. Counted'
      <4>1. \A k \in Starts : carved'[k] <= 1 /\ (carved'[k] = 1 => k \in seen')
        BY <1>0, <2>1, <2>2, <3>5 DEF TypeOK, Counted
      <4>2. \A k \in seen' : carved'[k] = 1
        BY <1>0, <1>1, <2>1, <2>2, <2>5, <3>5 DEF TypeOK, Counted
      <4>3. carves' <= MaxCarves
        BY <1>0, <2>5, <3>2, CapsAssumption DEF TypeOK
      <4>4. artifacts' <= MaxArtifacts + MaxPerDb
        BY <1>0, <2>4, <3>1, CapsAssumption DEF TypeOK
      <4>5. pc' # "done" => artifacts' < MaxArtifacts
        BY <2>2, <3>2, <3>3, CapsAssumption DEF TypeOK
      <4> QED BY <4>1, <4>2, <4>3, <4>4, <4>5 DEF Counted
    <3>7. Behind'
      <4>1. CASE artifacts' >= MaxArtifacts
        BY <3>2, <3>3, <4>1, CapsAssumption DEF Behind, TypeOK
      <4>2. CASE ~(artifacts' >= MaxArtifacts)
        BY <1>0, <2>2, <2>3, <3>2, <4>2 DEF Behind
      <4> QED BY <4>1, <4>2
    <3>8. Inside'
      BY <1>0, <2>2, <3>2 DEF Inside
    <3> QED BY <3>3, <3>6, <3>7, <3>8 DEF IInv
  <2>6. CASE ~(m \notin seen /\ carves < MaxCarves)
    <3>1. UNCHANGED <<pc, carves, artifacts, carved>>
      BY <2>1, <2>6
    <3>2. TypeOK'
      BY <1>0, <2>1, <2>2, <3>1 DEF TypeOK
    <3>3. Counted'
      BY <1>0, <2>1, <2>2, <2>6, <3>1 DEF Counted
    <3>4. Behind'
      BY <1>0, <2>2, <2>3, <3>1 DEF Behind
    <3>5. Inside'
      BY <1>0, <2>2, <3>1 DEF Inside
    <3> QED BY <3>2, <3>3, <3>4, <3>5 DEF IInv
  <2> QED BY <2>5, <2>6
<1>4. CASE NextWindow
  <2>1. pc = "scan" /\ todo = {} /\ artifacts < MaxArtifacts
        /\ UNCHANGED <<sqlite, reads, build, n, todo, seen, carves, artifacts, carved, lost>>
    BY <1>0, <1>4 DEF NextWindow, Counted
  <2>2. CASE base + n >= Length
    <3>1. pc' = "done" /\ base' = base
      BY <1>4, <2>2 DEF NextWindow
    <3>2. TypeOK'
      BY <1>0, <2>1, <3>1 DEF TypeOK
    <3>3. Behind'
      BY <1>0, <2>1, <2>2, <3>1 DEF Behind, Handled
    <3>4. Counted' /\ Inside'
      BY <1>0, <2>1, <3>1 DEF Counted, Inside
    <3> QED BY <3>2, <3>3, <3>4 DEF IInv
  <2>3. CASE ~(base + n >= Length)
    <3>1. pc' = "read" /\ base' = base + Step
      BY <1>4, <2>3 DEF NextWindow
    <3>2. TypeOK'
      BY <1>0, <2>1, <3>1, WindowFacts DEF TypeOK
    <3>3. Behind'
      BY <1>0, <2>1, <3>1 DEF Behind, Handled
    <3>4. Counted'
      BY <1>0, <2>1, <3>1 DEF Counted
    <3>5. Inside'
      <4> SUFFICES ASSUME reads = "deliver"
                   PROVE  base' <= Length
        BY <2>1, <3>1 DEF Inside
      <4>1. n = Lower(Length - base, Window) /\ base <= Length
        BY <1>0, <2>1 DEF Inside
      <4>2. n = Window
        BY <1>0, <2>3, <4>1, WindowFacts, SizesAssumption DEF TypeOK, Lower
      <4> QED BY <1>0, <2>3, <3>1, <4>2, WindowFacts, SizesAssumption DEF TypeOK
    <3> QED BY <3>2, <3>3, <3>4, <3>5 DEF IInv
  <2> QED BY <2>2, <2>3
<1>5. CASE UNCHANGED vars
  <2>1. TypeOK' /\ Counted' /\ Inside'
    BY <1>0, <1>5 DEF TypeOK, Counted, Inside
  <2>2. Behind'
    BY <1>0, <1>5 DEF Behind, Handled
  <2> QED BY <2>1, <2>2 DEF IInv
<1> QED BY <1>2, <1>3, <1>4, <1>5 DEF Next

\* Whatever a read gives, each signature before the window is seen, lost or still to do.
THEOREM IInvInvariant == Spec => []IInv
<1>1. Init => IInv
  BY InitIInv
<1>2. IInv /\ [Next]_vars => IInv'
  BY StepIInv
<1> QED BY <1>1, <1>2, PTL DEF Spec

\* The windows of carve_image_with cover the image: no signature is missed
\* but in the unread end of a window, and none is carved twice.
THEOREM ScanIsComplete == Spec => []EverySignatureCarvedOnce
<1>1. IInv => EverySignatureCarvedOnce
  <2> SUFFICES ASSUME IInv
               PROVE  EverySignatureCarvedOnce
    OBVIOUS
  <2>1. \A m \in sqlite : carved[m] <= 1
    BY DEF IInv, TypeOK, Counted
  <2>2. ASSUME pc = "done", artifacts < MaxArtifacts, carves < MaxCarves,
               NEW m \in sqlite
        PROVE  carved[m] = 1 \/ m \in lost
    BY <2>2 DEF IInv, Behind, Handled, Counted
  <2> QED BY <2>1, <2>2 DEF EverySignatureCarvedOnce
<1> QED BY <1>1, IInvInvariant, PTL

\* The caps bound what one carve opens and emits.
THEOREM CarveIsBounded == Spec => []WorkBounded
<1>1. IInv => WorkBounded
  BY CapsAssumption DEF IInv, TypeOK, Counted, WorkBounded
<1> QED BY <1>1, IInvInvariant, PTL

\* As long as reads deliver what the image holds, the offset arithmetic of
\* the scan cannot underflow.
THEOREM NoOverflowWithoutShortReads == Spec => []NeverOverflows
<1>1. IInv => NeverOverflows
  BY DEF IInv, Inside, NeverOverflows
<1> QED BY <1>1, IInvInvariant, PTL

\* The caps bound the work and the image the offsets of a scan.
THEOREM ScanIsBounded == Spec => []ScanStaysInBounds
<1>1. WorkBounded /\ NeverOverflows => ScanStaysInBounds
  BY DEF ScanStaysInBounds
<1> QED BY <1>1, CarveIsBounded, NoOverflowWithoutShortReads, PTL
=============================================================================
