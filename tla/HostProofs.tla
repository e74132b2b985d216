----------------------------- MODULE HostProofs -----------------------------
(***************************************************************************)
(* What the services that talk to the host guarantee: the HID target gives *)
(* it reports in order and announces resets, the debug log its frames once *)
(* and in order, a transport the results of relayed requests; the messages *)
(* of the relays are read back as they were written; and the aggregate of  *)
(* HID devices, for any devices behind it, routes by ids that lead back.   *)
(***************************************************************************)
EXTENDS MCIpc, FiniteSetTheorems, NaturalsInduction, SequenceTheorems, WellFoundedInduction, TLAPS

\* A set of numbers that is not empty has a least one.
LEMMA LeastOf ==
    ASSUME NEW T \in SUBSET Nat, T # {}
    PROVE  \E x \in T : \A y \in T : x <= y
<1> DEFINE R == {ss \in Nat \X Nat : ss[1] < ss[2]}
<1>1. IsWellFoundedOn(R, Nat)
  BY NatLessThanWellFounded DEF OpToRel
<1>2. \A x, y \in T : <<y, x>> \in R <=> y < x
  OBVIOUS
<1> HIDE DEF R
<1>3. PICK x \in T : \A y \in T : ~(y < x)
  BY <1>1, <1>2, WFMin
<1> QED  BY <1>3

\* What holds of 0 and passes from each number to the next holds up to n.
LEMMA Upwards ==
    ASSUME NEW n \in Nat, NEW T, 0 \in T, \A i \in 1..n : i - 1 \in T => i \in T
    PROVE  \A i \in 0..n : i \in T
<1> SUFFICES ASSUME NEW m \in 0..n, m \notin T PROVE FALSE
  OBVIOUS
<1> DEFINE Out == {i \in 0..n : i \notin T}
<1>0. Out \in SUBSET Nat /\ Out # {}
  OBVIOUS
<1>1. PICK x \in Out : \A y \in Out : x <= y
  BY <1>0, LeastOf
<1>2. x \in 1..n /\ x - 1 \in 0..n /\ ~(x <= x - 1)
  BY <1>1
<1> QED  BY <1>1, <1>2

-----------------------------------------------------------------------------

(* The HID target.                                                         *)

\* Reports in the hands of the device, of the runner and of the host are numbered.
TargetTypes ==
    /\ produced \in Nat /\ reports \in Seq(Nat) /\ answers \in Seq(Nat)
    /\ tSending \in {None} \cup Nat
    /\ tSending # None <=> tPc = "sending"

TargetBools == attn \in BOOLEAN /\ pendingReset \in BOOLEAN /\ resetSignal \in BOOLEAN

TargetRange ==
    /\ \A i \in 1 .. Len(reports) : reports[i] \in 1 .. produced
    /\ \A i \in 1 .. Len(answers) : answers[i] \in 1 .. produced
    /\ tSending # None => tSending \in 1 .. produced
    /\ lost \subseteq 1 .. produced

\* What the host has read, what is being sent and what the device holds follow
\* each other in the order in which the device made them.
TargetOrder ==
    /\ \A i, j \in 1 .. Len(answers) : i < j => answers[i] < answers[j]
    /\ \A i, j \in 1 .. Len(reports) : i < j => reports[i] < reports[j]
    /\ \A i \in 1 .. Len(answers), j \in 1 .. Len(reports) : answers[i] < reports[j]
    /\ tSending # None =>
          /\ \A i \in 1 .. Len(answers) : answers[i] < tSending
          /\ \A j \in 1 .. Len(reports) : tSending < reports[j]

\* No report is forgotten without a trace.
TargetKept ==
    \A n \in 1 .. produced :
        \/ n \in lost \/ n = tSending
        \/ \E i \in 1 .. Len(answers) : answers[i] = n
        \/ \E i \in 1 .. Len(reports) : reports[i] = n

\* While the acknowledgement of a reset is due, the interrupt is asserted, and
\* the runner sends nothing that would withdraw it.
ResetDue == pendingReset => attn /\ tPc \notin {"sending", "empty"}

TargetInv == TargetTypes /\ TargetBools /\ TargetRange /\ TargetOrder /\ TargetKept /\ ResetDue

LEMMA TargetInit == Target!Init => TargetInv
<1> SUFFICES ASSUME Target!Init PROVE TargetInv
  OBVIOUS
<1> USE NoneAssumption DEF Target!Init
<1>1. TargetTypes
  BY DEF TargetTypes
<1>2. TargetBools
  BY DEF TargetBools
<1>3. TargetRange /\ TargetOrder /\ TargetKept /\ ResetDue
  BY DEF TargetRange, TargetOrder, TargetKept, ResetDue
<1> QED  BY <1>1, <1>2, <1>3 DEF TargetInv

\* What a reset of the device leaves behind.
LEMMA TargetReset ==
    ASSUME TargetInv, Target!DoReset, tPc # "sending",
           UNCHANGED <<answers, produced, tSending>>, resetSignal' \in BOOLEAN
    PROVE  TargetInv'
<1>1. /\ reports' = <<>> /\ lost' = lost \cup {reports[i] : i \in 1 .. Len(reports)}
      /\ tPc' = "select" /\ UNCHANGED <<answers, produced, tSending>>
  BY DEF Target!DoReset, Target!Range, TargetInv, TargetTypes
<1>2. attn' = TRUE /\ pendingReset' = TRUE
  BY DEF Target!DoReset, Target!AssertInterrupt
<1>3. TargetTypes'
  BY ONLY TargetInv, <1>1, tPc # "sending" DEF TargetInv, TargetTypes
<1>4. TargetBools'
  BY ONLY <1>2, resetSignal' \in BOOLEAN DEF TargetBools
<1>a. lost' \subseteq 1 .. produced
  <2>1. \A i \in 1 .. Len(reports) : reports[i] \in 1 .. produced
    BY DEF TargetInv, TargetRange
  <2> QED  BY ONLY TargetInv, <1>1, <2>1 DEF TargetInv, TargetRange
<1>5. TargetRange' /\ TargetOrder'
  BY ONLY TargetInv, <1>1, <1>a DEF TargetInv, TargetTypes, TargetRange, TargetOrder
<1>6. TargetKept'
  BY ONLY TargetInv, <1>1 DEF TargetInv, TargetTypes, TargetKept
<1>7. ResetDue'
  BY <1>1, <1>2 DEF ResetDue
<1> QED  BY <1>3, <1>4, <1>5, <1>6, <1>7 DEF TargetInv

\* A reply takes the first report from the device.
LEMMA TargetReply ==
    ASSUME TargetInv, Target!StartReply, tPc # "sending",
           UNCHANGED <<attn, pendingReset, resetSignal, produced, answers, lost>>
    PROVE  TargetInv'
<1>0. UNCHANGED <<attn, pendingReset, resetSignal>> /\ UNCHANGED <<produced, answers, lost>>
  OBVIOUS
<1>1. CASE UNCHANGED <<reports, tSending>> /\ tPc' \in {"ack", "empty"} /\ (pendingReset => tPc' = "ack")
  <2>1. TargetTypes'
    BY <1>1 DEF TargetInv, TargetTypes
  <2>2. TargetBools'
    BY <1>0 DEF TargetInv, TargetBools
  <2>3. TargetRange'
    BY <1>1 DEF TargetInv, TargetTypes, TargetRange
  <2>4. TargetOrder'
    BY <1>1 DEF TargetInv, TargetTypes, TargetOrder
  <2>5. TargetKept'
    BY <1>1 DEF TargetInv, TargetTypes, TargetKept
  <2>6. ResetDue'
    BY <1>1 DEF TargetInv, ResetDue
  <2> QED  BY <2>1, <2>2, <2>3, <2>4, <2>5, <2>6 DEF TargetInv
<1>2. CASE /\ ~pendingReset /\ reports # <<>> /\ tPc' = "sending"
           /\ tSending' = Head(reports) /\ reports' = Tail(reports)
  <2>0. /\ reports \in Seq(Nat) /\ Len(reports) \in Nat /\ Len(reports) > 0 /\ tSending' = reports[1]
        /\ reports' \in Seq(Nat) /\ Len(reports') = Len(reports) - 1
        /\ \A i \in 1 .. Len(reports') : reports'[i] = reports[i + 1]
    BY <1>2, HeadTailProperties DEF TargetInv, TargetTypes
  <2>1. TargetTypes'
    BY <1>0, <1>2, <2>0, NoneAssumption DEF TargetInv, TargetTypes
  <2>2. TargetBools'
    BY <1>0 DEF TargetInv, TargetBools
  <2>3. TargetRange'
    BY <1>0, <1>2, <2>0, NoneAssumption DEF TargetInv, TargetTypes, TargetRange
  <2>4. TargetOrder'
    BY <1>0, <1>2, <2>0, NoneAssumption DEF TargetInv, TargetTypes, TargetOrder
  <2>5. TargetKept'
    <3>1. ASSUME NEW i \in 1 .. Len(reports)
          PROVE  reports[i] = tSending' \/ \E j \in 1 .. Len(reports') : reports'[j] = reports[i]
      <4>1. CASE i = 1
        BY <2>0, <4>1
      <4>2. CASE i # 1
        <5>1. i - 1 \in 1 .. Len(reports') /\ reports'[i - 1] = reports[i]
          BY <2>0, <4>2
        <5> QED  BY <5>1
      <4> QED  BY <4>1, <4>2
    <3>2. tSending = None
      BY DEF TargetInv, TargetTypes
    <3>3. \A n \in 1 .. produced : n # None
      BY NoneAssumption DEF TargetInv, TargetTypes
    <3> QED  BY ONLY TargetInv, <1>0, <3>1, <3>2, <3>3 DEF TargetInv, TargetKept
  <2>6. ResetDue'
    BY <1>0, <1>2, <2>0, NoneAssumption DEF TargetInv, ResetDue
  <2> QED  BY <2>1, <2>2, <2>3, <2>4, <2>5, <2>6 DEF TargetInv
<1> QED  BY <1>1, <1>2 DEF Target!StartReply

\* The steps of the runner that touch neither the reports nor the reset.
LEMMA TargetIdle ==
    ASSUME TargetInv, tPc # "sending", tPc' \notin {"sending", "empty"},
           UNCHANGED <<attn, pendingReset, produced, reports, tSending, answers, lost>>,
           resetSignal' \in BOOLEAN
    PROVE  TargetInv'
<1>1. TargetTypes' /\ TargetRange' /\ TargetOrder' /\ TargetKept'
  BY DEF TargetInv, TargetTypes, TargetRange, TargetOrder, TargetKept
<1>2. TargetBools'
  BY DEF TargetInv, TargetBools
<1>3. ResetDue'
  BY DEF TargetInv, ResetDue
<1> QED  BY <1>1, <1>2, <1>3 DEF TargetInv

LEMMA TargetStep == TargetInv /\ [Target!Next]_tVars => TargetInv'
<1> SUFFICES ASSUME TargetInv, [Target!Next]_tVars PROVE TargetInv'
  OBVIOUS
<1>0. resetSignal \in BOOLEAN
  BY DEF TargetInv, TargetBools
<1>1. CASE Target!ReadRequest
  BY <1>1, TargetReply DEF Target!ReadRequest, Target!deviceVars
<1>2. CASE Target!HostServes
  BY <1>2, TargetReply DEF Target!HostServes, Target!deviceVars, Target!boundVars
<1>3. CASE Target!WriteRequest
  BY <1>0, <1>3, TargetIdle DEF Target!WriteRequest, Target!Device
<1>4. CASE Target!ResetSignalled
  BY <1>4, TargetReset DEF Target!ResetSignalled, Target!boundVars
<1>5. ASSUME NEW f \in Frames, Target!RegisterAccess(f) PROVE TargetInv'
  <2>1. CASE Target!DoReset /\ UNCHANGED tSending
    BY <1>0, <1>5, <2>1, TargetReset DEF Target!RegisterAccess, Target!boundVars
  <2>2. CASE UNCHANGED <<attn, pendingReset, reports, tSending, lost>>
             /\ tPc' \in {"select", "descriptor", "input", "getOutput", "getReport"}
    BY <1>0, <1>5, <2>2, TargetIdle DEF Target!RegisterAccess, Target!boundVars
  <2> QED  BY <1>5, <2>1, <2>2 DEF Target!RegisterAccess, Target!CommandAccess, Target!Device, Target!deviceVars
<1>6. CASE Target!RegisterAccessFails \/ Target!ResponseFails \/ Target!OtherSent
  BY <1>0, <1>6, TargetIdle DEF Target!RegisterAccessFails, Target!ResponseFails, Target!OtherSent,
     Target!Device, Target!boundVars
<1>7. CASE Target!ResponseRequested
  <2>1. CASE tPc = "input" /\ Target!StartReply /\ UNCHANGED <<attn, pendingReset, lost>>
    BY <1>7, <2>1, TargetReply DEF Target!ResponseRequested, Target!boundVars
  <2>2. CASE tPc = "getReport" /\ Target!DoReset /\ UNCHANGED tSending
    BY <1>0, <1>7, <2>2, TargetReset DEF Target!ResponseRequested, Target!boundVars
  <2>3. CASE /\ tPc \in {"descriptor", "getReport", "getOutput"}
             /\ tPc' \in {"descriptorReply", "reportReply", "select"}
             /\ UNCHANGED <<attn, pendingReset, reports, tSending, lost>>
    BY <1>0, <1>7, <2>3, TargetIdle DEF Target!ResponseRequested, Target!boundVars
  <2> QED  BY <1>7, <2>1, <2>2, <2>3 DEF Target!ResponseRequested, Target!Device, Target!deviceVars
<1>8. CASE Target!InputReportReady \/ Target!AckSent \/ Target!EmptySent
  <2> USE DEF Target!InputReportReady, Target!AckSent, Target!EmptySent, Target!AssertInterrupt,
          Target!ClearInterrupt, Target!Device, Target!boundVars
  <2>1. TargetTypes' /\ TargetRange' /\ TargetOrder' /\ TargetKept'
    BY <1>8 DEF TargetInv, TargetTypes, TargetRange, TargetOrder, TargetKept
  <2>2. TargetBools'
    BY <1>8 DEF TargetInv, TargetBools
  <2>3. ResetDue'
    BY <1>8 DEF TargetInv, ResetDue
  <2> QED  BY <2>1, <2>2, <2>3 DEF TargetInv
<1>9. CASE Target!ReportSent
  <2>0. /\ tSending \in Nat /\ ~pendingReset /\ tPc' = "select" /\ tSending' = None
        /\ UNCHANGED <<pendingReset, resetSignal, reports, lost, produced>>
        /\ answers' \in Seq(Nat) /\ Len(answers') = Len(answers) + 1 /\ Len(answers) \in Nat
        /\ \A i \in 1 .. Len(answers) : answers'[i] = answers[i]
        /\ answers'[Len(answers) + 1] = tSending
    BY <1>9, AppendProperties DEF Target!ReportSent, Target!boundVars, TargetInv, TargetTypes, ResetDue
  <2>1. TargetTypes'
    BY <2>0 DEF TargetInv, TargetTypes
  <2>2. TargetBools'
    <3>1. attn' \in BOOLEAN
      BY <1>9, Zenon DEF Target!ReportSent
    <3> QED  BY <2>0, <3>1 DEF TargetInv, TargetBools
  <2>a. \A i \in 1 .. Len(answers') : i \in 1 .. Len(answers) \/ i = Len(answers) + 1
    BY <2>0
  <2>b. tSending # None /\ \A i \in 1 .. Len(answers) : answers[i] \in Nat
    BY <2>0, NoneAssumption DEF TargetInv, TargetTypes
  <2>3. TargetRange'
    BY ONLY TargetInv, <2>0, <2>a, <2>b DEF TargetInv, TargetRange
  <2>4. TargetOrder'
    <3>1. /\ \A i \in 1 .. Len(answers) : answers[i] < tSending
          /\ \A i, j \in 1 .. Len(answers) : i < j => answers[i] < answers[j]
      BY <2>b DEF TargetInv, TargetOrder
    <3>2. ASSUME NEW i \in 1 .. Len(answers'), NEW j \in 1 .. Len(answers'), i < j
          PROVE  answers'[i] < answers'[j]
      <4>1. i \in 1 .. Len(answers)
        BY <2>0, <2>a, <3>2
      <4> QED  BY ONLY <2>0, <2>a, <3>1, <3>2, <4>1
    <3>3. /\ \A i, j \in 1 .. Len(reports) : i < j => reports[i] < reports[j]
          /\ \A i \in 1 .. Len(answers'), j \in 1 .. Len(reports) : answers'[i] < reports[j]
      BY ONLY TargetInv, <2>0, <2>a, <2>b DEF TargetInv, TargetOrder
    <3> QED  BY ONLY <2>0, <3>2, <3>3 DEF TargetOrder
  <2>5. TargetKept'
    <3>1. \A i \in 1 .. Len(answers) : i \in 1 .. Len(answers')
      BY <2>0
    <3>2. Len(answers) + 1 \in 1 .. Len(answers')
      BY <2>0
    <3> QED  BY <2>0, <3>1, <3>2 DEF TargetInv, TargetTypes, TargetKept
  <2>6. ResetDue'
    BY <2>0 DEF ResetDue
  <2> QED  BY <2>1, <2>2, <2>3, <2>4, <2>5, <2>6 DEF TargetInv
<1>10. CASE Target!ReportRefused
  <2>1. /\ reports' = <<>> /\ lost' = lost \cup {reports[i] : i \in 1 .. Len(reports)} \cup {tSending}
        /\ tSending' = None /\ tPc' = "select" /\ tSending \in Nat
        /\ UNCHANGED <<answers, produced>>
    BY <1>10 DEF Target!ReportRefused, Target!boundVars, Target!Range, TargetInv, TargetTypes
  <2>2. attn' = TRUE /\ pendingReset' = TRUE /\ UNCHANGED resetSignal
    BY <1>10 DEF Target!ReportRefused, Target!AssertInterrupt
  <2>3. TargetTypes' /\ TargetOrder'
    BY <2>1 DEF TargetInv, TargetTypes, TargetOrder
  <2>4. TargetRange' /\ TargetKept'
    <3>1. tSending # None
      BY <2>1, NoneAssumption
    <3>a. tSending \in 1 .. produced /\ \A i \in 1 .. Len(reports) : reports[i] \in 1 .. produced
      BY <3>1 DEF TargetInv, TargetRange
    <3>b. lost' \subseteq 1 .. produced
      BY ONLY TargetInv, <2>1, <3>a DEF TargetInv, TargetRange
    <3>2. TargetRange'
      BY ONLY TargetInv, <2>1, <3>b DEF TargetInv, TargetTypes, TargetRange
    <3> QED  BY ONLY TargetInv, <2>1, <3>1, <3>2 DEF TargetInv, TargetTypes, TargetKept
  <2>5. TargetBools'
    BY <2>2, <1>0 DEF TargetBools
  <2>6. ResetDue'
    BY <2>1, <2>2 DEF ResetDue
  <2> QED  BY <2>3, <2>4, <2>5, <2>6 DEF TargetInv
<1>11. CASE Target!WriteFails
  <2>1. /\ tSending' = None /\ tPc' = "select" /\ UNCHANGED <<reports, answers, produced>>
        /\ lost' = IF tPc = "sending" THEN lost \cup {tSending} ELSE lost
    BY <1>11 DEF Target!WriteFails, Target!boundVars
  <2>2. UNCHANGED <<attn, pendingReset, resetSignal>>
    BY <1>11 DEF Target!WriteFails
  <2>3. TargetTypes' /\ TargetOrder'
    BY <2>1 DEF TargetInv, TargetTypes, TargetOrder
  <2>4. TargetRange' /\ TargetKept'
    BY <2>1, NoneAssumption DEF TargetInv, TargetTypes, TargetRange, TargetKept
  <2>5. TargetBools'
    BY <2>2 DEF TargetInv, TargetBools
  <2>6. ResetDue'
    BY <2>1, <2>2 DEF TargetInv, ResetDue
  <2> QED  BY <2>3, <2>4, <2>5, <2>6 DEF TargetInv
<1>12. CASE Target!DeviceReports
  <2>1. /\ produced' = produced + 1 /\ produced \in Nat /\ UNCHANGED <<tPc, tSending, answers, lost>>
        /\ reports' \in Seq(Nat) /\ Len(reports') = Len(reports) + 1 /\ Len(reports) \in Nat
        /\ \A i \in 1 .. Len(reports) : reports'[i] = reports[i]
        /\ reports'[Len(reports) + 1] = produced + 1
    BY <1>12, AppendProperties DEF Target!DeviceReports, TargetInv, TargetTypes
  <2>2. UNCHANGED <<attn, pendingReset, resetSignal>>
    BY <1>12 DEF Target!DeviceReports
  <2>a. \A i \in 1 .. Len(reports') : i \in 1 .. Len(reports) \/ i = Len(reports) + 1
    BY <2>1
  <2>b. \A n \in 1 .. produced : n \in 1 .. produced + 1 /\ n < produced + 1
    BY <2>1
  <2>c. produced + 1 \in 1 .. produced + 1
    BY <2>1
  <2>3. TargetTypes' /\ TargetRange'
    <3>1. TargetTypes'
      BY ONLY TargetInv, <2>1 DEF TargetInv, TargetTypes
    <3>2. TargetRange'
      BY ONLY TargetInv, <2>1, <2>a, <2>b, <2>c DEF TargetInv, TargetRange
    <3> QED  BY <3>1, <3>2
  <2>4. TargetOrder'
    <3>1. \A i, j \in 1 .. Len(reports) : i < j => reports[i] < reports[j]
      BY DEF TargetInv, TargetOrder
    <3>2. \A i \in 1 .. Len(reports) : reports[i] < produced + 1
      BY <2>b DEF TargetInv, TargetRange
    <3>3. ASSUME NEW i \in 1 .. Len(reports'), NEW j \in 1 .. Len(reports'), i < j
          PROVE  reports'[i] < reports'[j]
      <4>1. i \in 1 .. Len(reports)
        BY <2>1, <2>a, <3>3
      <4> QED  BY ONLY <2>1, <2>a, <3>1, <3>2, <3>3, <4>1
    <3>4. /\ \A i, j \in 1 .. Len(answers) : i < j => answers[i] < answers[j]
          /\ \A i \in 1 .. Len(answers), j \in 1 .. Len(reports') : answers[i] < reports'[j]
          /\ tSending # None =>
                /\ \A i \in 1 .. Len(answers) : answers[i] < tSending
                /\ \A j \in 1 .. Len(reports') : tSending < reports'[j]
      BY ONLY TargetInv, <2>1, <2>a, <2>b DEF TargetInv, TargetRange, TargetOrder
    <3> QED  BY ONLY <2>1, <3>3, <3>4 DEF TargetOrder
  <2>5. TargetKept'
    <3>1. \A i \in 1 .. Len(reports) : i \in 1 .. Len(reports')
      BY <2>1
    <3>2. Len(reports) + 1 \in 1 .. Len(reports')
      BY <2>1
    <3>3. \A n \in 1 .. produced' : n \in 1 .. produced \/ n = reports'[Len(reports) + 1]
      BY <2>1
    <3> QED  BY <2>1, <3>1, <3>2, <3>3 DEF TargetInv, TargetTypes, TargetKept
  <2>6. TargetBools' /\ ResetDue'
    BY <2>1, <2>2 DEF TargetInv, TargetBools, ResetDue
  <2> QED  BY <2>3, <2>4, <2>5, <2>6 DEF TargetInv
<1>13. CASE Target!ServiceReset
  <2>1. UNCHANGED <<tPc, produced, reports, tSending, answers, lost>>
    BY <1>13 DEF Target!ServiceReset, Target!Device
  <2>2. UNCHANGED <<attn, pendingReset>> /\ resetSignal' = TRUE
    BY <1>13 DEF Target!ServiceReset
  <2>3. TargetTypes' /\ TargetRange' /\ TargetOrder' /\ TargetKept'
    BY <2>1 DEF TargetInv, TargetTypes, TargetRange, TargetOrder, TargetKept
  <2>4. TargetBools'
    BY <2>2 DEF TargetInv, TargetBools
  <2>5. ResetDue'
    BY <2>1, <2>2 DEF TargetInv, ResetDue
  <2> QED  BY <2>3, <2>4, <2>5 DEF TargetInv
<1>14. CASE UNCHANGED tVars
  BY <1>14 DEF tVars, TargetInv, TargetTypes, TargetBools, TargetRange, TargetOrder, TargetKept, ResetDue
<1> QED  BY <1>1, <1>2, <1>3, <1>4, <1>5, <1>6, <1>7, <1>8, <1>9, <1>10, <1>11, <1>12, <1>13, <1>14
         DEF Target!Next, Target!Completes

LEMMA TargetInvImplies == TargetInv => Target!HidHonest
<1> SUFFICES ASSUME TargetInv PROVE Target!HidHonest
  OBVIOUS
<1>1. Target!TypeOK
  <2>1. (tSending # None) = (tPc = "sending")
    BY Zenon DEF TargetInv, TargetTypes
  <2> QED  BY <2>1 DEF Target!TypeOK, TargetInv, TargetTypes, TargetBools, TargetRange
<1>2. Target!ReportsInOrder
  BY DEF TargetInv, TargetTypes, TargetOrder, TargetKept, Target!ReportsInOrder, Target!Range
<1>3. Target!ResetAnnounced /\ Target!ResetFirst
  BY DEF TargetInv, ResetDue, Target!ResetAnnounced, Target!ResetFirst
<1>4. Target!WithinFrame
  BY FramesAssumption DEF Target!WithinFrame, Target!FitsBuffer, Target!OutputOk, Target!SetReportOk,
     Target!HeaderSize, Target!CommandHeader, Target!IdSize
<1> QED  BY <1>1, <1>2, <1>3, <1>4 DEF Target!HidHonest

\* A step of the suite is a step of the target or leaves it alone.
LEMMA SuiteTarget == [SuiteNext]_allVars => [Target!Next]_tVars
BY Zenon DEF SuiteNext, allVars

\* Input reports reach the host of the HID target in order and at most once, one
\* that does not was in a failed transfer or before a reset, a reset is announced
\* until it is acknowledged, and what the device is handed lies within the frame,
\* for any frames and any number of reports, requests, failures and resets
\* (hidi2c-target-service/src/service.rs).
THEOREM HidHonestHolds == SuiteSpec => []HidHonest
<1>1. SuiteInit => TargetInv
  BY TargetInit DEF SuiteInit
<1>2. TargetInv /\ [SuiteNext]_allVars => TargetInv'
  BY SuiteTarget, TargetStep
<1>3. TargetInv => HidHonest
  BY TargetInvImplies DEF HidHonest
<1> QED  BY <1>1, <1>2, <1>3, PTL DEF SuiteSpec

-----------------------------------------------------------------------------
(* The debug log.                                                          *)

Bytes == [1 .. FrameSize -> Nat]
Pad(fs) == [i \in 1 .. Len(fs) |-> Debug!Over(fs[i], Debug!Zeros)]
OnItsWay == IF dAnswer # None /\ dAnswer.ok THEN <<dAnswer.bytes>> ELSE <<>>
WaitsFor == IF dPc = "staged" THEN <<staged>> ELSE <<>>

DebugTypes ==
    /\ ring \in Seq(Seq(Nat)) /\ committed \in Seq(Seq(Nat)) /\ dHeard \in Seq(Bytes)
    /\ staged \in Bytes /\ copied \in Nat /\ logs \in Nat /\ dPc \in {"read", "staged"}
    /\ dAnswer # None /\ dAnswer.ok => dAnswer.bytes \in Bytes

\* The staging buffer is clear behind the frame in it, and without a frame all of it.
StagedClear ==
    /\ dPc = "read" => staged = Debug!Zeros
    /\ dPc = "staged" => \A i \in 1 .. FrameSize : i > copied => staged[i] = 0

\* A request stands in one of the three signals.
OneSignal ==
    /\ waiting =>
          \/ notify /\ ~noAvail /\ dAnswer = None
          \/ ~notify /\ noAvail /\ dAnswer = None
          \/ ~notify /\ ~noAvail /\ dAnswer # None
    /\ ~waiting => ~notify /\ ~noAvail /\ dAnswer = None

FramesInPlace == dHeard \o OnItsWay \o WaitsFor \o Pad(ring) = Pad(committed)

DebugInv == DebugTypes /\ StagedClear /\ OneSignal /\ FramesInPlace

LEMMA PadTypes ==
    ASSUME NEW fs \in Seq(Seq(Nat))
    PROVE  Pad(fs) \in Seq(Bytes) /\ Len(Pad(fs)) = Len(fs)
<1>1. \A f \in Seq(Nat) : Debug!Over(f, Debug!Zeros) \in Bytes
  BY DEF Debug!Over, Debug!Zeros, Bytes
<1>2. \A i \in 1 .. Len(fs) : Debug!Over(fs[i], Debug!Zeros) \in Bytes
  BY <1>1
<1> HIDE DEF Bytes
<1>3. Len(fs) \in Nat
  OBVIOUS
<1> QED  BY <1>2, <1>3 DEF Pad

LEMMA PadConcat ==
    ASSUME NEW fs \in Seq(Seq(Nat)), NEW gs \in Seq(Seq(Nat))
    PROVE  Pad(fs \o gs) = Pad(fs) \o Pad(gs)
<1>1. /\ fs \o gs \in Seq(Seq(Nat)) /\ Len(fs \o gs) = Len(fs) + Len(gs)
      /\ \A i \in 1 .. Len(fs) + Len(gs) : (fs \o gs)[i] = IF i <= Len(fs) THEN fs[i] ELSE gs[i - Len(fs)]
  BY ConcatProperties
<1>2. /\ Pad(fs) \in Seq(Bytes) /\ Len(Pad(fs)) = Len(fs)
      /\ Pad(gs) \in Seq(Bytes) /\ Len(Pad(gs)) = Len(gs)
      /\ Pad(fs \o gs) \in Seq(Bytes) /\ Len(Pad(fs \o gs)) = Len(fs) + Len(gs)
  BY <1>1, PadTypes
<1>3. /\ Pad(fs) \o Pad(gs) \in Seq(Bytes) /\ Len(Pad(fs) \o Pad(gs)) = Len(fs) + Len(gs)
      /\ \A i \in 1 .. Len(fs) + Len(gs) :
            (Pad(fs) \o Pad(gs))[i] = IF i <= Len(fs) THEN Pad(fs)[i] ELSE Pad(gs)[i - Len(fs)]
  BY <1>2, ConcatProperties
<1>4. ASSUME NEW i \in 1 .. Len(fs) + Len(gs) PROVE Pad(fs \o gs)[i] = (Pad(fs) \o Pad(gs))[i]
  <2>0. Len(fs) \in Nat /\ Len(gs) \in Nat
    OBVIOUS
  <2>1. Pad(fs \o gs)[i] = Debug!Over((fs \o gs)[i], Debug!Zeros)
    BY <1>1 DEF Pad
  <2>2. CASE i <= Len(fs)
    BY <1>1, <1>3, <2>0, <2>1, <2>2 DEF Pad
  <2>3. CASE ~(i <= Len(fs))
    <3>1. i - Len(fs) \in 1 .. Len(gs)
      BY <2>0, <2>3
    <3> QED  BY <1>1, <1>3, <2>1, <2>3, <3>1 DEF Pad
  <2> QED  BY <2>2, <2>3
<1> QED  BY <1>2, <1>3, <1>4, SeqEqual

LEMMA DebugInit == Debug!Init => DebugInv
<1> SUFFICES ASSUME Debug!Init PROVE DebugInv
  OBVIOUS
<1>1. DebugTypes
  BY DEF Debug!Init, Debug!Zeros, DebugTypes, Bytes
<1>2. StagedClear /\ OneSignal
  BY DEF Debug!Init, StagedClear, OneSignal
<1>3. FramesInPlace
  BY DEF Debug!Init, FramesInPlace, OnItsWay, WaitsFor, Pad
<1> QED  BY <1>1, <1>2, <1>3 DEF DebugInv

\* How a sequence of frames may be cut: brackets move, and nothing is nothing.
LEMMA FramesJoin ==
    ASSUME NEW a \in Seq(Bytes), NEW b \in Seq(Bytes), NEW c \in Seq(Bytes)
    PROVE  /\ (a \o b) \o c = a \o (b \o c)
           /\ a \o b \in Seq(Bytes) /\ a \o <<>> = a /\ <<>> \o a = a
<1> HIDE DEF Bytes
<1>1. (a \o b) \o c = a \o (b \o c) /\ a \o b \in Seq(Bytes)
  BY ConcatAssociative
<1> QED  BY <1>1, ConcatEmptySeq

\* A ring that is not empty, cut behind its first frame.
LEMMA PadHead ==
    ASSUME NEW fs \in Seq(Seq(Nat)), fs # <<>>
    PROVE  /\ Head(fs) \in Seq(Nat) /\ Tail(fs) \in Seq(Seq(Nat))
           /\ Debug!Over(Head(fs), Debug!Zeros) \in Bytes
           /\ Pad(fs) = <<Debug!Over(Head(fs), Debug!Zeros)>> \o Pad(Tail(fs))
<1> DEFINE h == Head(fs)
           t == Tail(fs)
<1>1. h \in Seq(Nat) /\ t \in Seq(Seq(Nat)) /\ <<h>> \in Seq(Seq(Nat))
  BY HeadTailProperties
<1>2. fs = <<h>> \o t
  <2>1. Len(fs) \in Nat /\ Len(fs) # 0
    BY EmptySeq
  <2>2. /\ Len(t) = Len(fs) - 1 /\ h = fs[1]
        /\ \A i \in 1 .. Len(t) : t[i] = fs[i + 1]
    BY HeadTailProperties, <2>1
  <2>3. /\ <<h>> \o t \in Seq(Seq(Nat)) /\ Len(<<h>> \o t) = 1 + Len(t)
        /\ \A i \in 1 .. 1 + Len(t) : (<<h>> \o t)[i] = IF i <= 1 THEN <<h>>[i] ELSE t[i - 1]
    BY <1>1, ConcatProperties
  <2>4. ASSUME NEW i \in 1 .. Len(fs) PROVE fs[i] = (<<h>> \o t)[i]
    <3>1. CASE i = 1
      BY <2>1, <2>2, <2>3, <3>1
    <3>2. CASE i # 1
      <4>1. i - 1 \in 1 .. Len(t) /\ (i - 1) + 1 = i
        BY <2>1, <2>2, <3>2
      <4> QED  BY <2>1, <2>2, <2>3, <3>2, <4>1
    <3> QED  BY <3>1, <3>2
  <2>5. Len(<<h>> \o t) = Len(fs)
    BY <2>1, <2>2, <2>3
  <2> QED  BY <2>3, <2>4, <2>5, SeqEqual
<1>3. Pad(<<h>>) = <<Debug!Over(h, Debug!Zeros)>>
  BY <1>1 DEF Pad
<1>4. Debug!Over(h, Debug!Zeros) \in Bytes
  BY <1>1 DEF Debug!Over, Debug!Zeros, Bytes
<1>5. Pad(fs) = Pad(<<h>>) \o Pad(t)
  BY <1>1, <1>2, PadConcat
<1> QED  BY <1>1, <1>3, <1>4, <1>5

\* The parts of FramesInPlace are sequences of frames.
LEMMA PartsTyped ==
    ASSUME DebugTypes
    PROVE  /\ dHeard \in Seq(Bytes) /\ OnItsWay \in Seq(Bytes) /\ WaitsFor \in Seq(Bytes)
           /\ Pad(ring) \in Seq(Bytes) /\ Pad(committed) \in Seq(Bytes)
<1> HIDE DEF Bytes
<1>1. OnItsWay \in Seq(Bytes)
  BY DEF OnItsWay, DebugTypes
<1>2. WaitsFor \in Seq(Bytes)
  BY DEF WaitsFor, DebugTypes
<1> QED  BY <1>1, <1>2, PadTypes DEF DebugTypes

LEMMA DebugLogStep ==
    ASSUME DebugInv, NEW size \in LogSizes, NEW granted \in 0 .. RingFrames,
           Debug!Log(size, granted)
    PROVE  DebugInv'
<1> DEFINE frames == [k \in 1 .. granted |-> Debug!FrameOf(size, k)]
<1>1. frames \in Seq(Seq(Nat))
  <2>1. logs + 1 \in Nat /\ granted \in Nat /\ size \in Nat /\ FrameSize \in Nat
    BY DebugAssumption DEF DebugInv, DebugTypes
  <2>2. ASSUME NEW k \in 1 .. granted PROVE Debug!FrameOf(size, k) \in Seq(Nat)
    <3> DEFINE left == size - (k - 1) * FrameSize
               n == IF left < FrameSize THEN left ELSE FrameSize
               m == IF n < 0 THEN 0 ELSE n
    <3>0. k \in Nat /\ (k - 1) * FrameSize \in Int
      BY <2>1
    <3>1. n \in Int
      BY <2>1, <3>0
    <3>2. m \in Nat /\ 1 .. n = 1 .. m
      BY <3>1
    <3>3. Debug!FrameOf(size, k) = [i \in 1 .. m |-> logs + 1]
      BY <3>2 DEF Debug!FrameOf
    <3> HIDE DEF m
    <3> QED  BY <2>1, <3>2, <3>3
  <2> QED  BY <2>1, <2>2
<1> HIDE DEF frames
<1>2. /\ ring' = ring \o frames /\ committed' = committed \o frames /\ logs' = logs + 1
      /\ UNCHANGED <<dPc, staged, copied, notify, noAvail, dAnswer, waiting, dHeard>>
  BY DEF Debug!Log, frames
<1>3. DebugTypes'
  BY <1>1, <1>2 DEF DebugInv, DebugTypes
<1>4. StagedClear' /\ OneSignal'
  BY <1>2 DEF DebugInv, StagedClear, OneSignal, Debug!Zeros
<1>5. FramesInPlace'
  <2>0. ring \in Seq(Seq(Nat)) /\ committed \in Seq(Seq(Nat))
    BY DEF DebugInv, DebugTypes
  <2>1. Pad(ring') = Pad(ring) \o Pad(frames) /\ Pad(committed') = Pad(committed) \o Pad(frames)
    BY <1>1, <1>2, <2>0, PadConcat
  <2>2. OnItsWay' = OnItsWay /\ WaitsFor' = WaitsFor /\ dHeard' = dHeard
    BY <1>2 DEF OnItsWay, WaitsFor
  <2> DEFINE x == dHeard \o OnItsWay \o WaitsFor
  <2>3. x \in Seq(Bytes) /\ Pad(ring) \in Seq(Bytes) /\ Pad(frames) \in Seq(Bytes)
    <3>1. dHeard \o OnItsWay \in Seq(Bytes)
      BY PartsTyped, FramesJoin DEF DebugInv
    <3> QED  BY <1>1, <3>1, PartsTyped, PadTypes, FramesJoin DEF DebugInv
  <2> HIDE DEF Bytes, x
  <2>4. (x \o Pad(ring)) \o Pad(frames) = x \o (Pad(ring) \o Pad(frames))
    BY <2>3, FramesJoin
  <2>5. Pad(committed) = x \o Pad(ring)
    BY DEF DebugInv, FramesInPlace, x
  <2>6. Pad(committed') = x \o Pad(ring')
    BY <2>1, <2>4, <2>5
  <2>7. x' = x
    BY <2>2 DEF x
  <2>8. FramesInPlace' <=> x' \o Pad(ring)' = Pad(committed)'
    BY DEF FramesInPlace, x
  <2>9. Pad(ring)' = Pad(ring') /\ Pad(committed)' = Pad(committed')
    BY DEF Pad, Debug!Over, Debug!Zeros
  <2> QED  BY <2>6, <2>7, <2>8, <2>9
<1> QED  BY <1>3, <1>4, <1>5 DEF DebugInv

LEMMA DebugStep == DebugInv /\ [Debug!Next]_dVars => DebugInv'
<1> SUFFICES ASSUME DebugInv, [Debug!Next]_dVars PROVE DebugInv'
  OBVIOUS
<1>0. /\ ring \in Seq(Seq(Nat)) /\ dHeard \in Seq(Bytes) /\ staged \in Bytes
      /\ FrameSize \in Nat
  BY DebugAssumption DEF DebugInv, DebugTypes
<1>a. /\ dHeard \o OnItsWay \in Seq(Bytes) /\ Pad(ring) \in Seq(Bytes)
      /\ OnItsWay \in Seq(Bytes) /\ WaitsFor \in Seq(Bytes)
  BY PartsTyped, FramesJoin DEF DebugInv
<1>b. Debug!Zeros \in Bytes
  BY DEF Debug!Zeros, Bytes
<1>c. \A b \in Bytes : [ok |-> TRUE, bytes |-> b] # None /\ [ok |-> FALSE, bytes |-> b] # None
  <2> SUFFICES ASSUME NEW b \in Bytes
               PROVE  [ok |-> TRUE, bytes |-> b] # None /\ [ok |-> FALSE, bytes |-> b] # None
    OBVIOUS
  <2>1. \A k \in BOOLEAN : [ok |-> k, bytes |-> b] \in [ok : BOOLEAN, bytes : Bytes]
    BY Zenon
  <2>2. None \notin [ok : BOOLEAN, bytes : Bytes]
    BY DebugAssumption DEF Bytes
  <2>3. \A k \in BOOLEAN : [ok |-> k, bytes |-> b] # None
    BY Zenon, <2>1, <2>2
  <2> QED  BY Zenon, <2>3
<1>d. dHeard \o OnItsWay \o WaitsFor \o Pad(ring) = Pad(committed)
  BY DEF DebugInv, FramesInPlace
<1>1. ASSUME NEW size \in LogSizes, NEW granted \in 0 .. RingFrames, Debug!Log(size, granted)
      PROVE  DebugInv'
  BY <1>1, DebugLogStep
<1>2. CASE Debug!Stage
  <2>1. /\ dPc = "read" /\ ring # <<>> /\ staged' = Debug!Over(Head(ring), staged)
        /\ copied' = Len(Head(ring)) /\ ring' = Tail(ring) /\ dPc' = "staged"
        /\ UNCHANGED <<notify, noAvail, dAnswer, waiting, committed, dHeard, logs>>
    BY <1>2 DEF Debug!Stage
  <2>2. staged' = Debug!Over(Head(ring), Debug!Zeros)
    BY <2>1 DEF DebugInv, StagedClear
  <2>3. /\ Head(ring) \in Seq(Nat) /\ ring' \in Seq(Seq(Nat)) /\ staged' \in Bytes
        /\ Pad(ring) = <<staged'>> \o Pad(ring')
    BY <1>0, <2>1, <2>2, PadHead
  <2>4. DebugTypes'
    BY <2>1, <2>3 DEF DebugInv, DebugTypes
  <2>5. StagedClear'
    BY <2>1, <2>2, <2>3 DEF StagedClear, Debug!Over, Debug!Zeros
  <2>6. OneSignal'
    BY <2>1 DEF DebugInv, OneSignal
  <2>7. FramesInPlace'
    <3> HIDE DEF Bytes
    <3>1. WaitsFor = <<>> /\ WaitsFor' = <<staged'>> /\ OnItsWay' = OnItsWay
      BY <2>1 DEF WaitsFor, OnItsWay
    <3>2. <<staged'>> \in Seq(Bytes) /\ Pad(ring') \in Seq(Bytes)
      BY <2>3, PadTypes
    <3> DEFINE x == dHeard \o OnItsWay
    <3> HIDE DEF x
    <3>3. x \o <<>> = x /\ x \in Seq(Bytes)
      BY <1>a, FramesJoin DEF x
    <3>4. (x \o <<staged'>>) \o Pad(ring') = x \o (<<staged'>> \o Pad(ring'))
      BY <3>2, <3>3, FramesJoin
    <3>5. x \o (<<staged'>> \o Pad(ring')) = Pad(committed)
      BY <1>d, <2>3, <3>1, <3>3 DEF x
    <3>6. x' = x /\ Pad(committed)' = Pad(committed) /\ Pad(ring)' = Pad(ring')
      BY <2>1, <3>1 DEF x, Pad, Debug!Over, Debug!Zeros
    <3> QED  BY <3>1, <3>4, <3>5, <3>6 DEF FramesInPlace, x
  <2> QED  BY <2>4, <2>5, <2>6, <2>7 DEF DebugInv
<1>3. CASE Debug!SendStaged
  <2>1. /\ dPc = "staged" /\ notify /\ notify' = FALSE /\ dAnswer' = [ok |-> TRUE, bytes |-> staged]
        /\ staged' = [i \in 1 .. FrameSize |-> IF i <= copied THEN 0 ELSE staged[i]]
        /\ dPc' = "read"
        /\ UNCHANGED <<ring, copied, noAvail, waiting, committed, dHeard, logs>>
    BY <1>3 DEF Debug!SendStaged
  <2>2. waiting /\ ~noAvail /\ dAnswer = None
    BY <2>1 DEF DebugInv, OneSignal
  <2>3. staged' = Debug!Zeros
    <3>1. \A i \in 1 .. FrameSize : IF i <= copied THEN TRUE ELSE staged[i] = 0
      BY <1>0, <2>1 DEF DebugInv, DebugTypes, StagedClear
    <3>2. \A i \in 1 .. FrameSize : (IF i <= copied THEN 0 ELSE staged[i]) = 0
      BY ONLY <3>1
    <3> QED  BY ONLY <2>1, <3>2 DEF Debug!Zeros
  <2>4. dAnswer' # None /\ dAnswer'.ok = TRUE /\ dAnswer'.bytes = staged
    BY <1>0, <1>c, <2>1
  <2>5. DebugTypes'
    BY <1>0, <1>b, <2>1, <2>3, <2>4 DEF DebugInv, DebugTypes
  <2>6. StagedClear'
    BY <2>1, <2>3 DEF StagedClear, Debug!Zeros
  <2>7. OneSignal'
    BY ONLY <2>1, <2>2, <2>4 DEF OneSignal
  <2>8. FramesInPlace'
    <3> HIDE DEF Bytes
    <3>1. OnItsWay = <<>> /\ OnItsWay' = <<staged>> /\ WaitsFor = <<staged>> /\ WaitsFor' = <<>>
      BY <2>1, <2>2, <2>4 DEF WaitsFor, OnItsWay
    <3>2. dHeard \o <<>> = dHeard
      BY <1>0, FramesJoin
    <3>3. (dHeard \o <<staged>>) \o <<>> = dHeard \o <<staged>>
      <4>1. <<staged>> \in Seq(Bytes)
        BY <1>0
      <4>2. dHeard \o <<staged>> \in Seq(Bytes)
        BY <4>1, <1>0, FramesJoin
      <4> QED  BY <4>2, FramesJoin
    <3>4. Pad(committed)' = Pad(committed) /\ Pad(ring)' = Pad(ring) /\ dHeard' = dHeard
      BY <2>1 DEF Pad, Debug!Over, Debug!Zeros
    <3> QED  BY <1>d, <3>1, <3>2, <3>3, <3>4 DEF FramesInPlace
  <2> QED  BY <2>5, <2>6, <2>7, <2>8 DEF DebugInv
<1>4. CASE Debug!SendNoFrame
  <2>1. /\ noAvail /\ noAvail' = FALSE /\ dAnswer' = [ok |-> FALSE, bytes |-> Debug!Zeros]
        /\ UNCHANGED <<ring, dPc, staged, copied, notify, waiting, committed, dHeard, logs>>
    BY <1>4 DEF Debug!SendNoFrame
  <2>2. waiting /\ ~notify /\ dAnswer = None
    BY <2>1 DEF DebugInv, OneSignal
  <2>3. dAnswer' # None /\ dAnswer'.ok = FALSE
    BY <1>b, <1>c, <2>1
  <2>4. DebugTypes'
    BY <2>1, <2>3 DEF DebugInv, DebugTypes
  <2>5. StagedClear'
    BY <2>1 DEF DebugInv, StagedClear, Debug!Zeros
  <2>6. OneSignal'
    BY ONLY <2>1, <2>2, <2>3 DEF OneSignal
  <2>7. OnItsWay = <<>> /\ OnItsWay' = <<>> /\ WaitsFor' = WaitsFor
    BY <2>1, <2>2, <2>3 DEF OnItsWay, WaitsFor
  <2>8. Pad(committed)' = Pad(committed) /\ Pad(ring)' = Pad(ring) /\ dHeard' = dHeard
    BY <2>1 DEF Pad, Debug!Over, Debug!Zeros
  <2> QED  BY <1>d, <2>4, <2>5, <2>6, <2>7, <2>8 DEF DebugInv, FramesInPlace
<1>5. CASE Debug!ProcessRequest
  <2>1. UNCHANGED <<ring, dPc, staged, copied, dAnswer, committed, dHeard, logs>>
    BY <1>5 DEF Debug!ProcessRequest
  <2>2. /\ ~waiting /\ waiting' = TRUE
        /\ \/ notify' = TRUE /\ noAvail' = noAvail
           \/ noAvail' = TRUE /\ notify' = notify
    BY <1>5 DEF Debug!ProcessRequest
  <2>3. dAnswer' = dAnswer
    BY <2>1
  <2>4. OneSignal'
    BY ONLY DebugInv, <2>2, <2>3 DEF DebugInv, OneSignal
  <2>5. DebugTypes' /\ StagedClear'
    BY <2>1 DEF DebugInv, DebugTypes, StagedClear, Debug!Zeros
  <2>6. FramesInPlace'
    BY <1>d, <2>1 DEF FramesInPlace, OnItsWay, WaitsFor, Pad, Debug!Over, Debug!Zeros
  <2> QED  BY <2>4, <2>5, <2>6 DEF DebugInv
<1>6. CASE Debug!TakeAnswer
  <2>1. /\ waiting /\ dAnswer # None /\ dAnswer' = None /\ waiting' = FALSE
        /\ dHeard' = IF dAnswer.ok THEN Append(dHeard, dAnswer.bytes) ELSE dHeard
        /\ UNCHANGED <<ring, dPc, staged, copied, notify, noAvail, committed, logs>>
    BY <1>6 DEF Debug!TakeAnswer
  <2>2. ~notify /\ ~noAvail
    BY <2>1 DEF DebugInv, OneSignal
  <2>3. OneSignal'
    BY ONLY <2>1, <2>2 DEF OneSignal
  <2>4. dHeard' = dHeard \o OnItsWay
    <3> HIDE DEF Bytes
    <3>1. CASE dAnswer.ok
      <4>1. OnItsWay = <<dAnswer.bytes>> /\ dAnswer.bytes \in Bytes
        BY <2>1, <3>1 DEF DebugInv, DebugTypes, OnItsWay
      <4> QED  BY <1>0, <2>1, <3>1, <4>1, AppendIsConcat
    <3>2. CASE ~dAnswer.ok
      BY <1>0, <2>1, <3>2, FramesJoin DEF OnItsWay
    <3> QED  BY <3>1, <3>2
  <2>5. DebugTypes'
    BY <1>a, <2>1, <2>4 DEF DebugInv, DebugTypes
  <2>6. StagedClear'
    BY <2>1 DEF DebugInv, StagedClear, Debug!Zeros
  <2>7. OnItsWay' = <<>> /\ WaitsFor' = WaitsFor
    BY <2>1 DEF OnItsWay, WaitsFor
  <2>8. Pad(committed)' = Pad(committed) /\ Pad(ring)' = Pad(ring)
    BY <2>1 DEF Pad, Debug!Over, Debug!Zeros
  <2>9. dHeard' \o <<>> = dHeard'
    BY <1>a, <2>4, FramesJoin
  <2> QED  BY <1>d, <2>3, <2>4, <2>5, <2>6, <2>7, <2>8, <2>9 DEF DebugInv, FramesInPlace
<1>7. CASE UNCHANGED dVars
  <2>1. UNCHANGED <<ring, dPc, staged, copied, dAnswer, committed, dHeard, logs>>
    BY <1>7 DEF dVars
  <2>2. UNCHANGED <<notify, noAvail, waiting, dAnswer>>
    BY <1>7 DEF dVars
  <2>3. DebugTypes' /\ StagedClear'
    BY <2>1 DEF DebugInv, DebugTypes, StagedClear, Debug!Zeros
  <2>4. OneSignal'
    BY ONLY DebugInv, <2>2 DEF DebugInv, OneSignal
  <2>5. FramesInPlace'
    BY <1>d, <2>1 DEF FramesInPlace, OnItsWay, WaitsFor, Pad, Debug!Over, Debug!Zeros
  <2> QED  BY <2>3, <2>4, <2>5 DEF DebugInv
<1> QED  BY <1>1, <1>2, <1>3, <1>4, <1>5, <1>6, <1>7 DEF Debug!Next

LEMMA DebugInvImplies == DebugInv => Debug!DebugHonest
<1> SUFFICES ASSUME DebugInv PROVE Debug!DebugHonest
  OBVIOUS
<1>1. Debug!FramesKept
  BY DEF DebugInv, FramesInPlace, OnItsWay, WaitsFor, Pad, Debug!FramesKept
<1>2. Debug!OneAnswer
  BY DEF DebugInv, OneSignal, Debug!OneAnswer
<1> QED  BY <1>1, <1>2 DEF Debug!DebugHonest

LEMMA SuiteDebug == [SuiteNext]_allVars => [Debug!Next]_dVars
BY Zenon DEF SuiteNext, allVars

-----------------------------------------------------------------------------
(* The transports and the relay.                                           *)

LinkFrames == [id : Nat, kind : Relay!Kinds, call : Calls]
Entries == [of : Nat, service : {c.service : c \in Calls},
            result : UNION {Relay!Results(c.service, c.cmd) : c \in Calls}]
Sent == [of : Nat, service : {c.service : c \in Calls},
         result : UNION {Relay!Results(c.service, c.cmd) : c \in Calls}, k : Nat]
Outcomes == {"sent", "queued", "answered", "failed", "bad", "swept", "cut", "refused"}
Written == [of : Nat, k : Nat]

LinkTypes ==
    /\ transport \in {"uart", "espi"}
    /\ inbox \in Seq(LinkFrames) /\ queue \in Seq(Entries) /\ heard \in Seq(Written)
    /\ lJob \in {None} \cup LinkFrames
    /\ sending \in {None} \cup Sent
    /\ outcome \in Seq(Outcomes)
    /\ owed \in Nat

\* Where the service is: it holds a frame or a result where it works on one, and
\* on the UART nothing waits while a request is read.
LinkWhere ==
    /\ Relay!TypeOK
    /\ lPc = "event" => transport = "espi"
    /\ lPc = "respond" => transport = "uart"
    /\ transport = "uart" => /\ lPc # "respond" => queue = <<>>
                             /\ Len(queue) <= 1
                             /\ lPc = "process" => sending = None

\* What the host has heard of, what is sent to it, the results and the frames that
\* wait follow each other in the order in which the host sent the frames.
LastHeard == IF heard = <<>> THEN 0 ELSE heard[Len(heard)].of

LinkOrder ==
    /\ \A i, j \in 1 .. Len(inbox) : i < j => inbox[i].id < inbox[j].id
    /\ \A i \in 1 .. Len(inbox) : inbox[i].id \in 1 .. Len(outcome) /\ LastHeard < inbox[i].id
    /\ \A i, j \in 1 .. Len(queue) : i < j => queue[i].of < queue[j].of
    /\ \A i \in 1 .. Len(queue) : queue[i].of \in 1 .. Len(outcome) /\ LastHeard < queue[i].of
    /\ \A i \in 1 .. Len(queue), j \in 1 .. Len(inbox) : queue[i].of < inbox[j].id
    /\ LastHeard <= Len(outcome)

JobOrder ==
    lJob # None =>
        /\ lJob.id \in 1 .. Len(outcome) /\ LastHeard < lJob.id
        /\ \A i \in 1 .. Len(inbox) : lJob.id < inbox[i].id
        /\ \A i \in 1 .. Len(queue) : queue[i].of < lJob.id

SendingOrder ==
    sending # None =>
        /\ sending.of \in 1 .. Len(outcome)
        /\ lJob # None => sending.of < lJob.id
        /\ \A i \in 1 .. Len(inbox) : sending.of < inbox[i].id
        /\ \A i \in 1 .. Len(queue) : sending.of < queue[i].of
        /\ IF sending.k = 0 THEN LastHeard < sending.of
           ELSE heard # <<>> /\ heard[Len(heard)] = [of |-> sending.of, k |-> sending.k]

\* A frame that the service has, or whose result it has, is not settled; and with
\* a host that waits only its last frame is not.
AllOpen ==
    /\ \A i \in 1 .. Len(inbox) : outcome[inbox[i].id] \in Relay!Open
    /\ \A i \in 1 .. Len(queue) : outcome[queue[i].of] \in Relay!Open
    /\ lJob # None => outcome[lJob.id] \in Relay!Open
    /\ sending # None => outcome[sending.of] \in Relay!Open
    /\ eager \/ \A i \in 1 .. Len(outcome) : i < Len(outcome) => outcome[i] \notin Relay!Open

LinkInv ==
    /\ LinkTypes /\ LinkWhere /\ LinkOrder /\ JobOrder /\ SendingOrder /\ AllOpen
    /\ Relay!InOrder /\ Relay!PatientAnswered

LEMMA LinkNotNone == None \notin LinkFrames /\ None \notin Sent /\ QueueSize \in Nat \ {0}
BY LinkAssumption, Zenon DEF LinkFrames, Sent

LEMMA LastHeardNumber == LinkTypes => LastHeard \in Nat
<1> SUFFICES ASSUME LinkTypes, heard # <<>> PROVE heard[Len(heard)].of \in Nat
  BY DEF LastHeard
<1>1. heard \in Seq(Written)
  BY DEF LinkTypes
<1>2. Len(heard) \in Nat /\ Len(heard) # 0
  BY <1>1, EmptySeq
<1>3. heard[Len(heard)] \in Written
  BY <1>1, <1>2, ElementOfSeq
<1> QED  BY <1>3 DEF Written

LEMMA LinkInit == Relay!Init => LinkInv
<1> SUFFICES ASSUME Relay!Init PROVE LinkInv
  OBVIOUS
<1>1. LinkTypes /\ LinkWhere
  BY LinkNotNone DEF Relay!Init, LinkTypes, LinkWhere, Relay!TypeOK
<1>2. LinkOrder /\ JobOrder /\ SendingOrder /\ AllOpen
  BY DEF Relay!Init, LinkOrder, JobOrder, SendingOrder, AllOpen, LastHeard
<1>3. Relay!InOrder /\ Relay!PatientAnswered
  BY DEF Relay!Init, Relay!InOrder, Relay!PatientAnswered
<1> QED  BY <1>1, <1>2, <1>3 DEF LinkInv

LEMMA HostSendKeeps ==
    ASSUME LinkInv, NEW kind \in Relay!Kinds, NEW call \in Calls, Relay!HostSend(kind, call)
    PROVE  LinkInv'
<1> DEFINE N == Len(outcome)
           f == [id |-> N + 1, kind |-> kind, call |-> call]
<1>1. /\ inbox' = Append(inbox, f) /\ outcome' = Append(outcome, "sent")
      /\ eager' = (eager \/ \E i \in 1 .. N : outcome[i] \in Relay!Open)
      /\ UNCHANGED <<transport, lPc, lJob, queue, sending, owed, heard>>
  BY DEF Relay!HostSend
<1>2. N \in Nat /\ f \in LinkFrames /\ f.id = N + 1
  BY DEF LinkInv, LinkTypes, LinkFrames
<1> HIDE DEF f
<1>3. /\ inbox' \in Seq(LinkFrames) /\ Len(inbox') = Len(inbox) + 1 /\ Len(inbox) \in Nat
      /\ \A i \in 1 .. Len(inbox) : inbox'[i] = inbox[i]
      /\ inbox'[Len(inbox) + 1].id = N + 1
  BY <1>1, <1>2, AppendProperties DEF LinkInv, LinkTypes
<1>4. /\ outcome' \in Seq(Outcomes) /\ Len(outcome') = N + 1
      /\ \A i \in 1 .. N : outcome'[i] = outcome[i]
      /\ outcome'[N + 1] = "sent"
  BY <1>1, AppendProperties DEF LinkInv, LinkTypes, Outcomes
<1> HIDE DEF N
<1>5. /\ \A i \in 1 .. Len(inbox') : i \in 1 .. Len(inbox) \/ i = Len(inbox) + 1
      /\ \A i \in 1 .. N : i \in 1 .. N + 1 /\ i < N + 1
      /\ \A i \in 1 .. N + 1 : i < N + 1 => i \in 1 .. N
      /\ N + 1 \in 1 .. N + 1
  BY <1>2, <1>3
<1>6. UNCHANGED <<transport, lPc, lJob, queue, sending, owed, heard>> /\ LastHeard' = LastHeard
  BY <1>1 DEF LastHeard
<1>7. LinkTypes' /\ LinkWhere'
  BY <1>3, <1>4, <1>6 DEF LinkInv, LinkTypes, LinkWhere, Relay!TypeOK
<1>8. LinkOrder'
  <2>1. ASSUME NEW i \in 1 .. Len(inbox'), NEW j \in 1 .. Len(inbox'), i < j
        PROVE  inbox'[i].id < inbox'[j].id
    <3>1. i \in 1 .. Len(inbox)
      BY <1>3, <2>1
    <3>2. inbox'[i] = inbox[i] /\ inbox[i].id < N + 1
      BY <1>3, <1>5, <3>1 DEF LinkInv, LinkOrder, N
    <3>3. CASE j = Len(inbox) + 1
      BY <1>3, <3>2, <3>3
    <3>4. CASE j \in 1 .. Len(inbox)
      BY <1>3, <2>1, <3>1, <3>2, <3>4 DEF LinkInv, LinkOrder
    <3> QED  BY <1>5, <3>3, <3>4
  <2>2. \A i \in 1 .. Len(inbox') : inbox'[i].id \in 1 .. N + 1 /\ LastHeard' < inbox'[i].id
    BY <1>2, <1>3, <1>5, <1>6, LastHeardNumber DEF LinkInv, LinkOrder, N
  <2>3. \A i \in 1 .. Len(queue), j \in 1 .. Len(inbox') : queue[i].of < inbox'[j].id
    BY <1>3, <1>5 DEF LinkInv, LinkOrder, N
  <2>4. /\ \A i \in 1 .. Len(queue) : queue[i].of \in 1 .. N + 1
        /\ LastHeard <= N + 1
    <3>1. LastHeard \in Nat
      BY LastHeardNumber DEF LinkInv
    <3> QED  BY <1>2, <1>5, <3>1 DEF LinkInv, LinkOrder, N
  <2> QED  BY <1>4, <1>6, <2>1, <2>2, <2>3, <2>4 DEF LinkInv, LinkOrder
<1>9. JobOrder'
  BY <1>3, <1>4, <1>5, <1>6 DEF LinkInv, JobOrder, N
<1>10. SendingOrder'
  BY <1>3, <1>4, <1>5, <1>6 DEF LinkInv, SendingOrder, N
<1>11. AllOpen'
  <2>1. \A i \in 1 .. Len(inbox') : outcome'[inbox'[i].id] \in Relay!Open
    BY <1>3, <1>4, <1>5 DEF LinkInv, LinkOrder, AllOpen, N, Relay!Open
  <2>2. /\ \A i \in 1 .. Len(queue) : outcome'[queue[i].of] \in Relay!Open
        /\ lJob # None => outcome'[lJob.id] \in Relay!Open
        /\ sending # None => outcome'[sending.of] \in Relay!Open
    BY <1>4 DEF LinkInv, LinkOrder, JobOrder, SendingOrder, AllOpen, N
  <2>3. eager' \/ \A i \in 1 .. Len(outcome') : i < Len(outcome') => outcome'[i] \notin Relay!Open
    BY <1>1, <1>4, <1>5
  <2> QED  BY <1>6, <2>1, <2>2, <2>3 DEF AllOpen
<1>12. Relay!InOrder'
  BY <1>6 DEF LinkInv, Relay!InOrder
<1>13. Relay!PatientAnswered'
  <2>1. DOMAIN outcome = 1 .. N /\ DOMAIN outcome' = 1 .. N + 1
    BY <1>4 DEF LinkInv, LinkTypes, N
  <2>2. \A i \in 1 .. N + 1 : i \in 1 .. N \/ i = N + 1
    BY <1>2
  <2>3. eager => eager'
    BY <1>1
  <2> QED  BY <1>4, <1>6, <2>1, <2>2, <2>3 DEF LinkInv, Relay!PatientAnswered
<1> QED  BY <1>7, <1>8, <1>9, <1>10, <1>11, <1>12, <1>13 DEF LinkInv

\* A mark leaves a sequence of outcomes as long as it was.
LEMMA Marked ==
    ASSUME LinkTypes, outcome' = [i \in DOMAIN outcome |-> outcome'[i]],
           \A i \in 1 .. Len(outcome) : outcome'[i] \in Outcomes
    PROVE  /\ outcome' \in Seq(Outcomes) /\ Len(outcome') = Len(outcome)
           /\ DOMAIN outcome' = 1 .. Len(outcome) /\ DOMAIN outcome = 1 .. Len(outcome)
<1> HIDE DEF Outcomes
<1>1. DOMAIN outcome = 1 .. Len(outcome) /\ Len(outcome) \in Nat
  BY DEF LinkTypes
<1>2. outcome' = [i \in 1 .. Len(outcome) |-> outcome'[i]]
  BY <1>1
<1>3. outcome' \in [1 .. Len(outcome) -> Outcomes]
  BY <1>2
<1> QED  BY <1>1, <1>3

\* A read takes the first frames, and leaves the numbers of the others.
LEMMA Overread ==
    ASSUME LinkInv, NEW n \in 0 .. MaxFrames, NEW torn \in BOOLEAN, Relay!Overread(n, torn)
    PROVE  /\ inbox' \in Seq(LinkFrames) /\ n + 1 \in 1 .. Len(inbox)
           /\ Len(inbox') = Len(inbox) - (n + 1) /\ Len(inbox) \in Nat /\ n \in Nat
           /\ \A i \in 1 .. Len(inbox') :
                 i + n + 1 \in 1 .. Len(inbox) /\ inbox'[i].id = inbox[i + n + 1].id
<1> DEFINE rest == SubSeq(inbox, n + 2, Len(inbox))
<1>1. inbox \in Seq(LinkFrames) /\ Len(inbox) \in Nat /\ n \in Nat
  BY DEF LinkInv, LinkTypes
<1>2. n + 1 \in 1 .. Len(inbox)
  BY <1>1 DEF Relay!Overread
<1>3. /\ rest \in Seq(LinkFrames) /\ Len(rest) = Len(inbox) - (n + 1)
      /\ \A i \in 1 .. Len(rest) : rest[i] = inbox[i + n + 1]
  <2>1. \A i \in n + 2 .. Len(inbox) : i \in 1 .. Len(inbox)
    BY <1>1
  <2>2. n + 2 \in 1 .. Len(inbox) + 1 /\ Len(inbox) \in n + 1 .. Len(inbox)
    BY <1>1, <1>2
  <2>3. /\ rest \in Seq(LinkFrames)
        /\ Len(rest) = IF n + 2 <= Len(inbox) THEN Len(inbox) - (n + 2) + 1 ELSE 0
        /\ \A i \in 1 .. Len(inbox) - (n + 2) + 1 : rest[i] = inbox[n + 2 + i - 1]
    BY <1>1, <2>1, <2>2, SubSeqProperties
  <2>4. Len(rest) = Len(inbox) - (n + 1)
    BY <1>1, <1>2, <2>3
  <2> HIDE DEF rest
  <2> QED  BY <1>1, <2>3, <2>4
<1> HIDE DEF rest
<1>4. inbox' = IF torn THEN [rest EXCEPT ![1].kind = "malformed"] ELSE rest
  BY DEF Relay!Overread, rest
<1>5. torn => rest # <<>>
  BY DEF Relay!Overread, rest
<1>6. CASE ~torn
  BY <1>1, <1>2, <1>3, <1>4, <1>6
<1>7. CASE torn
  <2>1. Len(rest) \in Nat /\ Len(rest) # 0 /\ 1 \in 1 .. Len(rest)
    BY <1>3, <1>5, <1>7, EmptySeq
  <2>2. rest[1] \in LinkFrames
    BY <1>3, <2>1
  <2> DEFINE g == [rest[1] EXCEPT !.kind = "malformed"]
  <2>3. g \in LinkFrames /\ g.id = rest[1].id
    BY <2>2 DEF LinkFrames, Relay!Kinds
  <2>4. inbox' = [rest EXCEPT ![1] = g]
    BY <1>4, <1>7
  <2> HIDE DEF g
  <2>5. inbox' \in Seq(LinkFrames) /\ Len(inbox') = Len(rest)
    BY <1>3, <2>1, <2>3, <2>4
  <2>6. \A i \in 1 .. Len(rest) : inbox'[i] = IF i = 1 THEN g ELSE rest[i]
    BY <1>3, <2>4
  <2> QED  BY <1>1, <1>2, <1>3, <2>3, <2>5, <2>6
<1> QED  BY <1>6, <1>7

LEMMA TakeFrameKeeps ==
    ASSUME LinkInv, NEW n \in 0 .. MaxFrames, NEW torn \in BOOLEAN, Relay!TakeFrame(n, torn)
    PROVE  LinkInv'
<1> DEFINE f == inbox[1]
           swept == {inbox[i].id : i \in 2 .. n + 1}
           N == Len(outcome)
<1>0. Relay!Overread(n, torn)
  BY DEF Relay!TakeFrame
<1>1. /\ inbox' \in Seq(LinkFrames) /\ n + 1 \in 1 .. Len(inbox)
      /\ Len(inbox') = Len(inbox) - (n + 1) /\ Len(inbox) \in Nat /\ n \in Nat
      /\ \A i \in 1 .. Len(inbox') :
            i + n + 1 \in 1 .. Len(inbox) /\ inbox'[i].id = inbox[i + n + 1].id
  BY <1>0, Overread
<1>2. /\ lPc \in {"idle", "event"}
      /\ UNCHANGED <<transport, queue, owed, heard, eager>>
  BY DEF Relay!TakeFrame
<1>a. LastHeard' = LastHeard
  BY <1>2 DEF LastHeard
<1>3. /\ f \in LinkFrames /\ N \in Nat /\ f.id \in 1 .. N /\ LastHeard < f.id
      /\ lJob = None /\ 1 \in 1 .. Len(inbox)
  <2>1. 1 \in 1 .. Len(inbox)
    BY <1>1
  <2>2. f \in LinkFrames /\ N \in Nat
    BY <2>1 DEF LinkInv, LinkTypes
  <2> QED  BY <1>2, <2>1, <2>2 DEF LinkInv, LinkOrder, LinkWhere, Relay!TypeOK
<1>4. /\ \A i \in 1 .. Len(inbox') : f.id < inbox'[i].id /\ inbox'[i].id \notin swept
      /\ \A i \in 1 .. Len(queue) : queue[i].of < f.id /\ queue[i].of \notin swept
      /\ f.id \notin swept
      /\ sending # None => sending.of < f.id /\ sending.of \notin swept
      /\ \A i \in 1 .. Len(inbox') :
            outcome[inbox'[i].id] \in Relay!Open /\ inbox'[i].id \in 1 .. N /\ LastHeard < inbox'[i].id
  <2>1. ASSUME NEW i \in 2 .. n + 1 PROVE i \in 1 .. Len(inbox) /\ f.id < inbox[i].id /\ inbox[i].id \in 1 .. N
    <3>1. i \in 1 .. Len(inbox) /\ 1 < i
      BY <1>1
    <3> QED  BY <1>3, <3>1 DEF LinkInv, LinkOrder
  <2>2. ASSUME NEW i \in 1 .. Len(inbox')
        PROVE  /\ f.id < inbox'[i].id /\ inbox'[i].id \notin swept
               /\ outcome[inbox'[i].id] \in Relay!Open /\ inbox'[i].id \in 1 .. N
               /\ LastHeard < inbox'[i].id
    <3> DEFINE j == i + n + 1
    <3>1. j \in 1 .. Len(inbox) /\ inbox'[i].id = inbox[j].id /\ 1 < j
      BY <1>1
    <3>2. \A m \in 2 .. n + 1 : m \in 1 .. Len(inbox) /\ m < j
      BY <1>1
    <3> HIDE DEF j
    <3>3. \A m \in 2 .. n + 1 : inbox[m].id < inbox[j].id /\ inbox[m].id \in Nat /\ inbox[j].id \in Nat
      BY <3>1, <3>2 DEF LinkInv, LinkOrder
    <3> QED  BY <1>3, <3>1, <3>3 DEF LinkInv, LinkOrder, AllOpen
  <2>3. ASSUME NEW i \in 1 .. Len(queue) PROVE queue[i].of < f.id /\ queue[i].of \notin swept
    <3>1. queue[i].of \in 1 .. N /\ queue[i].of < f.id
      BY <1>3 DEF LinkInv, LinkOrder
    <3> QED  BY <1>3, <2>1, <3>1
  <2>4. f.id \notin swept
    BY <1>3, <2>1
  <2>5. ASSUME sending # None PROVE sending.of < f.id /\ sending.of \notin swept
    <3>1. sending.of \in 1 .. N /\ sending.of < f.id
      BY <1>3, <2>5 DEF LinkInv, SendingOrder
    <3> QED  BY <1>3, <2>1, <3>1
  <2> QED  BY <2>2, <2>3, <2>4, <2>5
<1>5. \A i, j \in 1 .. Len(inbox') : i < j => inbox'[i].id < inbox'[j].id
  <2> SUFFICES ASSUME NEW i \in 1 .. Len(inbox'), NEW j \in 1 .. Len(inbox'), i < j
               PROVE  inbox'[i].id < inbox'[j].id
    OBVIOUS
  <2>1. i + n + 1 < j + n + 1
    BY <1>1
  <2> QED  BY <1>1, <2>1 DEF LinkInv, LinkOrder
<1>6. \A i \in 1 .. Len(queue), j \in 1 .. Len(inbox') : queue[i].of < inbox'[j].id
  BY <1>1 DEF LinkInv, LinkOrder
<1>7. Relay!InOrder'
  BY <1>2 DEF LinkInv, Relay!InOrder
<1>8. DOMAIN outcome = 1 .. N
  BY DEF LinkInv, LinkTypes
<1>9. CASE /\ f.kind = "request" /\ lPc' = "process" /\ lJob' = f
           /\ outcome' = Relay!Mark(swept, "swept") /\ sending' = sending
  <2> HIDE DEF swept, f
  <2>1. /\ outcome' = [i \in DOMAIN outcome |-> outcome'[i]]
        /\ \A i \in 1 .. N : outcome'[i] = IF i \in swept THEN "swept" ELSE outcome[i]
    BY <1>8, <1>9 DEF Relay!Mark
  <2>2. \A i \in 1 .. N : outcome'[i] \in Outcomes
    BY <2>1 DEF LinkInv, LinkTypes, Outcomes
  <2>3. /\ outcome' \in Seq(Outcomes) /\ Len(outcome') = N
        /\ DOMAIN outcome' = 1 .. N
    BY <2>1, <2>2, Marked DEF LinkInv
  <2> HIDE DEF N
  <2>4. LinkTypes'
    BY <1>1, <1>2, <1>3, <1>9, <2>3 DEF LinkInv, LinkTypes
  <2>5. LinkWhere'
    BY <1>2, <1>3, <1>9, LinkNotNone DEF LinkInv, LinkWhere, Relay!TypeOK
  <2>6. LinkOrder'
    BY <1>a, <1>2, <1>4, <1>5, <1>6, <2>3 DEF LinkInv, LinkOrder, N
  <2>7. JobOrder'
    BY <1>a, <1>2, <1>3, <1>4, <1>9, <2>3 DEF JobOrder
  <2>8. SendingOrder'
    <3>1. sending # None => \A i \in 1 .. Len(inbox') : sending.of < inbox'[i].id
      BY <1>1 DEF LinkInv, SendingOrder
    <3> QED  BY <1>a, <1>2, <1>4, <1>9, <2>3, <3>1 DEF LinkInv, SendingOrder, N
  <2>9. AllOpen'
    <3>1. \A i \in 1 .. Len(inbox') : outcome'[inbox'[i].id] \in Relay!Open
      BY <1>4, <2>1
    <3>2. \A i \in 1 .. Len(queue) : outcome'[queue[i].of] \in Relay!Open
      BY <1>4, <2>1 DEF LinkInv, LinkOrder, AllOpen, N
    <3>3. outcome'[f.id] \in Relay!Open
      BY <1>3, <1>4, <2>1 DEF LinkInv, AllOpen, f
    <3>4. sending # None => outcome'[sending.of] \in Relay!Open
      BY <1>4, <2>1 DEF LinkInv, SendingOrder, AllOpen, N
    <3>5. eager \/ \A i \in 1 .. N : i < N => outcome'[i] \notin Relay!Open
      BY <2>1 DEF LinkInv, AllOpen, N, Relay!Open
    <3> QED  BY <1>2, <1>9, <2>3, <3>1, <3>2, <3>3, <3>4, <3>5 DEF AllOpen
  <2>10. Relay!PatientAnswered'
    BY <1>2, <1>8, <2>1, <2>3 DEF LinkInv, Relay!PatientAnswered
  <2> QED  BY <1>7, <2>4, <2>5, <2>6, <2>7, <2>8, <2>9, <2>10 DEF LinkInv
<1>10. CASE /\ f.kind # "request" /\ lPc' = Relay!Abort.pc /\ sending' = Relay!Abort.sending
            /\ outcome' = [i \in DOMAIN outcome |->
                             CASE i = f.id -> "bad"
                               [] i \in Relay!Abort.cut -> "cut"
                               [] i \in swept -> "swept"
                               [] OTHER -> outcome[i]]
            /\ lJob' = lJob
  <2> HIDE DEF swept, f
  <2>1. /\ lPc' = "idle" /\ sending' = None /\ lJob' = None
        /\ Relay!Abort.cut = IF sending = None THEN {} ELSE {sending.of}
    BY <1>3, <1>10 DEF Relay!Abort
  <2>2. \A i \in 1 .. N :
           /\ outcome'[i] \in Outcomes
           /\ outcome'[i] # outcome[i] => outcome'[i] \notin Relay!Open /\ outcome'[i] # "refused"
           /\ outcome'[i] = "cut" => outcome[i] = "cut" \/ (sending # None /\ i = sending.of)
    BY <1>8, <1>10, <2>1 DEF LinkInv, LinkTypes, Outcomes, Relay!Open
  <2>3. \A i \in 1 .. N : i > f.id /\ i \notin swept => outcome'[i] = outcome[i]
    <3>1. sending # None => sending.of \in 1 .. N /\ sending.of < f.id
      BY <1>4 DEF LinkInv, SendingOrder
    <3> QED  BY <1>3, <1>8, <1>10, <2>1, <3>1
  <2>4. \A i \in 1 .. N : i < f.id /\ i \notin swept /\ (sending # None => i # sending.of)
                             => outcome'[i] = outcome[i]
    BY <1>3, <1>8, <1>10, <2>1
  <2>5. outcome' = [i \in DOMAIN outcome |-> outcome'[i]]
    BY <1>10
  <2>6. /\ outcome' \in Seq(Outcomes) /\ Len(outcome') = N
        /\ DOMAIN outcome' = 1 .. N
    BY <2>2, <2>5, Marked DEF LinkInv
  <2> HIDE DEF N
  <2>7. LinkTypes'
    BY <1>1, <1>2, <1>3, <2>1, <2>6 DEF LinkInv, LinkTypes
  <2>8. LinkWhere'
    BY <1>2, <1>3, <2>1, LinkNotNone DEF LinkInv, LinkWhere, Relay!TypeOK
  <2>9. LinkOrder'
    BY <1>a, <1>2, <1>4, <1>5, <1>6, <2>6 DEF LinkInv, LinkOrder, N
  <2>10. JobOrder' /\ SendingOrder'
    BY <2>1 DEF JobOrder, SendingOrder
  <2>11. AllOpen'
    <3>1. \A i \in 1 .. Len(inbox') : outcome'[inbox'[i].id] \in Relay!Open
      BY <1>3, <1>4, <2>3
    <3>2. \A i \in 1 .. Len(queue) : queue[i].of \in 1 .. N /\ (sending # None => queue[i].of # sending.of)
      BY DEF LinkInv, LinkTypes, LinkOrder, SendingOrder, N
    <3>3. \A i \in 1 .. Len(queue) : outcome'[queue[i].of] \in Relay!Open
      BY <1>4, <2>4, <3>2 DEF LinkInv, AllOpen
    <3>4. eager \/ \A i \in 1 .. N : i < N => outcome'[i] \notin Relay!Open
      BY <2>2 DEF LinkInv, AllOpen, N
    <3> QED  BY <1>2, <2>1, <2>6, <3>1, <3>3, <3>4 DEF AllOpen
  <2>12. Relay!PatientAnswered'
    <3>1. CASE sending = None
      BY <1>2, <1>8, <2>2, <2>6, <3>1 DEF LinkInv, Relay!PatientAnswered, Relay!Open
    <3>2. CASE sending # None
      <4>1. transport = "espi"
        BY <1>2, <3>2 DEF LinkInv, LinkWhere, Relay!TypeOK
      <4>2. sending.of \in 1 .. N /\ sending.of < N /\ outcome[sending.of] \in Relay!Open
        BY <1>3, <1>4, <3>2 DEF LinkInv, SendingOrder, AllOpen, N
      <4>3. eager
        BY <4>2 DEF LinkInv, AllOpen, N
      <4> QED  BY <1>2, <4>1, <4>3 DEF Relay!PatientAnswered
    <3> QED  BY <3>1, <3>2
  <2> QED  BY <1>7, <2>7, <2>8, <2>9, <2>10, <2>11, <2>12 DEF LinkInv
<1> QED  BY <1>9, <1>10 DEF Relay!TakeFrame

\* One outcome is written.
LEMMA OutcomeSet ==
    ASSUME LinkTypes, NEW id \in 1 .. Len(outcome), NEW what \in Outcomes,
           outcome' = [outcome EXCEPT ![id] = what]
    PROVE  /\ outcome' \in Seq(Outcomes) /\ Len(outcome') = Len(outcome)
           /\ DOMAIN outcome' = 1 .. Len(outcome) /\ DOMAIN outcome = 1 .. Len(outcome)
           /\ \A i \in 1 .. Len(outcome) : outcome'[i] = IF i = id THEN what ELSE outcome[i]
<1> HIDE DEF Outcomes
<1>1. outcome \in Seq(Outcomes)
  BY DEF LinkTypes
<1> QED  BY <1>1, ExceptSeq

LEMMA ProcessKeeps ==
    ASSUME LinkInv, lPc = "process",
           NEW r \in Relay!Results(lJob.call.service, lJob.call.cmd), Relay!Process(r)
    PROVE  LinkInv'
<1> DEFINE N == Len(outcome)
<1>1. lJob # None /\ lJob \in LinkFrames /\ lJob.call \in Calls /\ lJob.id \in 1 .. N /\ N \in Nat
  BY DEF LinkInv, LinkTypes, LinkWhere, Relay!TypeOK, JobOrder, LinkFrames
<1>2. lJob' = None /\ UNCHANGED <<transport, inbox, owed, heard, eager>>
  BY DEF Relay!Process
<1>3. LastHeard' = LastHeard /\ Relay!InOrder'
  BY <1>2 DEF LastHeard, LinkInv, Relay!InOrder
<1>4. DOMAIN outcome = 1 .. N
  BY DEF LinkInv, LinkTypes
<1>5. queue \in Seq(Entries) /\ Len(queue) \in Nat
  BY DEF LinkInv, LinkTypes
<1>6. CASE Len(queue) < QueueSize
  <2> DEFINE e == [of |-> lJob.id, service |-> lJob.call.service, result |-> r]
  <2>1. /\ queue' = Append(queue, e) /\ outcome' = [outcome EXCEPT ![lJob.id] = "queued"]
        /\ lPc' = CASE transport = "uart" -> "respond"
                    [] sending # None -> "send"
                    [] OTHER -> "idle"
        /\ sending' = sending
    BY <1>6 DEF Relay!Process
  <2>2. e \in Entries /\ e.of = lJob.id
    <3>1. lJob.id \in Nat /\ lJob.call.service \in {c.service : c \in Calls}
      BY <1>1
    <3>2. r \in UNION {Relay!Results(c.service, c.cmd) : c \in Calls}
      BY <1>1
    <3> QED  BY <3>1, <3>2 DEF Entries
  <2> HIDE DEF e
  <2>3. /\ queue' \in Seq(Entries) /\ Len(queue') = Len(queue) + 1
        /\ \A i \in 1 .. Len(queue) : queue'[i] = queue[i]
        /\ queue'[Len(queue) + 1].of = lJob.id
    <3> HIDE DEF Entries
    <3> QED  BY <1>5, <2>1, <2>2, AppendProperties
  <2>4. \A i \in 1 .. Len(queue') : i \in 1 .. Len(queue) \/ i = Len(queue) + 1
    BY <1>5, <2>3
  <2>5. /\ outcome' \in Seq(Outcomes) /\ Len(outcome') = N /\ DOMAIN outcome' = 1 .. N
        /\ \A i \in 1 .. N : outcome'[i] = IF i = lJob.id THEN "queued" ELSE outcome[i]
    BY <1>1, <2>1, OutcomeSet DEF LinkInv, Outcomes
  <2> HIDE DEF N
  <2>6. LinkTypes'
    BY <1>2, <2>1, <2>3, <2>5 DEF LinkInv, LinkTypes
  <2>7. LinkWhere'
    <3>1. Len(queue') <= QueueSize
      BY <1>5, <1>6, <2>3, LinkNotNone
    <3>2. transport = "uart" => Len(queue') = 1
      BY <2>3 DEF LinkInv, LinkWhere
    <3> QED  BY <1>2, <2>1, <3>1, <3>2 DEF LinkInv, LinkTypes, LinkWhere, Relay!TypeOK
  <2>8. LinkOrder'
    <3>1. ASSUME NEW i \in 1 .. Len(queue'), NEW j \in 1 .. Len(queue'), i < j
          PROVE  queue'[i].of < queue'[j].of
      <4>1. i \in 1 .. Len(queue)
        BY <1>5, <2>3, <3>1
      <4> QED  BY <1>1, <2>3, <2>4, <3>1, <4>1 DEF LinkInv, LinkOrder, JobOrder
    <3>2. \A i \in 1 .. Len(queue') : queue'[i].of \in 1 .. N /\ LastHeard < queue'[i].of
      BY <1>1, <2>3, <2>4 DEF LinkInv, LinkOrder, JobOrder, N
    <3>3. \A i \in 1 .. Len(queue'), j \in 1 .. Len(inbox) : queue'[i].of < inbox[j].id
      BY <1>1, <2>3, <2>4 DEF LinkInv, LinkOrder, JobOrder
    <3> QED  BY <1>2, <1>3, <2>5, <3>1, <3>2, <3>3 DEF LinkInv, LinkOrder, N
  <2>9. JobOrder'
    BY <1>2 DEF JobOrder
  <2>10. SendingOrder'
    BY <1>1, <1>2, <1>3, <2>1, <2>3, <2>4, <2>5 DEF LinkInv, SendingOrder, N
  <2>11. AllOpen'
    <3>1. \A i \in 1 .. Len(inbox) : outcome'[inbox[i].id] \in Relay!Open
      BY <2>5 DEF LinkInv, AllOpen, LinkOrder, N, Relay!Open
    <3>2. \A i \in 1 .. Len(queue') : outcome'[queue'[i].of] \in Relay!Open
      BY <1>1, <2>3, <2>4, <2>5 DEF LinkInv, AllOpen, LinkOrder, N, Relay!Open
    <3>3. sending # None => outcome'[sending.of] \in Relay!Open
      BY <2>5 DEF LinkInv, AllOpen, SendingOrder, N, Relay!Open
    <3>4. eager \/ \A i \in 1 .. N : i < N => outcome'[i] \notin Relay!Open
      BY <1>1, <2>5 DEF LinkInv, AllOpen, N
    <3> QED  BY <1>2, <2>1, <2>5, <3>1, <3>2, <3>3, <3>4 DEF AllOpen
  <2>12. Relay!PatientAnswered'
    BY <1>2, <1>4, <2>5 DEF LinkInv, Relay!PatientAnswered
  <2> QED  BY <1>3, <2>6, <2>7, <2>8, <2>9, <2>10, <2>11, <2>12 DEF LinkInv
<1>7. CASE ~(Len(queue) < QueueSize)
  <2>1. /\ lPc' = "idle" /\ sending' = None /\ queue' = queue
        /\ outcome' = [Relay!Mark(Relay!Abort.cut, "cut") EXCEPT ![lJob.id] = "refused"]
        /\ Relay!Abort.cut = IF sending = None THEN {} ELSE {sending.of}
    BY <1>7 DEF Relay!Process, Relay!Abort
  <2>2. \A i \in 1 .. N : outcome'[i] = IF i = lJob.id THEN "refused"
                                        ELSE IF sending # None /\ i = sending.of THEN "cut"
                                        ELSE outcome[i]
    BY <1>1, <1>4, <2>1 DEF Relay!Mark
  <2>3. outcome' = [i \in DOMAIN outcome |-> outcome'[i]]
    BY <2>1 DEF Relay!Mark
  <2>4. \A i \in 1 .. N : outcome'[i] \in Outcomes
    BY <2>2 DEF LinkInv, LinkTypes, Outcomes
  <2>5. /\ outcome' \in Seq(Outcomes) /\ Len(outcome') = N /\ DOMAIN outcome' = 1 .. N
    BY <2>3, <2>4, Marked DEF LinkInv
  <2> HIDE DEF N
  <2>6. Len(queue) # 0 /\ 1 \in 1 .. Len(queue)
    BY <1>5, <1>7, LinkNotNone
  <2>7. LinkTypes'
    BY <1>2, <2>1, <2>5 DEF LinkInv, LinkTypes
  <2>8. transport = "espi"
    <3>1. transport = "uart" => Len(queue) = 0
      BY DEF LinkInv, LinkWhere
    <3> QED  BY <2>6, <3>1 DEF LinkInv, LinkTypes
  <2>9. LinkWhere'
    BY <1>2, <2>1, <2>8 DEF LinkInv, LinkWhere, Relay!TypeOK
  <2>10. LinkOrder'
    BY <1>2, <1>3, <2>1, <2>5 DEF LinkInv, LinkOrder, N
  <2>11. JobOrder' /\ SendingOrder'
    BY <1>2, <2>1 DEF JobOrder, SendingOrder
  <2>12. AllOpen'
    <3>1. \A i \in 1 .. Len(inbox) :
             inbox[i].id \in 1 .. N /\ inbox[i].id # lJob.id /\ (sending # None => inbox[i].id # sending.of)
      BY <1>1 DEF LinkInv, LinkOrder, JobOrder, SendingOrder, N
    <3>2. \A i \in 1 .. Len(queue) :
             queue[i].of \in 1 .. N /\ queue[i].of # lJob.id /\ (sending # None => queue[i].of # sending.of)
      BY <1>1 DEF LinkInv, LinkOrder, JobOrder, SendingOrder, N
    <3>3. /\ \A i \in 1 .. Len(inbox) : outcome'[inbox[i].id] \in Relay!Open
          /\ \A i \in 1 .. Len(queue) : outcome'[queue[i].of] \in Relay!Open
      BY <2>2, <3>1, <3>2 DEF LinkInv, AllOpen
    <3>4. eager \/ \A i \in 1 .. N : i < N => outcome'[i] \notin Relay!Open
      BY <1>1, <2>2 DEF LinkInv, AllOpen, N, Relay!Open
    <3> QED  BY <1>2, <2>1, <2>5, <3>3, <3>4 DEF AllOpen
  <2>13. Relay!PatientAnswered'
    <3>1. queue[1].of \in 1 .. N /\ queue[1].of < N /\ outcome[queue[1].of] \in Relay!Open
      BY <1>1, <2>6 DEF LinkInv, LinkOrder, JobOrder, AllOpen, N
    <3>2. eager
      BY <3>1 DEF LinkInv, AllOpen, N
    <3> QED  BY <1>2, <2>8, <3>2 DEF Relay!PatientAnswered
  <2> QED  BY <1>3, <2>7, <2>9, <2>10, <2>11, <2>12, <2>13 DEF LinkInv
<1> QED  BY <1>6, <1>7

LEMMA TakeResponseKeeps == ASSUME LinkInv, Relay!TakeResponse PROVE LinkInv'
<1> DEFINE r == queue[1]
           s == [of |-> r.of, service |-> r.service, result |-> r.result, k |-> 0]
<1>1. /\ queue # <<>> /\ sending' = s /\ queue' = Tail(queue) /\ lPc' = "send"
      /\ lPc = "respond" \/ (transport = "espi" /\ lPc = "idle")
      /\ UNCHANGED <<transport, inbox, lJob, owed, heard, outcome, eager>>
  BY DEF Relay!TakeResponse
<1>2. queue \in Seq(Entries) /\ Len(queue) \in Nat /\ Len(queue) # 0 /\ 1 \in 1 .. Len(queue)
  <2>1. queue \in Seq(Entries)
    BY DEF LinkInv, LinkTypes
  <2> HIDE DEF Entries
  <2>2. Len(queue) \in Nat /\ Len(queue) # 0
    BY <1>1, <2>1, EmptySeq
  <2> QED  BY <2>1, <2>2
<1>3. s \in Sent /\ s # None /\ s.of = r.of /\ s.k = 0
  <2>1. r \in Entries
    BY <1>2
  <2>2. s \in Sent
    BY <2>1 DEF Entries, Sent
  <2> QED  BY <2>2, LinkNotNone
<1> HIDE DEF s
<1>4. /\ queue' \in Seq(Entries) /\ Len(queue') = Len(queue) - 1
      /\ \A i \in 1 .. Len(queue') : i + 1 \in 1 .. Len(queue) /\ 1 < i + 1 /\ queue'[i] = queue[i + 1]
  <2> HIDE DEF Entries
  <2>1. queue' \in Seq(Entries) /\ Len(queue') = Len(queue) - 1
    BY <1>1, <1>2, HeadTailProperties
  <2>2. \A i \in 1 .. Len(queue') : queue'[i] = queue[i + 1]
    BY <1>1, <1>2, HeadTailProperties
  <2> QED  BY <1>2, <2>1, <2>2
<1>5. lJob = None /\ lJob' = None /\ LastHeard' = LastHeard
  BY <1>1 DEF LinkInv, LinkWhere, Relay!TypeOK, LastHeard
<1>6. LinkTypes'
  BY <1>1, <1>3, <1>4 DEF LinkInv, LinkTypes
<1>7. LinkWhere'
  <2>1. Len(queue') <= QueueSize /\ (transport = "uart" => Len(queue') = 0)
    BY <1>1, <1>2, <1>4, LinkNotNone DEF LinkInv, LinkWhere, Relay!TypeOK
  <2>2. transport = "uart" => queue' = <<>>
    BY <1>4, <2>1, EmptySeq
  <2> QED  BY <1>1, <1>3, <1>5, <2>1, <2>2 DEF LinkInv, LinkWhere, Relay!TypeOK
<1>8. LinkOrder'
  <2>1. ASSUME NEW i \in 1 .. Len(queue'), NEW j \in 1 .. Len(queue'), i < j
        PROVE  queue'[i].of < queue'[j].of
    <3>1. i + 1 < j + 1
      BY <1>2, <1>4, <2>1
    <3> QED  BY <1>4, <3>1 DEF LinkInv, LinkOrder
  <2>2. \A i \in 1 .. Len(queue') : queue'[i].of \in 1 .. Len(outcome) /\ LastHeard < queue'[i].of
    BY <1>4 DEF LinkInv, LinkOrder
  <2>3. \A i \in 1 .. Len(queue'), j \in 1 .. Len(inbox) : queue'[i].of < inbox[j].id
    BY <1>4 DEF LinkInv, LinkOrder
  <2> QED  BY <1>1, <1>5, <2>1, <2>2, <2>3 DEF LinkInv, LinkOrder
<1>9. JobOrder'
  BY <1>5 DEF JobOrder
<1>10. SendingOrder'
  <2>1. r.of \in 1 .. Len(outcome) /\ LastHeard < r.of /\ \A i \in 1 .. Len(inbox) : r.of < inbox[i].id
    BY <1>2 DEF LinkInv, LinkOrder
  <2>2. \A i \in 1 .. Len(queue') : r.of < queue'[i].of
    BY <1>2, <1>4 DEF LinkInv, LinkOrder
  <2> QED  BY <1>1, <1>3, <1>5, <2>1, <2>2 DEF SendingOrder
<1>11. AllOpen'
  BY <1>1, <1>2, <1>3, <1>4, <1>5 DEF LinkInv, AllOpen
<1>12. Relay!InOrder' /\ Relay!PatientAnswered'
  BY <1>1 DEF LinkInv, Relay!InOrder, Relay!PatientAnswered
<1> QED  BY <1>6, <1>7, <1>8, <1>9, <1>10, <1>11, <1>12 DEF LinkInv

LEMMA SendPacketKeeps == ASSUME LinkInv, Relay!SendPacket PROVE LinkInv'
<1> DEFINE w == [of |-> sending.of, k |-> sending.k + 1]
<1>1. /\ lPc = "send" /\ heard' = Append(heard, w) /\ sending' = [sending EXCEPT !.k = @ + 1]
      /\ IF transport = "espi" THEN lPc' = "event" /\ owed' = owed + 1 ELSE lPc' = lPc /\ owed' = owed
      /\ UNCHANGED <<transport, inbox, lJob, queue, outcome, eager>>
  BY DEF Relay!SendPacket
<1>2. sending # None /\ sending \in Sent /\ lJob = None /\ sending.k \in Nat /\ sending.of \in Nat
  BY <1>1 DEF LinkInv, LinkTypes, LinkWhere, Relay!TypeOK, Sent
<1>3. sending' \in Sent /\ sending' # None /\ sending'.of = sending.of /\ sending'.k = sending.k + 1
  <2>1. sending' \in Sent /\ sending'.of = sending.of /\ sending'.k = sending.k + 1
    BY <1>1, <1>2 DEF Sent
  <2> QED  BY <2>1, LinkNotNone
<1>4. w \in Written /\ w.of = sending.of /\ w.k = sending.k + 1
  BY <1>2 DEF Written
<1> HIDE DEF w
<1>5. /\ heard \in Seq(Written) /\ heard' \in Seq(Written) /\ Len(heard') = Len(heard) + 1 /\ Len(heard) \in Nat
      /\ \A i \in 1 .. Len(heard) : heard'[i] = heard[i]
      /\ heard'[Len(heard) + 1] = w
  <2> HIDE DEF Written
  <2> QED  BY <1>1, <1>4, AppendProperties DEF LinkInv, LinkTypes
<1>6. heard' # <<>> /\ heard'[Len(heard')] = w /\ LastHeard' = sending.of
  <2>1. heard' # <<>>
    BY <1>5, EmptySeq
  <2> QED  BY <1>4, <1>5, <2>1 DEF LastHeard
<1>7. LinkTypes'
  BY <1>1, <1>3, <1>5 DEF LinkInv, LinkTypes
<1>8. LinkWhere'
  BY <1>1, <1>2, <1>3 DEF LinkInv, LinkTypes, LinkWhere, Relay!TypeOK
<1>9. LinkOrder' /\ JobOrder'
  <2>1. /\ \A i \in 1 .. Len(inbox) : sending.of < inbox[i].id
        /\ \A i \in 1 .. Len(queue) : sending.of < queue[i].of
        /\ sending.of <= Len(outcome)
    BY <1>2 DEF LinkInv, SendingOrder
  <2> QED  BY <1>1, <1>2, <1>6, <2>1 DEF LinkInv, LinkOrder, JobOrder
<1>10. SendingOrder'
  <2>1. sending'.k # 0 /\ w = [of |-> sending'.of, k |-> sending'.k]
    BY <1>2, <1>3 DEF w
  <2>2. /\ sending.of \in 1 .. Len(outcome)
        /\ \A i \in 1 .. Len(inbox) : sending.of < inbox[i].id
        /\ \A i \in 1 .. Len(queue) : sending.of < queue[i].of
    BY <1>2 DEF LinkInv, SendingOrder
  <2> QED  BY <1>1, <1>2, <1>3, <1>6, <2>1, <2>2 DEF SendingOrder
<1>11. AllOpen'
  BY <1>1, <1>2, <1>3 DEF LinkInv, AllOpen
<1>12. Relay!InOrder'
  <2> SUFFICES ASSUME NEW i \in 2 .. Len(heard')
               PROVE  IF heard'[i].k = 1 THEN heard'[i].of > heard'[i - 1].of
                      ELSE heard'[i] = [of |-> heard'[i - 1].of, k |-> heard'[i - 1].k + 1]
    BY DEF Relay!InOrder
  <2>1. CASE i \in 2 .. Len(heard)
    <3>1. i \in 1 .. Len(heard) /\ i - 1 \in 1 .. Len(heard)
      BY <1>5, <2>1
    <3>2. heard'[i] = heard[i] /\ heard'[i - 1] = heard[i - 1]
      BY <1>5, <3>1
    <3> QED  BY <2>1, <3>2 DEF LinkInv, Relay!InOrder
  <2>2. CASE i = Len(heard) + 1
    <3>1. Len(heard) \in 1 .. Len(heard) /\ i - 1 = Len(heard) /\ heard # <<>>
      BY <1>5, <2>2
    <3>2. heard'[i] = w /\ heard'[i - 1] = heard[Len(heard)] /\ LastHeard = heard[Len(heard)].of
      BY <1>5, <2>2, <3>1 DEF LastHeard
    <3>3. CASE sending.k = 0
      <4>1. LastHeard < sending.of
        BY <1>2, <3>3 DEF LinkInv, SendingOrder
      <4>2. LastHeard \in Nat
        BY LastHeardNumber DEF LinkInv
      <4> QED  BY <1>2, <1>4, <3>2, <3>3, <4>1, <4>2
    <3>4. CASE sending.k # 0
      <4>1. heard[Len(heard)] = [of |-> sending.of, k |-> sending.k]
        BY <1>2, <3>4 DEF LinkInv, SendingOrder
      <4>2. w.k # 1
        BY <1>2, <1>4, <3>4
      <4> QED  BY <3>2, <4>1, <4>2 DEF w
    <3> QED  BY <3>3, <3>4
  <2> QED  BY <1>5, <2>1, <2>2
<1>13. Relay!PatientAnswered'
  BY <1>1 DEF LinkInv, Relay!PatientAnswered
<1> QED  BY <1>7, <1>8, <1>9, <1>10, <1>11, <1>12, <1>13 DEF LinkInv

\* The end of a result, whatever it is.
LEMMA SendEnds ==
    ASSUME LinkInv, lPc = "send", lPc' = "idle", sending' = None, NEW what \in {"answered", "failed"},
           outcome' = [outcome EXCEPT ![sending.of] = what],
           UNCHANGED <<transport, inbox, lJob, queue, owed, heard, eager>>
    PROVE  LinkInv'
<1> DEFINE N == Len(outcome)
<1>1. sending # None /\ lJob = None /\ sending.of \in 1 .. N
  BY DEF LinkInv, LinkWhere, Relay!TypeOK, SendingOrder
<1>2. /\ outcome' \in Seq(Outcomes) /\ Len(outcome') = N /\ DOMAIN outcome' = 1 .. N
      /\ DOMAIN outcome = 1 .. N
      /\ \A i \in 1 .. N : outcome'[i] = IF i = sending.of THEN what ELSE outcome[i]
  BY <1>1, OutcomeSet DEF LinkInv, Outcomes
<1> HIDE DEF N
<1>3. LinkTypes'
  BY <1>2 DEF LinkInv, LinkTypes
<1>4. LinkWhere'
  BY DEF LinkInv, LinkWhere, Relay!TypeOK
<1>5. LastHeard' = LastHeard /\ Relay!InOrder'
  BY DEF LastHeard, LinkInv, Relay!InOrder
<1>6. LinkOrder'
  BY <1>2, <1>5 DEF LinkInv, LinkOrder, N
<1>7. JobOrder' /\ SendingOrder'
  BY <1>1 DEF JobOrder, SendingOrder
<1>8. AllOpen'
  <2>1. /\ \A i \in 1 .. Len(inbox) : inbox[i].id \in 1 .. N /\ inbox[i].id # sending.of
        /\ \A i \in 1 .. Len(queue) : queue[i].of \in 1 .. N /\ queue[i].of # sending.of
    BY <1>1 DEF LinkInv, LinkOrder, SendingOrder, N
  <2>2. eager \/ \A i \in 1 .. N : i < N => outcome'[i] \notin Relay!Open
    BY <1>2 DEF LinkInv, AllOpen, N, Relay!Open
  <2> QED  BY <1>1, <1>2, <2>1, <2>2 DEF LinkInv, AllOpen
<1>9. Relay!PatientAnswered'
  BY <1>2 DEF LinkInv, Relay!PatientAnswered
<1> QED  BY <1>3, <1>4, <1>5, <1>6, <1>7, <1>8, <1>9 DEF LinkInv

\* An event of the bus that is not a frame moves only the counters.
LEMMA EventKeeps ==
    ASSUME LinkInv, owed' \in Nat,
           \/ lPc' = lPc
           \/ lPc = "event" /\ lPc' = "send",
           UNCHANGED <<transport, inbox, lJob, queue, sending, heard, outcome, eager>>
    PROVE  LinkInv'
<1>1. LinkTypes'
  BY DEF LinkInv, LinkTypes
<1>2. LinkWhere'
  BY DEF LinkInv, LinkTypes, LinkWhere, Relay!TypeOK
<1>3. LastHeard' = LastHeard /\ Relay!InOrder' /\ Relay!PatientAnswered'
  BY DEF LastHeard, LinkInv, Relay!InOrder, Relay!PatientAnswered
<1>4. LinkOrder' /\ JobOrder' /\ SendingOrder'
  BY <1>3 DEF LinkInv, LinkOrder, JobOrder, SendingOrder
<1>5. AllOpen'
  BY DEF LinkInv, AllOpen
<1> QED  BY <1>1, <1>2, <1>3, <1>4, <1>5 DEF LinkInv

LEMMA LinkStep == LinkInv /\ [Relay!Next]_lVars => LinkInv'
<1> SUFFICES ASSUME LinkInv, [Relay!Next]_lVars PROVE LinkInv'
  OBVIOUS
<1>0. owed \in Nat
  BY DEF LinkInv, LinkTypes
<1>1. ASSUME NEW k \in Relay!Kinds, NEW c \in Calls, Relay!HostSend(k, c) PROVE LinkInv'
  BY <1>1, HostSendKeeps
<1>2. ASSUME NEW n \in 0 .. MaxFrames, NEW torn \in BOOLEAN, Relay!TakeFrame(n, torn) PROVE LinkInv'
  BY <1>2, TakeFrameKeeps
<1>3. ASSUME lPc = "process", NEW r \in Relay!Results(lJob.call.service, lJob.call.cmd),
             Relay!Process(r)
      PROVE  LinkInv'
  BY <1>3, ProcessKeeps
<1>4. CASE Relay!TakeResponse
  BY <1>4, TakeResponseKeeps
<1>5. CASE Relay!SendPacket
  BY <1>5, SendPacketKeeps
<1>6. CASE Relay!SendDone
  BY <1>6, SendEnds DEF Relay!SendDone
<1>7. CASE Relay!SendFails
  BY <1>7, SendEnds DEF Relay!SendFails
<1>8. CASE Relay!Completion
  <2>1. owed' \in Nat
    BY <1>0, <1>8 DEF Relay!Completion
  <2>2. lPc' = lPc \/ (lPc = "event" /\ lPc' = "send")
    BY <1>8 DEF Relay!Completion
  <2> QED  BY <1>8, <2>1, <2>2, EventKeeps DEF Relay!Completion
<1>9. CASE Relay!OtherEvent
  BY <1>0, <1>9, EventKeeps DEF Relay!OtherEvent
<1>10. CASE UNCHANGED lVars
  BY <1>0, <1>10, EventKeeps DEF lVars
<1> QED  BY <1>1, <1>2, <1>3, <1>4, <1>5, <1>6, <1>7, <1>8, <1>9, <1>10 DEF Relay!Next

LEMMA SuiteLink == [SuiteNext]_allVars => [Relay!Next]_lVars
BY Zenon DEF SuiteNext, allVars

-----------------------------------------------------------------------------
(* The messages of the relays.                                             *)

\* The fields of a layout of n fields lie one after the other, from the start.
Tidy(l, n) ==
    /\ Len(l) = n
    /\ \A i \in 1 .. n : l[i].at \in Nat /\ l[i].width \in Nat \ {0}
    /\ \A i \in 1 .. n : l[i].at = IF i = 1 THEN 0 ELSE l[i - 1].at + l[i - 1].width

End(l, n) == IF n = 0 THEN 0 ELSE l[n].at + l[n].width

\* The reader takes every field from where the writer puts it.
Alike(put, get, n) ==
    /\ Len(get) = n
    /\ \A i \in 1 .. n : get[i].at = put[i].at /\ get[i].width = put[i].width

LEMMA WidthIsEnd ==
    ASSUME NEW l, NEW n \in Nat, Tidy(l, n)
    PROVE  Relay!Width(l) = End(l, n)
<1> DEFINE F == CHOOSE F : F = [m \in 0 .. Len(l) |-> IF m = 0 THEN 0 ELSE F[m - 1] + l[m].width]
           g == [m \in 0 .. n |-> End(l, m)]
<1>1. Relay!Width(l) = F[Len(l)]
  BY Zenon DEF Relay!Width
<1>2. g = [m \in 0 .. Len(l) |-> IF m = 0 THEN 0 ELSE g[m - 1] + l[m].width]
  <2>1. ASSUME NEW m \in 0 .. n PROVE End(l, m) = IF m = 0 THEN 0 ELSE g[m - 1] + l[m].width
    <3>1. CASE m = 0
      BY <3>1 DEF End
    <3>2. CASE m # 0
      <4>1. m \in 1 .. n /\ m - 1 \in 0 .. n
        BY <3>2
      <4>2. g[m - 1] = End(l, m - 1)
        BY <4>1
      <4>3. l[m].at = End(l, m - 1)
        BY <4>1 DEF Tidy, End
      <4>4. l[m].at \in Nat /\ l[m].width \in Nat
        BY <4>1 DEF Tidy
      <4> QED  BY <3>2, <4>2, <4>3, <4>4 DEF End
    <3> QED  BY <3>1, <3>2
  <2>2. g = [m \in 0 .. n |-> IF m = 0 THEN 0 ELSE g[m - 1] + l[m].width]
    BY <2>1
  <2> QED  BY <2>2 DEF Tidy
<1> HIDE DEF g
<1>3. F = [m \in 0 .. Len(l) |-> IF m = 0 THEN 0 ELSE F[m - 1] + l[m].width]
  BY <1>2, Zenon
<1> HIDE DEF F
<1> DEFINE T == {m \in 0 .. n : F[m] = g[m]}
<1>4. Len(l) = n
  BY DEF Tidy
<1>5. 0 \in T
  BY <1>2, <1>3, <1>4
<1>6. ASSUME NEW m \in 1 .. n, m - 1 \in T PROVE m \in T
  <2>1. F[m] = F[m - 1] + l[m].width
    BY <1>3, <1>4
  <2>2. g[m] = g[m - 1] + l[m].width
    BY <1>2, <1>4
  <2> QED  BY <1>6, <2>1, <2>2
<1> HIDE DEF T
<1>7. n \in T
  BY <1>5, <1>6, Upwards
<1> QED  BY <1>1, <1>4, <1>7 DEF T, g

\* A field ends before the fields behind it begin.
LEMMA FieldsApart ==
    ASSUME NEW l, NEW n \in Nat, Tidy(l, n)
    PROVE  /\ \A j \in 1 .. n : \A i \in 1 .. j - 1 : l[i].at + l[i].width <= l[j].at
           /\ \A i \in 1 .. n : l[i].at + l[i].width <= End(l, n)
<1> DEFINE T == {j \in 0 .. n : \A i \in 1 .. j - 1 : l[i].at + l[i].width <= l[j].at}
<1>1. 0 \in T
  OBVIOUS
<1>2. ASSUME NEW j \in 1 .. n, j - 1 \in T PROVE j \in T
  <2> SUFFICES ASSUME NEW i \in 1 .. j - 1 PROVE l[i].at + l[i].width <= l[j].at
    OBVIOUS
  <2>1. /\ j # 1 /\ j - 1 \in 1 .. n /\ i \in 1 .. n /\ l[j].at = l[j - 1].at + l[j - 1].width
        /\ l[i].at \in Nat /\ l[i].width \in Nat /\ l[j - 1].at \in Nat /\ l[j - 1].width \in Nat
    BY DEF Tidy
  <2>2. CASE i = j - 1
    BY <2>1, <2>2
  <2>3. CASE i # j - 1
    <3>1. i \in 1 .. (j - 1) - 1
      BY <2>3
    <3>2. l[i].at + l[i].width <= l[j - 1].at
      BY <1>2, <3>1
    <3> QED  BY <2>1, <3>2
  <2> QED  BY <2>2, <2>3
<1>3. \A j \in 0 .. n : j \in T
  <2> HIDE DEF T
  <2> QED  BY <1>1, <1>2, Upwards
<1>4. \A j \in 1 .. n : \A i \in 1 .. j - 1 : l[i].at + l[i].width <= l[j].at
  BY <1>3
<1>5. ASSUME NEW i \in 1 .. n PROVE l[i].at + l[i].width <= End(l, n)
  <2>1. n # 0 /\ n \in 1 .. n /\ l[n].at \in Nat /\ l[n].width \in Nat /\ l[i].at \in Nat /\ l[i].width \in Nat
    BY DEF Tidy
  <2>2. i = n \/ i \in 1 .. n - 1
    OBVIOUS
  <2> QED  BY <1>4, <2>1, <2>2 DEF End
<1> QED  BY <1>4, <1>5

\* A number is not both below an end and at or beyond it.
LEMMA Between ==
    \A p, q, b \in Nat : p + q <= b - 1 => ~(b - 1 <= p + q - 1)
OBVIOUS

\* A reader gets back what a writer wrote, when the writer's fields lie one after
\* the other, fit the buffer, and the reader takes them from there.
LEMMA ReadsBack ==
    ASSUME NEW put, NEW get, NEW n \in Nat, Tidy(put, n), Alike(put, get, n), End(put, n) <= 251
    PROVE  Relay!RoundTrip(put, get)
<1> DEFINE W == End(put, n)
           v == Relay!Numbers(Len(put))
           bytes == Relay!Serialize(put, v, 251)
           Holds(b) == {i \in 1 .. Len(put) : b - 1 \in put[i].at .. put[i].at + put[i].width - 1}
           B(b) == IF Holds(b) = {} THEN Relay!Unwritten
                   ELSE LET i == CHOOSE j \in Holds(b) : \A k \in Holds(b) : k <= j
                        IN  <<v[i], b - 1 - put[i].at>>
<1>1. /\ Len(put) = n /\ Len(get) = n
      /\ \A i \in 1 .. n : put[i].at \in Nat /\ put[i].width \in Nat /\ put[i].width # 0
      /\ \A i \in 1 .. n : get[i].at = put[i].at /\ get[i].width = put[i].width
  BY DEF Tidy, Alike
<1>2. W \in Nat /\ (n # 0 => W # 0)
  BY <1>1 DEF End
<1>3. /\ \A j \in 1 .. n : \A i \in 1 .. j - 1 : put[i].at + put[i].width <= put[j].at
      /\ \A i \in 1 .. n : put[i].at + put[i].width <= W
  BY FieldsApart
<1>4. v = [i \in 1 .. n |-> i]
  BY <1>1 DEF Relay!Numbers
<1> HIDE DEF W, v
<1>5. bytes = [b \in 1 .. W |-> B(b)]
  <2>1. ~(\E i \in 1 .. Len(put) : put[i].at + put[i].width > 251)
    BY <1>1, <1>2, <1>3 DEF W
  <2>2. Relay!Width(put) = W
    BY WidthIsEnd DEF W
  <2>3. bytes = [b \in 1 .. Relay!Width(put) |-> B(b)]
    BY <2>1, Zenon DEF Relay!Serialize
  <2> QED  BY <2>2, <2>3
<1>6. ASSUME NEW i \in 1 .. n, NEW k \in 0 .. put[i].width - 1
      PROVE  put[i].at + k + 1 \in 1 .. W /\ B(put[i].at + k + 1) = <<i, k>>
  <2> DEFINE b == put[i].at + k + 1
           a == put[i].at
           w == put[i].width
  <2>a. a \in Nat /\ w \in Nat /\ a + w <= W /\ k \in 0 .. w - 1
    BY <1>1, <1>3
  <2>0. /\ b \in 1 .. W /\ b - 1 = put[i].at + k /\ b - 1 - put[i].at = k
        /\ b - 1 \in put[i].at .. put[i].at + put[i].width - 1
    <3> HIDE DEF a, w
    <3>1. /\ a + k + 1 \in 1 .. W /\ (a + k + 1) - 1 = a + k /\ (a + k + 1) - 1 - a = k
          /\ (a + k + 1) - 1 \in a .. a + w - 1
      BY ONLY <1>2, <2>a, k \in Int
    <3> QED  BY <3>1 DEF a, w
  <2> HIDE DEF b, a, w
  <2>1. i \in Holds(b)
    BY <1>1, <2>0
  <2>2. ASSUME NEW j \in Holds(b) PROVE j = i
    <3>1. j \in 1 .. n /\ put[j].at <= b - 1 /\ b - 1 <= put[j].at + put[j].width - 1
      BY <1>1
    <3>2. CASE j < i
      <4>1. put[j].at + put[j].width <= put[i].at
        BY <1>3, <3>1, <3>2
      <4>2. put[i].at <= b - 1 /\ put[j].at \in Nat /\ put[j].width \in Nat /\ put[i].at \in Nat /\ b \in Nat
        BY <1>1, <1>2, <2>0, <3>1
      <4>3. put[j].at + put[j].width <= b - 1
        BY ONLY <4>1, <4>2
      <4> QED  BY <3>1, <4>2, <4>3, Between
    <3>3. CASE i < j
      <4>1. put[i].at + put[i].width <= put[j].at
        BY <1>3, <3>1, <3>3
      <4>2. b - 1 <= put[i].at + put[i].width - 1 /\ put[j].at \in Nat /\ put[i].width \in Nat /\ put[i].at \in Nat /\ b \in Nat
        BY <1>1, <1>2, <2>0, <3>1
      <4>3. put[i].at + put[i].width <= b - 1
        BY ONLY <3>1, <4>1, <4>2
      <4> QED  BY <4>2, <4>3, Between
    <3>4. j < i \/ i < j \/ j = i
      BY <3>1
    <3> QED  BY <3>2, <3>3, <3>4
  <2>3. Holds(b) = {i}
    BY <2>1, <2>2
  <2> HIDE DEF Holds
  <2>4. (CHOOSE j \in Holds(b) : \A m \in Holds(b) : m <= j) = i
    BY <2>3
  <2>5. B(b) = <<v[i], b - 1 - put[i].at>>
    BY <2>3, <2>4
  <2>6. v[i] = i
    BY <1>4
  <2> QED  BY <2>0, <2>5, <2>6 DEF b
<1>7. bytes \in [1 .. W -> (Nat \cup {None}) \X Nat]
  <2>1. ASSUME NEW b \in 1 .. W PROVE B(b) \in (Nat \cup {None}) \X Nat
    <3>1. CASE Holds(b) = {}
      BY <3>1 DEF Relay!Unwritten
    <3>2. CASE Holds(b) # {}
      <4>1. PICK i \in Holds(b) : TRUE
        BY <3>2
      <4>2. i \in 1 .. n /\ b - 1 - put[i].at \in 0 .. put[i].width - 1
        BY <1>1, <4>1
      <4>3. b = put[i].at + (b - 1 - put[i].at) + 1
        BY <1>1, <4>2
      <4>4. B(b) = <<i, b - 1 - put[i].at>>
        <5> DEFINE k == b - 1 - put[i].at
        <5>1. k \in 0 .. put[i].width - 1 /\ b = put[i].at + k + 1
          BY <4>2, <4>3
        <5> HIDE DEF k, B
        <5>2. B(put[i].at + k + 1) = <<i, k>>
          BY <1>6, <4>2, <5>1
        <5> QED  BY <5>1, <5>2 DEF k
      <4> HIDE DEF B
      <4> QED  BY <1>1, <4>2, <4>4
    <3> QED  BY <3>1, <3>2
  <2> HIDE DEF B
  <2> QED  BY <1>5, <2>1
<1>8. bytes # None
  <2>1. W \in 0 .. 251
    BY <1>2 DEF W
  <2> HIDE DEF bytes
  <2> QED  BY <1>7, <2>1, CodecAssumption
<1> HIDE DEF B, Holds, bytes
<1>9. Len(bytes) = W
  BY <1>2, <1>5
<1>10. ASSUME NEW i \in 1 .. n PROVE Relay!Read(get[i], bytes) = i
  <2>1. \A k \in 0 .. put[i].width - 1 : bytes[put[i].at + k + 1] = <<i, k>>
    BY <1>5, <1>6
  <2>2. 0 \in 0 .. put[i].width - 1 /\ put[i].at + 0 + 1 = put[i].at + 1
    BY <1>1
  <2>3. bytes[put[i].at + 1] = <<i, 0>> /\ bytes[put[i].at + 1][1] = i
    BY <2>1, <2>2
  <2> QED  BY <1>1, <2>1, <2>3 DEF Relay!Read
<1>11. Relay!Deserialize(get, bytes) = v
  <2>1. ASSUME NEW i \in 1 .. Len(get)
        PROVE  ~(\/ get[i].at + get[i].width > Len(bytes)
                 \/ get[i].checked /\ Relay!Read(get[i], bytes) = Invalid)
    <3>1. i \in 1 .. n
      BY <1>1
    <3>2. Relay!Read(get[i], bytes) # Invalid
      <4>1. i \in Nat /\ Relay!Read(get[i], bytes) = i
        BY <1>10, <3>1
      <4> QED  BY ONLY <4>1, CodecAssumption
    <3>3. ~(get[i].at + get[i].width > Len(bytes))
      BY <1>1, <1>2, <1>3, <1>9, <3>1
    <3> QED  BY <3>2, <3>3
  <2>2. Relay!Deserialize(get, bytes) = [i \in 1 .. Len(get) |-> Relay!Read(get[i], bytes)]
    BY <2>1, Zenon DEF Relay!Deserialize
  <2> QED  BY <1>1, <1>4, <1>10, <2>2
<1>12. bytes # <<>> => Relay!Deserialize(get, SubSeq(bytes, 1, Len(bytes) - 1)) = None
  <2> SUFFICES ASSUME bytes # <<>> PROVE Relay!Deserialize(get, SubSeq(bytes, 1, Len(bytes) - 1)) = None
    OBVIOUS
  <2>1. W # 0
    BY <1>5, <1>2
  <2>2. n # 0 /\ n \in 1 .. Len(get) /\ put[n].at + put[n].width = W
    BY <1>1, <2>1 DEF W, End
  <2>3. Len(SubSeq(bytes, 1, Len(bytes) - 1)) = W - 1
    BY <1>2, <1>7, <1>9, <2>1, SubSeqProperties
  <2>4. get[n].at + get[n].width > Len(SubSeq(bytes, 1, Len(bytes) - 1))
    BY <1>1, <1>2, <2>2, <2>3
  <2> QED  BY <2>2, <2>4, Zenon DEF Relay!Deserialize
<1> QED  BY <1>8, <1>11, <1>12 DEF Relay!RoundTrip, bytes, v

LEMMA DwordsTidy == \A n \in Nat : Tidy(Relay!Dwords(n), n) /\ End(Relay!Dwords(n), n) = 4 * n
<1> SUFFICES ASSUME NEW n \in Nat PROVE Tidy(Relay!Dwords(n), n) /\ End(Relay!Dwords(n), n) = 4 * n
  OBVIOUS
<1>1. /\ Len(Relay!Dwords(n)) = n
      /\ \A i \in 1 .. n : Relay!Dwords(n)[i].at = 4 * (i - 1) /\ Relay!Dwords(n)[i].width = 4
  BY DEF Relay!Dwords, Relay!Dword, Relay!Field
<1> QED  BY <1>1 DEF Tidy, End

\* What the fields of the layouts are.
LEMMA FieldIs ==
    \A a, w : /\ Relay!Field(a, w).at = a /\ Relay!Field(a, w).width = w
              /\ Relay!Checked(Relay!Field(a, w)).at = a /\ Relay!Checked(Relay!Field(a, w)).width = w
BY DEF Relay!Field, Relay!Checked

LEMMA FewIndices ==
    /\ \A i \in 1 .. 1 : i = 1
    /\ \A i \in 1 .. 2 : i = 1 \/ i = 2
    /\ \A i \in 1 .. 3 : i = 1 \/ i = 2 \/ i = 3
    /\ \A i \in 1 .. 4 : i = 1 \/ i = 2 \/ i = 3 \/ i = 4
OBVIOUS

LEMMA EmptyAgree == Relay!RoundTrip(<<>>, <<>>)
<1>1. Tidy(<<>>, 0) /\ Alike(<<>>, <<>>, 0) /\ End(<<>>, 0) <= 251
  BY DEF Tidy, Alike, End
<1> QED  BY <1>1, ReadsBack

\* The layouts of one to four fields.
LEMMA FieldAgrees ==
    ASSUME NEW w \in 1 .. 251
    PROVE  Relay!RoundTrip(<<Relay!Field(0, w)>>, <<Relay!Field(0, w)>>)
<1> DEFINE l == <<Relay!Field(0, w)>>
<1>1. Tidy(l, 1) /\ Alike(l, l, 1) /\ End(l, 1) <= 251
  BY FieldIs, FewIndices DEF Tidy, Alike, End
<1> QED  BY <1>1, ReadsBack

LEMMA ByteDword ==
    LET l == <<Relay!U8(0), Relay!Dword(1)>> IN Relay!RoundTrip(l, l)
<1> DEFINE l == <<Relay!U8(0), Relay!Dword(1)>>
<1>1. Tidy(l, 2) /\ Alike(l, l, 2) /\ End(l, 2) <= 251
  BY FieldIs, FewIndices DEF Tidy, Alike, End, Relay!U8, Relay!Dword
<1> QED  BY <1>1, ReadsBack

LEMMA ByteDwords ==
    LET l == <<Relay!U8(0), Relay!Dword(1), Relay!Dword(5), Relay!Dword(9)>>
        m == <<Relay!U8(0), Relay!Dword(1), Relay!Checked(Relay!Dword(5)), Relay!Dword(9)>>
    IN  Relay!RoundTrip(l, l) /\ Relay!RoundTrip(l, m)
<1> DEFINE l == <<Relay!U8(0), Relay!Dword(1), Relay!Dword(5), Relay!Dword(9)>>
           m == <<Relay!U8(0), Relay!Dword(1), Relay!Checked(Relay!Dword(5)), Relay!Dword(9)>>
<1>1. Tidy(l, 4) /\ Alike(l, l, 4) /\ Alike(l, m, 4) /\ End(l, 4) <= 251
  BY FieldIs, FewIndices DEF Tidy, Alike, End, Relay!U8, Relay!Dword
<1> QED  BY <1>1, ReadsBack

LEMMA Variables ==
    LET l == <<Relay!U8(0), Relay!U16(1), Relay!Field(3, 16)>>
        m == <<Relay!U8(0), Relay!U16(1), Relay!Field(3, 16), Relay!Dword(19)>>
    IN  Relay!RoundTrip(l, l) /\ Relay!RoundTrip(m, m)
<1> DEFINE l == <<Relay!U8(0), Relay!U16(1), Relay!Field(3, 16)>>
           m == <<Relay!U8(0), Relay!U16(1), Relay!Field(3, 16), Relay!Dword(19)>>
<1>1. Tidy(l, 3) /\ Alike(l, l, 3) /\ End(l, 3) <= 251
  BY FieldIs, FewIndices DEF Tidy, Alike, End, Relay!U8, Relay!U16, Relay!Dword
<1>2. Tidy(m, 4) /\ Alike(m, m, 4) /\ End(m, 4) <= 251
  BY FieldIs, FewIndices DEF Tidy, Alike, End, Relay!U8, Relay!U16, Relay!Dword
<1> QED  BY <1>1, <1>2, ReadsBack

\* Dwords, read by any reader that takes dwords from where they are.
ReadsDwords(get, n) ==
    Len(get) = n /\ \A i \in 1 .. n : get[i].at = 4 * (i - 1) /\ get[i].width = 4

LEMMA DwordsAgree ==
    ASSUME NEW n \in 0 .. 62, NEW get, ReadsDwords(get, n)
    PROVE  Relay!RoundTrip(Relay!Dwords(n), get)
<1>1. \A i \in 1 .. n : Relay!Dwords(n)[i].at = 4 * (i - 1) /\ Relay!Dwords(n)[i].width = 4
  BY DEF Relay!Dwords, Relay!Dword, Relay!Field
<1>2. Alike(Relay!Dwords(n), get, n)
  BY <1>1 DEF Alike, ReadsDwords
<1>3. Tidy(Relay!Dwords(n), n) /\ End(Relay!Dwords(n), n) <= 251
  <2>1. n \in Nat /\ 4 * n <= 251
    BY ONLY n \in 0 .. 62
  <2> QED  BY <2>1, DwordsTidy
<1> QED  BY <1>2, <1>3, ReadsBack

LEMMA SameDwords == \A n \in 0 .. 62 : Relay!RoundTrip(Relay!Dwords(n), Relay!Dwords(n))
<1> SUFFICES ASSUME NEW n \in 0 .. 62 PROVE Relay!RoundTrip(Relay!Dwords(n), Relay!Dwords(n))
  OBVIOUS
<1>1. ReadsDwords(Relay!Dwords(n), n)
  BY DEF ReadsDwords, Relay!Dwords, Relay!Dword, Relay!Field
<1> QED  BY <1>1, DwordsAgree

LEMMA FewDwords ==
    LET D(a) == Relay!Dword(a)
        C(a) == Relay!Checked(Relay!Dword(a))
    IN  /\ Relay!RoundTrip(Relay!Dwords(1), <<D(0)>>) /\ Relay!RoundTrip(Relay!Dwords(1), <<C(0)>>)
        /\ Relay!RoundTrip(Relay!Dwords(2), <<C(0), D(4)>>)
        /\ Relay!RoundTrip(Relay!Dwords(3), <<D(0), D(4), D(8)>>)
        /\ Relay!RoundTrip(Relay!Dwords(4), <<C(0), D(4), D(8), D(12)>>)
        /\ Relay!RoundTrip(Relay!Dwords(4), <<D(0), C(4), D(8), D(12)>>)
        /\ Relay!RoundTrip(Relay!Dwords(5), <<C(0), C(4), D(8), D(12), D(16)>>)
<1> DEFINE D(a) == Relay!Dword(a)
           C(a) == Relay!Checked(Relay!Dword(a))
<1>1. \A a : D(a).at = a /\ D(a).width = 4 /\ C(a).at = a /\ C(a).width = 4
  BY FieldIs DEF Relay!Dword
<1>2. \A i \in 1 .. 5 : i = 1 \/ i = 2 \/ i = 3 \/ i = 4 \/ i = 5
  OBVIOUS
<1> HIDE DEF D, C
<1>3. Relay!RoundTrip(Relay!Dwords(1), <<D(0)>>)
  <2> DEFINE g == <<D(0)>>
  <2>1. ReadsDwords(g, 1)
    BY <1>1, <1>2, FewIndices DEF ReadsDwords
  <2> HIDE DEF g
  <2>2. Relay!RoundTrip(Relay!Dwords(1), g)
    BY <2>1, DwordsAgree
  <2> QED  BY <2>2 DEF g
<1>4. Relay!RoundTrip(Relay!Dwords(1), <<C(0)>>)
  <2> DEFINE g == <<C(0)>>
  <2>1. ReadsDwords(g, 1)
    BY <1>1, <1>2, FewIndices DEF ReadsDwords
  <2> HIDE DEF g
  <2>2. Relay!RoundTrip(Relay!Dwords(1), g)
    BY <2>1, DwordsAgree
  <2> QED  BY <2>2 DEF g
<1>5. Relay!RoundTrip(Relay!Dwords(2), <<C(0), D(4)>>)
  <2> DEFINE g == <<C(0), D(4)>>
  <2>1. ReadsDwords(g, 2)
    BY <1>1, <1>2, FewIndices DEF ReadsDwords
  <2> HIDE DEF g
  <2>2. Relay!RoundTrip(Relay!Dwords(2), g)
    BY <2>1, DwordsAgree
  <2> QED  BY <2>2 DEF g
<1>6. Relay!RoundTrip(Relay!Dwords(3), <<D(0), D(4), D(8)>>)
  <2> DEFINE g == <<D(0), D(4), D(8)>>
  <2>1. ReadsDwords(g, 3)
    BY <1>1, <1>2, FewIndices DEF ReadsDwords
  <2> HIDE DEF g
  <2>2. Relay!RoundTrip(Relay!Dwords(3), g)
    BY <2>1, DwordsAgree
  <2> QED  BY <2>2 DEF g
<1>7. Relay!RoundTrip(Relay!Dwords(4), <<C(0), D(4), D(8), D(12)>>)
  <2> DEFINE g == <<C(0), D(4), D(8), D(12)>>
  <2>1. ReadsDwords(g, 4)
    BY <1>1, <1>2, FewIndices DEF ReadsDwords
  <2> HIDE DEF g
  <2>2. Relay!RoundTrip(Relay!Dwords(4), g)
    BY <2>1, DwordsAgree
  <2> QED  BY <2>2 DEF g
<1>8. Relay!RoundTrip(Relay!Dwords(4), <<D(0), C(4), D(8), D(12)>>)
  <2> DEFINE g == <<D(0), C(4), D(8), D(12)>>
  <2>1. ReadsDwords(g, 4)
    BY <1>1, <1>2, FewIndices DEF ReadsDwords
  <2> HIDE DEF g
  <2>2. Relay!RoundTrip(Relay!Dwords(4), g)
    BY <2>1, DwordsAgree
  <2> QED  BY <2>2 DEF g
<1>9. Relay!RoundTrip(Relay!Dwords(5), <<C(0), C(4), D(8), D(12), D(16)>>)
  <2> DEFINE g == <<C(0), C(4), D(8), D(12), D(16)>>
  <2>1. ReadsDwords(g, 5)
    BY <1>1, <1>2, FewIndices DEF ReadsDwords
  <2> HIDE DEF g
  <2>2. Relay!RoundTrip(Relay!Dwords(5), g)
    BY <2>1, DwordsAgree
  <2> QED  BY <2>2 DEF g
<1> QED  BY <1>3, <1>4, <1>5, <1>6, <1>7, <1>8, <1>9 DEF D, C

\* The time stamp of the time alarm.
LEMMA TimestampAgrees == Relay!RoundTrip(Relay!TimestampPut, Relay!TimestampGet)
<1> DEFINE l == Relay!TimestampPut
           m == Relay!TimestampGet
<1>1. \A i \in 1 .. 11 : i = 1 \/ i = 2 \/ i = 3 \/ i = 4 \/ i = 5 \/ i = 6 \/ i = 7 \/ i = 8
                         \/ i = 9 \/ i = 10 \/ i = 11
  OBVIOUS
<1>2. /\ Len(l) = 11
      /\ l[1].at = 0 /\ l[1].width = 2 /\ l[2].at = 2 /\ l[2].width = 1 /\ l[3].at = 3 /\ l[3].width = 1
      /\ l[4].at = 4 /\ l[4].width = 1 /\ l[5].at = 5 /\ l[5].width = 1 /\ l[6].at = 6 /\ l[6].width = 1
      /\ l[7].at = 7 /\ l[7].width = 1 /\ l[8].at = 8 /\ l[8].width = 2 /\ l[9].at = 10 /\ l[9].width = 2
      /\ l[10].at = 12 /\ l[10].width = 1 /\ l[11].at = 13 /\ l[11].width = 3
  BY FieldIs DEF Relay!TimestampPut, Relay!U8, Relay!U16
<1>3. /\ Len(m) = 11
      /\ \A i \in 1 .. 11 : m[i] = IF i \in {7, 11} THEN l[i] ELSE Relay!Checked(l[i])
  BY DEF Relay!TimestampGet
<1>4. \A i \in 1 .. 11 : Relay!Checked(l[i]).at = l[i].at /\ Relay!Checked(l[i]).width = l[i].width
  <2>1. \A i \in 1 .. 11 : \E a, w : l[i] = Relay!Field(a, w)
    BY <1>1 DEF Relay!TimestampPut, Relay!U8, Relay!U16
  <2> QED  BY <2>1, FieldIs
<1> HIDE DEF l, m
<1>5. Tidy(l, 11) /\ End(l, 11) <= 251
  BY <1>1, <1>2 DEF Tidy, End
<1>6. Alike(l, m, 11)
  BY <1>3, <1>4 DEF Alike
<1> QED  BY <1>5, <1>6, ReadsBack DEF l, m

\* Dwords followed by strings: the static and the extended battery information.
LEMMA PifAgrees == Relay!RoundTrip(Relay!PifPut, Relay!PifGet)
<1> DEFINE l == Relay!PifPut
           m == Relay!PifGet
           d == Relay!Dwords(3)
           s == <<Relay!Field(12, 8), Relay!Field(20, 8), Relay!Field(28, 8)>>
           F == [at : Nat, width : Nat, checked : {FALSE}]
<1>0. \A i \in 1 .. 6 : i = 1 \/ i = 2 \/ i = 3 \/ i = 4 \/ i = 5 \/ i = 6
  OBVIOUS
<1>1. /\ d \in Seq(F) /\ Len(d) = 3 /\ d[1].at = 0 /\ d[2].at = 4 /\ d[3].at = 8
      /\ d[1].width = 4 /\ d[2].width = 4 /\ d[3].width = 4
  BY DEF Relay!Dwords, Relay!Dword, Relay!Field
<1>2. s \in Seq(F) /\ Len(s) = 3
  BY DEF Relay!Field
<1>3. Len(l) = 6 /\ \A i \in 1 .. 6 : l[i] = IF i <= 3 THEN d[i] ELSE s[i - 3]
  <2> HIDE DEF d, s, F
  <2>1. l = d \o s
    BY DEF Relay!PifPut, d, s
  <2> HIDE DEF l
  <2>2. Len(d \o s) = Len(d) + Len(s) /\ \A i \in 1 .. Len(d) + Len(s) :
           (d \o s)[i] = IF i <= Len(d) THEN d[i] ELSE s[i - Len(d)]
    BY <1>1, <1>2, ConcatProperties
  <2> QED  BY <1>1, <1>2, <2>1, <2>2
<1>4. /\ s[1].at = 12 /\ s[1].width = 8 /\ s[2].at = 20 /\ s[2].width = 8 /\ s[3].at = 28 /\ s[3].width = 8
  BY FieldIs
<1> HIDE DEF d, s, F, l
<1>5. /\ l[1].at = 0 /\ l[1].width = 4 /\ l[2].at = 4 /\ l[2].width = 4 /\ l[3].at = 8 /\ l[3].width = 4
      /\ l[4].at = 12 /\ l[4].width = 8 /\ l[5].at = 20 /\ l[5].width = 8 /\ l[6].at = 28 /\ l[6].width = 8
  BY <1>1, <1>3, <1>4
<1>6. /\ Len(m) = 6
      /\ m[1].at = 0 /\ m[1].width = 4 /\ m[2].at = 4 /\ m[2].width = 4 /\ m[3].at = 8 /\ m[3].width = 4
      /\ m[4].at = 12 /\ m[4].width = 8 /\ m[5].at = 20 /\ m[5].width = 8 /\ m[6].at = 28 /\ m[6].width = 8
  BY FieldIs DEF Relay!PifGet, Relay!Dword
<1> HIDE DEF m
<1>7. Tidy(l, 6) /\ End(l, 6) <= 251
  BY <1>0, <1>3, <1>5 DEF Tidy, End
<1>8. Alike(l, m, 6)
  BY <1>0, <1>5, <1>6 DEF Alike
<1> QED  BY <1>7, <1>8, ReadsBack DEF l, m

LEMMA FunctionIsSeq ==
    ASSUME NEW F, NEW n \in Nat, NEW G(_), \A i \in 1 .. n : G(i) \in F
    PROVE  LET g == [i \in 1 .. n |-> G(i)]
           IN  g \in Seq(F) /\ Len(g) = n /\ \A i \in 1 .. n : g[i] = G(i)
OBVIOUS

LEMMA Joined ==
    ASSUME NEW F, NEW a \in Seq(F), NEW b \in Seq(F)
    PROVE  /\ Len(a \o b) = Len(a) + Len(b)
           /\ \A i \in 1 .. Len(a) : (a \o b)[i] = a[i]
           /\ \A i \in 1 .. Len(b) : (a \o b)[Len(a) + i] = b[i]
<1> DEFINE n == Len(a)
           k == Len(b)
<1>0. n \in Nat /\ k \in Nat
  OBVIOUS
<1>1. /\ Len(a \o b) = n + k
      /\ \A i \in 1 .. n + k : (a \o b)[i] = IF i <= n THEN a[i] ELSE b[i - n]
  BY ConcatProperties
<1> HIDE DEF n, k
<1>2. \A i \in 1 .. n : i \in 1 .. n + k /\ i <= n
  BY <1>0
<1>3. \A i \in 1 .. k : n + i \in 1 .. n + k /\ ~(n + i <= n) /\ (n + i) - n = i
  BY <1>0
<1>4. \A i \in 1 .. k : (a \o b)[n + i] = b[(n + i) - n]
  BY <1>1, <1>3
<1>5. \A i \in 1 .. k : (a \o b)[n + i] = b[i]
  BY <1>3, <1>4
<1> QED  BY <1>1, <1>2, <1>5 DEF n, k

LEMMA BixAgrees == Relay!RoundTrip(Relay!BixPut, Relay!BixGet)
<1> DEFINE l == Relay!BixPut
           m == Relay!BixGet
           d == Relay!Dwords(16)
           e == [i \in 1 .. 16 |-> IF i \in {2, 5} THEN Relay!Checked(Relay!Dword(4 * (i - 1)))
                                   ELSE Relay!Dword(4 * (i - 1))]
           s == <<Relay!Field(64, 8), Relay!Field(72, 8), Relay!Field(80, 8), Relay!Field(88, 8),
                  Relay!Dword(96)>>
           t == <<Relay!Field(64, 8), Relay!Field(72, 8), Relay!Field(80, 8), Relay!Field(88, 8),
                  Relay!Checked(Relay!Dword(96))>>
           F == [at : Nat, width : Nat, checked : {FALSE, TRUE}]
           Q(i) == 4 * (i - 1)
<1>1. \A a, w \in Nat : Relay!Field(a, w) \in F /\ Relay!Checked(Relay!Field(a, w)) \in F
  BY DEF Relay!Field, Relay!Checked
<1>2. Q(1) = 0 /\ Q(16) = 60 /\ \A i \in 1 .. 16 : Q(i) \in Nat /\ (i # 1 => Q(i) = Q(i - 1) + 4)
  OBVIOUS
<1>a. d = [i \in 1 .. 16 |-> Relay!Field(Q(i), 4)]
  BY DEF Relay!Dwords, Relay!Dword
<1>b. e = [i \in 1 .. 16 |-> IF i \in {2, 5} THEN Relay!Checked(Relay!Field(Q(i), 4))
                             ELSE Relay!Field(Q(i), 4)]
  BY DEF Relay!Dword
<1>7. l = d \o s /\ m = e \o t
  BY DEF Relay!BixPut, Relay!BixGet
<1> HIDE DEF F, Q, d, e, l, m
<1>3. /\ d \in Seq(F) /\ Len(d) = 16
      /\ \A i \in 1 .. 16 : d[i].at = Q(i) /\ d[i].width = 4
  <2>1. \A i \in 1 .. 16 : Relay!Field(Q(i), 4) \in F
    BY <1>1, <1>2
  <2>2. /\ d \in Seq(F) /\ Len(d) = 16
        /\ \A i \in 1 .. 16 : d[i] = Relay!Field(Q(i), 4)
    BY ONLY <1>a, <2>1, FunctionIsSeq
  <2> QED  BY ONLY <2>2, FieldIs
<1>4. /\ e \in Seq(F) /\ Len(e) = 16
      /\ \A i \in 1 .. 16 : e[i].at = Q(i) /\ e[i].width = 4
  <2> DEFINE G(i) == IF i \in {2, 5} THEN Relay!Checked(Relay!Field(Q(i), 4)) ELSE Relay!Field(Q(i), 4)
  <2>1. \A i \in 1 .. 16 : G(i) \in F /\ G(i).at = Q(i) /\ G(i).width = 4
    <3> SUFFICES ASSUME NEW i \in 1 .. 16 PROVE G(i) \in F /\ G(i).at = Q(i) /\ G(i).width = 4
      OBVIOUS
    <3>1. Q(i) \in Nat
      BY <1>2
    <3>2. CASE i \in {2, 5}
      <4>1. G(i) = Relay!Checked(Relay!Field(Q(i), 4))
        BY <3>2
      <4> HIDE DEF G
      <4> QED  BY <1>1, <3>1, <4>1, FieldIs
    <3>3. CASE i \notin {2, 5}
      <4>1. G(i) = Relay!Field(Q(i), 4)
        BY <3>3
      <4> HIDE DEF G
      <4> QED  BY <1>1, <3>1, <4>1, FieldIs
    <3> QED  BY <3>2, <3>3
  <2>2. e = [i \in 1 .. 16 |-> G(i)]
    BY <1>b
  <2> HIDE DEF G
  <2>3. /\ e \in Seq(F) /\ Len(e) = 16
        /\ \A i \in 1 .. 16 : e[i] = G(i)
    BY ONLY <2>1, <2>2, FunctionIsSeq
  <2> QED  BY ONLY <2>1, <2>3
<1>5. /\ s \in Seq(F) /\ Len(s) = 5
      /\ s[1].at = 64 /\ s[1].width = 8 /\ s[2].at = 72 /\ s[2].width = 8 /\ s[3].at = 80 /\ s[3].width = 8
      /\ s[4].at = 88 /\ s[4].width = 8 /\ s[5].at = 96 /\ s[5].width = 4
  BY <1>1, FieldIs DEF Relay!Dword
<1>6. /\ t \in Seq(F) /\ Len(t) = 5
      /\ t[1].at = 64 /\ t[1].width = 8 /\ t[2].at = 72 /\ t[2].width = 8 /\ t[3].at = 80 /\ t[3].width = 8
      /\ t[4].at = 88 /\ t[4].width = 8 /\ t[5].at = 96 /\ t[5].width = 4
  BY <1>1, FieldIs DEF Relay!Dword
<1> HIDE DEF s, t
<1>8. /\ Len(l) = 21 /\ \A i \in 1 .. 16 : l[i] = d[i]
      /\ l[17] = s[1] /\ l[18] = s[2] /\ l[19] = s[3] /\ l[20] = s[4] /\ l[21] = s[5]
  <2>1. d \in Seq(F) /\ s \in Seq(F)
    BY <1>3, <1>5
  <2>2. /\ Len(d \o s) = Len(d) + Len(s) /\ \A i \in 1 .. Len(d) : (d \o s)[i] = d[i]
        /\ \A i \in 1 .. Len(s) : (d \o s)[Len(d) + i] = s[i]
    BY ONLY <2>1, Joined
  <2>3. Len(d) = 16 /\ Len(s) = 5
    BY <1>3, <1>5
  <2>5. /\ Len(l) = Len(d) + Len(s) /\ \A i \in 1 .. Len(d) : l[i] = d[i]
        /\ \A i \in 1 .. Len(s) : l[Len(d) + i] = s[i]
    BY ONLY <1>7, <2>2, Zenon
  <2>4. /\ Len(l) = 21 /\ \A i \in 1 .. 16 : l[i] = d[i]
        /\ \A i \in 1 .. 5 : l[16 + i] = s[i]
    BY ONLY <2>3, <2>5
  <2> QED  BY ONLY <2>4
<1>9. /\ Len(m) = 21 /\ \A i \in 1 .. 16 : m[i] = e[i]
      /\ m[17] = t[1] /\ m[18] = t[2] /\ m[19] = t[3] /\ m[20] = t[4] /\ m[21] = t[5]
  <2>1. e \in Seq(F) /\ t \in Seq(F)
    BY <1>4, <1>6
  <2>2. /\ Len(e \o t) = Len(e) + Len(t) /\ \A i \in 1 .. Len(e) : (e \o t)[i] = e[i]
        /\ \A i \in 1 .. Len(t) : (e \o t)[Len(e) + i] = t[i]
    BY ONLY <2>1, Joined
  <2>3. Len(e) = 16 /\ Len(t) = 5
    BY <1>4, <1>6
  <2>5. /\ Len(m) = Len(e) + Len(t) /\ \A i \in 1 .. Len(e) : m[i] = e[i]
        /\ \A i \in 1 .. Len(t) : m[Len(e) + i] = t[i]
    BY ONLY <1>7, <2>2, Zenon
  <2>4. /\ Len(m) = 21 /\ \A i \in 1 .. 16 : m[i] = e[i]
        /\ \A i \in 1 .. 5 : m[16 + i] = t[i]
    BY ONLY <2>3, <2>5
  <2> QED  BY ONLY <2>4
<1>10. \A i \in 1 .. 21 : i \in 1 .. 16 \/ i = 17 \/ i = 18 \/ i = 19 \/ i = 20 \/ i = 21
  OBVIOUS
<1>11. /\ \A i \in 1 .. 16 : l[i].at = Q(i) /\ l[i].width = 4
       /\ l[17].at = 64 /\ l[17].width = 8 /\ l[18].at = 72 /\ l[18].width = 8
       /\ l[19].at = 80 /\ l[19].width = 8 /\ l[20].at = 88 /\ l[20].width = 8
       /\ l[21].at = 96 /\ l[21].width = 4
  <2>1. \A i \in 1 .. 16 : l[i].at = Q(i) /\ l[i].width = 4
    BY ONLY <1>3, <1>8
  <2>2. /\ l[17].at = 64 /\ l[17].width = 8 /\ l[18].at = 72 /\ l[18].width = 8
        /\ l[19].at = 80 /\ l[19].width = 8 /\ l[20].at = 88 /\ l[20].width = 8
        /\ l[21].at = 96 /\ l[21].width = 4
    BY ONLY <1>5, <1>8
  <2> QED  BY ONLY <2>1, <2>2
<1>12. /\ \A i \in 1 .. 16 : m[i].at = Q(i) /\ m[i].width = 4
       /\ m[17].at = 64 /\ m[17].width = 8 /\ m[18].at = 72 /\ m[18].width = 8
       /\ m[19].at = 80 /\ m[19].width = 8 /\ m[20].at = 88 /\ m[20].width = 8
       /\ m[21].at = 96 /\ m[21].width = 4
  <2>1. \A i \in 1 .. 16 : m[i].at = Q(i) /\ m[i].width = 4
    BY ONLY <1>4, <1>9
  <2>2. /\ m[17].at = 64 /\ m[17].width = 8 /\ m[18].at = 72 /\ m[18].width = 8
        /\ m[19].at = 80 /\ m[19].width = 8 /\ m[20].at = 88 /\ m[20].width = 8
        /\ m[21].at = 96 /\ m[21].width = 4
    BY ONLY <1>6, <1>9
  <2> QED  BY ONLY <2>1, <2>2
<1>13. Tidy(l, 21) /\ End(l, 21) <= 251
  <2>1. ASSUME NEW i \in 1 .. 16
        PROVE  /\ l[i].at \in Nat /\ l[i].width \in Nat \ {0}
               /\ l[i].at = IF i = 1 THEN 0 ELSE l[i - 1].at + l[i - 1].width
    <3>1. i # 1 => i - 1 \in 1 .. 16
      OBVIOUS
    <3> QED  BY <1>2, <1>11, <3>1
  <2>2. ASSUME NEW i \in 17 .. 21
        PROVE  /\ l[i].at \in Nat /\ l[i].width \in Nat \ {0}
               /\ l[i].at = IF i = 1 THEN 0 ELSE l[i - 1].at + l[i - 1].width
    <3>1. l[16].at = 60 /\ l[16].width = 4
      BY <1>2, <1>11
    <3>2. i = 17 \/ i = 18 \/ i = 19 \/ i = 20 \/ i = 21
      OBVIOUS
    <3> QED  BY <1>11, <3>1, <3>2
  <2>3. \A i \in 1 .. 21 : i \in 1 .. 16 \/ i \in 17 .. 21
    OBVIOUS
  <2> QED  BY <1>8, <1>11, <2>1, <2>2, <2>3 DEF Tidy, End
<1>14. Alike(l, m, 21)
  BY <1>9, <1>10, <1>11, <1>12 DEF Alike
<1> QED  BY <1>13, <1>14, ReadsBack DEF l, m

\* A table of discriminants gives no two names the same number.
Distinct(table) == \A m, n \in DOMAIN table : table[m] = table[n] => m = n

LEMMA NameFound ==
    ASSUME NEW table, Distinct(table), NEW n \in DOMAIN table
    PROVE  Relay!NameOf(table, table[n]) = n
<1>1. {m \in DOMAIN table : table[m] = table[n]} = {n}
  BY DEF Distinct
<1> QED  BY <1>1 DEF Relay!NameOf

LEMMA TablesDistinct ==
    \A s \in Relay!Services :
        Distinct(Relay!Requests(s)) /\ Distinct(Relay!Answers(s)) /\ Distinct(Relay!Errors(s))
<1>1. Distinct(Relay!BatteryCmd)
  BY DEF Distinct, Relay!BatteryCmd
<1>2. Distinct(Relay!ThermalCmd)
  BY DEF Distinct, Relay!ThermalCmd
<1>3. Distinct(Relay!TimeAlarmCmd) /\ Distinct(Relay!TimeAlarmAnswer)
  BY DEF Distinct, Relay!TimeAlarmCmd, Relay!TimeAlarmAnswer
<1>4. Distinct(Relay!DebugCmd)
  BY DEF Distinct, Relay!DebugCmd
<1>5. /\ Distinct(Relay!BatteryError) /\ Distinct(Relay!ThermalError)
      /\ Distinct(Relay!TimeAlarmError) /\ Distinct(Relay!DebugError)
  BY DEF Distinct, Relay!BatteryError, Relay!ThermalError, Relay!TimeAlarmError, Relay!DebugError
<1> QED  BY <1>1, <1>2, <1>3, <1>4, <1>5
         DEF Relay!Services, Relay!Requests, Relay!Answers, Relay!Errors

LEMMA BatteryAgrees ==
    \A n \in DOMAIN Relay!BatteryCmd :
        /\ Relay!RoundTrip(Relay!BatteryRequestPut(n), Relay!BatteryRequestGet(n))
        /\ Relay!RoundTrip(Relay!BatteryResponsePut(n), Relay!BatteryResponseGet(n))
<1> SUFFICES ASSUME NEW n \in DOMAIN Relay!BatteryCmd
             PROVE  /\ Relay!RoundTrip(Relay!BatteryRequestPut(n), Relay!BatteryRequestGet(n))
                    /\ Relay!RoundTrip(Relay!BatteryResponsePut(n), Relay!BatteryResponseGet(n))
  OBVIOUS
<1>0. n \in {"GetBix", "GetBst", "GetPsr", "GetPif", "GetBps", "SetBtp", "SetBpt", "GetBpc", "SetBmc",
             "GetBmd", "GetBct", "GetBtm", "SetBms", "SetBma", "GetSta"}
  BY DEF Relay!BatteryCmd
<1>1. Relay!RoundTrip(Relay!BatteryRequestPut(n), Relay!BatteryRequestGet(n))
  <2>1. CASE n \in Relay!BatteryQueries
    <3>1. Relay!RoundTrip(<<Relay!Field(0, 1)>>, <<Relay!Field(0, 1)>>)
      BY FieldAgrees
    <3> QED  BY <2>1, <3>1 DEF Relay!BatteryRequestPut, Relay!BatteryRequestGet, Relay!BatteryQueries, Relay!U8
  <2>2. CASE n \notin Relay!BatteryQueries
    BY <2>2, ByteDword, ByteDwords DEF Relay!BatteryRequestPut, Relay!BatteryRequestGet
  <2> QED  BY <2>1, <2>2
<1>2. Relay!RoundTrip(Relay!BatteryResponsePut(n), Relay!BatteryResponseGet(n))
  <2>1. CASE n \in {"GetBix", "GetPif"}
    BY <2>1, BixAgrees, PifAgrees DEF Relay!BatteryResponsePut, Relay!BatteryResponseGet
  <2>2. CASE n \in {"SetBtp", "SetBpt", "SetBmc"}
    BY <2>2, EmptyAgree DEF Relay!BatteryResponsePut, Relay!BatteryResponseGet
  <2>3. CASE n \in {"GetBst", "GetBpc", "GetBmd", "GetPsr", "GetSta"}
    BY <2>3, FewDwords DEF Relay!BatteryResponsePut, Relay!BatteryResponseGet
  <2>4. CASE n \in {"GetBps", "GetBct", "GetBtm", "SetBms", "SetBma"}
    <3>1. Relay!RoundTrip(Relay!Dwords(1), Relay!Dwords(1)) /\ Relay!RoundTrip(Relay!Dwords(5), Relay!Dwords(5))
      BY SameDwords
    <3> QED  BY <2>4, <3>1 DEF Relay!BatteryResponsePut, Relay!BatteryResponseGet
  <2> QED  BY <1>0, <2>1, <2>2, <2>3, <2>4
<1> QED  BY <1>1, <1>2

LEMMA ThermalAgrees ==
    \A n \in DOMAIN Relay!ThermalCmd :
        /\ Relay!RoundTrip(Relay!ThermalRequestPut(n), Relay!ThermalRequestGet(n))
        /\ Relay!RoundTrip(Relay!ThermalResponsePut(n), Relay!ThermalResponseGet(n))
<1> SUFFICES ASSUME NEW n \in DOMAIN Relay!ThermalCmd
             PROVE  /\ Relay!RoundTrip(Relay!ThermalRequestPut(n), Relay!ThermalRequestGet(n))
                    /\ Relay!RoundTrip(Relay!ThermalResponsePut(n), Relay!ThermalResponseGet(n))
  OBVIOUS
<1>0. n \in {"GetTmp", "SetThrs", "GetThrs", "SetScp", "GetVar", "SetVar"}
  BY DEF Relay!ThermalCmd
<1>1. Relay!RoundTrip(Relay!ThermalRequestPut(n), Relay!ThermalRequestGet(n))
  <2>1. CASE n \in {"GetTmp", "GetThrs"}
    <3>1. Relay!RoundTrip(<<Relay!Field(0, 1)>>, <<Relay!Field(0, 1)>>)
      BY FieldAgrees
    <3> QED  BY <2>1, <3>1 DEF Relay!ThermalRequestPut, Relay!ThermalRequestGet, Relay!U8
  <2>2. CASE n \in {"SetThrs", "SetScp"}
    BY <2>2, ByteDwords DEF Relay!ThermalRequestPut, Relay!ThermalRequestGet
  <2>3. CASE n \in {"GetVar", "SetVar"}
    BY <2>3, Variables DEF Relay!ThermalRequestPut, Relay!ThermalRequestGet
  <2> QED  BY <1>0, <2>1, <2>2, <2>3
<1>2. Relay!RoundTrip(Relay!ThermalResponsePut(n), Relay!ThermalResponseGet(n))
  BY <1>0, FewDwords, EmptyAgree DEF Relay!ThermalResponsePut, Relay!ThermalResponseGet
<1> QED  BY <1>1, <1>2

LEMMA TimeAlarmAgrees ==
    /\ \A n \in DOMAIN Relay!TimeAlarmCmd :
          Relay!RoundTrip(Relay!TimeAlarmRequestPut(n), Relay!TimeAlarmRequestGet(n))
    /\ \A n \in DOMAIN Relay!TimeAlarmAnswer :
          Relay!RoundTrip(Relay!TimeAlarmResponsePut(n), Relay!TimeAlarmResponseGet(n))
<1>1. ASSUME NEW n PROVE Relay!RoundTrip(Relay!TimeAlarmRequestPut(n), Relay!TimeAlarmRequestGet(n))
  <2>1. CASE n \in {"GetCapabilities", "GetRealTime"}
    BY <2>1, EmptyAgree DEF Relay!TimeAlarmRequestPut, Relay!TimeAlarmRequestGet
  <2>2. CASE n = "SetRealTime"
    BY <2>2, TimestampAgrees DEF Relay!TimeAlarmRequestPut, Relay!TimeAlarmRequestGet
  <2>3. CASE n \notin {"GetCapabilities", "GetRealTime", "SetRealTime"}
    BY <2>3, FewDwords DEF Relay!TimeAlarmRequestPut, Relay!TimeAlarmRequestGet
  <2> QED  BY <2>1, <2>2, <2>3
<1>2. ASSUME NEW n PROVE Relay!RoundTrip(Relay!TimeAlarmResponsePut(n), Relay!TimeAlarmResponseGet(n))
  <2>1. Relay!RoundTrip(Relay!Dwords(1), Relay!Dwords(1))
    BY SameDwords
  <2> QED  BY <2>1, EmptyAgree, TimestampAgrees DEF Relay!TimeAlarmResponsePut, Relay!TimeAlarmResponseGet
<1> QED  BY <1>1, <1>2

LEMMA ResultsNamed ==
    ASSUME NEW s \in Relay!Services, NEW n \in DOMAIN Relay!Requests(s), NEW r \in Relay!Results(s, n)
    PROVE  r.name \in DOMAIN (IF r.error THEN Relay!Errors(s) ELSE Relay!Answers(s))
<1>1. CASE s = "Battery"
  BY <1>1 DEF Relay!Results, Relay!Requests, Relay!Answers, Relay!Errors, Relay!BatteryResponses,
     Relay!BatteryErrors
<1>2. CASE s = "Thermal"
  BY <1>2 DEF Relay!Results, Relay!Requests, Relay!Answers, Relay!Errors, Relay!ThermalResponses,
     Relay!ThermalErrors, Relay!ThermalError
<1>3. CASE s = "TimeAlarm"
  BY <1>3 DEF Relay!Results, Relay!Answers, Relay!Errors, Relay!TimeAlarmResponses,
     Relay!TimeAlarmErrors, Relay!TimeAlarmError, Relay!TimeAlarmAnswer
<1>4. CASE s = "Debug"
  BY <1>4 DEF Relay!Results, Relay!Requests, Relay!Answers, Relay!Errors
<1> QED  BY <1>1, <1>2, <1>3, <1>4 DEF Relay!Services

\* The bytes of two dwords: what the reader of a timer's setting insists on.
LEMMA TwoDwords == Len(Relay!Serialize(Relay!Dwords(2), Relay!Numbers(Len(Relay!Dwords(2))), 251)) = 8
<1> DEFINE put == Relay!Dwords(2)
           v == Relay!Numbers(Len(put))
           Holds(b) == {i \in 1 .. Len(put) : b - 1 \in put[i].at .. put[i].at + put[i].width - 1}
           B(b) == IF Holds(b) = {} THEN Relay!Unwritten
                   ELSE LET i == CHOOSE j \in Holds(b) : \A k \in Holds(b) : k <= j
                        IN  <<v[i], b - 1 - put[i].at>>
<1>1. Tidy(put, 2) /\ End(put, 2) = 8
  BY DwordsTidy
<1>2. Len(put) = 2 /\ \A i \in 1 .. 2 : put[i].at = 4 * (i - 1) /\ put[i].width = 4
  BY DEF Relay!Dwords, Relay!Dword, Relay!Field
<1> HIDE DEF put, v
<1>3. Relay!Width(put) = 8
  BY <1>1, WidthIsEnd
<1>4. ~(\E i \in 1 .. Len(put) : put[i].at + put[i].width > 251)
  BY <1>2
<1>5. Relay!Serialize(put, v, 251) = [b \in 1 .. Relay!Width(put) |-> B(b)]
  BY <1>4, Zenon DEF Relay!Serialize
<1> HIDE DEF B
<1>6. Len([b \in 1 .. 8 |-> B(b)]) = 8
  OBVIOUS
<1> QED  BY <1>3, <1>5, <1>6 DEF put, v

\* A request is read back when its fields are.
LEMMA RequestsReadBack ==
    ASSUME NEW s \in Relay!Services, NEW n \in DOMAIN Relay!Requests(s),
           Relay!RoundTrip(Relay!RequestPut(s, n), Relay!RequestGet(s, n))
    PROVE  Relay!RequestReadBack(s, n)
<1> DEFINE put == Relay!RequestPut(s, n)
           get == Relay!RequestGet(s, n)
           bytes == Relay!Serialize(put, Relay!Numbers(Len(put)), 251)
           short == SubSeq(bytes, 1, Len(bytes) - 1)
           set == s = "TimeAlarm" /\ n \in {"SetTimerValue", "SetExpiredTimerPolicy"}
<1>1. /\ bytes # None /\ Relay!Deserialize(get, bytes) = Relay!Numbers(Len(put))
      /\ bytes # <<>> => Relay!Deserialize(get, short) = None
  BY DEF Relay!RoundTrip
<1>2. set => Len(bytes) = 8
  BY TwoDwords DEF Relay!RequestPut, Relay!TimeAlarmRequestPut
<1> HIDE DEF bytes, put, get
<1>3. Relay!RequestRead(s, n, bytes) = Relay!Deserialize(get, bytes)
  BY <1>2 DEF Relay!RequestRead, get
<1>4. \/ Relay!RequestRead(s, n, short) = None
      \/ Relay!RequestRead(s, n, short) = Relay!Deserialize(get, short)
  BY DEF Relay!RequestRead, get
<1> QED  BY <1>1, <1>3, <1>4 DEF Relay!RequestReadBack, bytes, put

\* Every request and answer of a relay is read back as it was written, from no fewer
\* bytes, so is every error save that of the debug service, whose reader is not
\* implemented, and no discriminant stands for two of them.
THEOREM CodecsAgreeHolds == Relay!CodecsAgree
<1> SUFFICES ASSUME NEW s \in Relay!Services
             PROVE  /\ \A n \in DOMAIN Relay!Requests(s) :
                          /\ Relay!RequestReadBack(s, n)
                          /\ Relay!NameOf(Relay!Requests(s), Relay!Requests(s)[n]) = n
                          /\ \A r \in Relay!Results(s, n) :
                                IF r.error THEN s # "Debug" => Relay!ErrorRead(s, Relay!Errors(s)[r.name]) = r.name
                                ELSE Relay!NameOf(Relay!Answers(s), Relay!Answers(s)[r.name]) = r.name
                    /\ \A n \in DOMAIN Relay!Answers(s) :
                          Relay!RoundTrip(Relay!AnswerPut(s, n), Relay!AnswerGet(s, n))
  BY DEF Relay!CodecsAgree
<1>1. ASSUME NEW n \in DOMAIN Relay!Requests(s), NEW r \in Relay!Results(s, n)
      PROVE  IF r.error THEN s # "Debug" => Relay!ErrorRead(s, Relay!Errors(s)[r.name]) = r.name
             ELSE Relay!NameOf(Relay!Answers(s), Relay!Answers(s)[r.name]) = r.name
  <2> DEFINE table == IF r.error THEN Relay!Errors(s) ELSE Relay!Answers(s)
  <2>1. r.name \in DOMAIN table
    BY ResultsNamed
  <2>2. Distinct(table)
    BY TablesDistinct
  <2> HIDE DEF table
  <2>3. Relay!NameOf(table, table[r.name]) = r.name
    BY <2>1, <2>2, NameFound
  <2> QED  BY <2>3 DEF table, Relay!ErrorRead
<1>2. \A n \in DOMAIN Relay!Requests(s) : Relay!NameOf(Relay!Requests(s), Relay!Requests(s)[n]) = n
  BY TablesDistinct, NameFound
<1>3. /\ \A n \in DOMAIN Relay!Requests(s) : Relay!RoundTrip(Relay!RequestPut(s, n), Relay!RequestGet(s, n))
      /\ \A n \in DOMAIN Relay!Answers(s) : Relay!RoundTrip(Relay!AnswerPut(s, n), Relay!AnswerGet(s, n))
  <2> USE DEF Relay!Requests, Relay!Answers, Relay!RequestPut, Relay!RequestGet, Relay!AnswerPut,
              Relay!AnswerGet
  <2>1. CASE s = "Battery"
    BY <2>1, BatteryAgrees
  <2>2. CASE s = "Thermal"
    BY <2>2, ThermalAgrees
  <2>3. CASE s = "TimeAlarm"
    BY <2>3, TimeAlarmAgrees
  <2>4. CASE s = "Debug"
    <3>1. Relay!RoundTrip(<<Relay!Field(0, 128)>>, <<Relay!Field(0, 128)>>)
      BY FieldAgrees
    <3> QED  BY <2>4, <3>1, EmptyAgree DEF Relay!DebugRequestPut, Relay!DebugRequestGet,
             Relay!DebugResponsePut, Relay!DebugResponseGet
  <2> QED  BY <2>1, <2>2, <2>3, <2>4 DEF Relay!Services
<1>4. \A n \in DOMAIN Relay!Requests(s) : Relay!RequestReadBack(s, n)
  BY <1>3, RequestsReadBack
<1> QED  BY <1>1, <1>2, <1>3, <1>4

\* A relayed message other than a debug error is read back as it was written,
\* results come whole and in the order of the requests, and only a host that does
\* not wait on eSPI has one cut off or refused; the host of the debug log is given
\* every frame once, whole and in order, for any calls, queue, log events, frames
\* and requests (uart-service, espi-service, debug-service, and serialize and
\* deserialize of the relays).
THEOREM RelayHonestHolds == SuiteSpec => []RelayHonest
<1>1. SuiteInit => LinkInv /\ DebugInv
  BY LinkInit, DebugInit DEF SuiteInit
<1>2. LinkInv /\ DebugInv /\ [SuiteNext]_allVars => LinkInv' /\ DebugInv'
  BY SuiteLink, SuiteDebug, LinkStep, DebugStep
<1>3. LinkInv => Relay!RelayHonest
  BY CodecsAgreeHolds DEF LinkInv, LinkWhere, Relay!RelayHonest
<1>4. LinkInv /\ DebugInv => RelayHonest
  BY <1>3, DebugInvImplies DEF RelayHonest
<1> QED  BY <1>1, <1>2, <1>4, PTL DEF SuiteSpec

-----------------------------------------------------------------------------
(* The aggregate of HID devices.                                           *)

\* What is said step by step has an outcome after every step.
HasRun(n, X, x0, go) == \E f \in [0..n -> X] : f[0] = x0 /\ \A i \in 1..n : f[i] = go[i][f[i - 1]]

LEMMA RunExists ==
    ASSUME NEW n \in Nat, NEW X, NEW x0 \in X, NEW go \in [1..n -> [X -> X]]
    PROVE  HasRun(n, X, x0, go)
<1> DEFINE Goes(k, f) == /\ f \in [0..k -> X] /\ f[0] = x0
                         /\ \A i \in 1..k : f[i] = go[i][f[i - 1]]
           T == {k \in 0..n : \E f : Goes(k, f)}
<1>1. 0 \in T
  <2>1. Goes(0, [i \in 0..0 |-> x0])
    OBVIOUS
  <2> HIDE DEF Goes
  <2>2. \E f : Goes(0, f)
    BY <2>1, Zenon
  <2> QED  BY <2>2
<1>2. ASSUME NEW k \in 1..n, k - 1 \in T PROVE k \in T
  <2>1. PICK f : Goes(k - 1, f)
    BY <1>2
  <2> DEFINE g == [i \in 0..k |-> IF i = k THEN go[k][f[k - 1]] ELSE f[i]]
  <2>2. Goes(k, g)
    <3>1. k - 1 \in 0..k - 1 /\ f[k - 1] \in X
      BY <2>1
    <3>2. go[k][f[k - 1]] \in X
      BY <3>1
    <3>3. g \in [0..k -> X] /\ g[0] = x0
      BY <2>1, <3>2
    <3>4. ASSUME NEW i \in 1..k PROVE g[i] = go[i][g[i - 1]]
      <4>1. CASE i = k
        BY <4>1
      <4>2. CASE i # k
        <5>1. i \in 1..k - 1 /\ g[i] = f[i] /\ g[i - 1] = f[i - 1]
          BY <4>2
        <5>2. f[i] = go[i][f[i - 1]]
          BY <2>1, <5>1
        <5> QED  BY <5>1, <5>2
      <4> QED  BY <4>1, <4>2
    <3> QED  BY <3>3, <3>4
  <2> HIDE DEF g, Goes
  <2> QED  BY <2>2
<1>3. \A i \in 0..n : i \in T
  <2> HIDE DEF T
  <2> QED  BY <1>1, <1>2, Upwards
<1>4. PICK f : Goes(n, f)
  BY <1>3
<1> QED  BY <1>4 DEF HasRun

\* A step of a run stays in X, whatever run it is.
LEMMA RunTyped ==
    ASSUME NEW n \in Nat, NEW X, NEW f, f[0] \in X, \A i \in 1..n : f[i - 1] \in X => f[i] \in X
    PROVE  \A i \in 0..n : f[i] \in X
<1> DEFINE T == {i \in 0..n : f[i] \in X}
<1>1. 0 \in T /\ \A i \in 1..n : i - 1 \in T => i \in T
  OBVIOUS
<1> HIDE DEF T
<1>2. \A i \in 0..n : i \in T
  BY <1>1, Upwards
<1> QED  BY <1>2 DEF T

AggItem == [tag : Aggregate!Tags, value : Nat, bytes : Nat]
Globals == [size : Nat, count : Nat, id : Nat]
AggErrors == {"None", "TruncatedItem", "UnsupportedReportId", "PushPopStackOverflow", "UnbalancedPop"}
AggBits == [Aggregate!Kinds -> UNION {[S -> 0..MaxBits] : S \in SUBSET Nat}]
AggAnalysis == [state : Globals, stack : Seq(Globals), implicit : BOOLEAN, error : AggErrors, bits : AggBits]

\* What an item does to the analysis.
Acts(a, x, b) ==
    /\ a.error # "None" => b = a
    /\ b.error = "None" =>
          /\ a.error = "None" /\ x.tag # "Truncated"
          /\ x.tag # "ReportId" => b.implicit = a.implicit
          /\ x.tag = "ReportSize" =>
                /\ b.state = [size |-> x.value, count |-> a.state.count, id |-> a.state.id]
                /\ b.stack = a.stack /\ b.bits = a.bits
          /\ x.tag = "ReportCount" =>
                /\ b.state = [size |-> a.state.size, count |-> x.value, id |-> a.state.id]
                /\ b.stack = a.stack /\ b.bits = a.bits
          /\ x.tag = "ReportId" =>
                /\ x.bytes = 2 /\ b.implicit = FALSE
                /\ b.state = [size |-> a.state.size, count |-> a.state.count, id |-> x.value]
                /\ b.stack = a.stack /\ b.bits = a.bits
          /\ x.tag = "Push" =>
                b.state = a.state /\ b.stack = Append(a.stack, a.state) /\ b.bits = a.bits
          /\ x.tag = "Pop" =>
                /\ a.stack # <<>> /\ b.state = a.stack[Len(a.stack)]
                /\ b.stack = SubSeq(a.stack, 1, Len(a.stack) - 1) /\ b.bits = a.bits
          /\ x.tag \in Aggregate!Kinds =>
                /\ b.state = a.state /\ b.stack = a.stack
                /\ \A k \in Aggregate!Kinds \ {x.tag} : b.bits[k] = a.bits[k]
                /\ DOMAIN b.bits[x.tag] = DOMAIN a.bits[x.tag] \cup {a.state.id}
                /\ \A i \in DOMAIN a.bits[x.tag] \ {a.state.id} : b.bits[x.tag][i] = a.bits[x.tag][i]
                /\ b.bits[x.tag][a.state.id] =
                      Aggregate!Smaller(MaxBits, Aggregate!BitsOf(a.bits, x.tag, a.state.id)
                                          + Aggregate!Smaller(MaxBits, a.state.size * a.state.count))
          /\ x.tag \in {"Collection", "Other", "Long"} =>
                b.state = a.state /\ b.stack = a.stack /\ b.bits = a.bits

\* What analysing an item comes to, tag by tag.
LEMMA AnalyseIs ==
    ASSUME NEW a, NEW x
    PROVE  /\ a.error # "None" => Aggregate!AnalyseItem(a, x) = a
           /\ a.error = "None" =>
                 /\ x.tag = "Truncated" => Aggregate!AnalyseItem(a, x) = [a EXCEPT !.error = "TruncatedItem"]
                 /\ x.tag = "ReportSize" => Aggregate!AnalyseItem(a, x) = [a EXCEPT !.state.size = x.value]
                 /\ x.tag = "ReportCount" => Aggregate!AnalyseItem(a, x) = [a EXCEPT !.state.count = x.value]
                 /\ x.tag = "ReportId" =>
                       Aggregate!AnalyseItem(a, x) =
                          IF x.bytes # 2 THEN [a EXCEPT !.error = "UnsupportedReportId"]
                          ELSE [a EXCEPT !.state.id = x.value, !.implicit = FALSE]
                 /\ x.tag = "Push" =>
                       Aggregate!AnalyseItem(a, x) =
                          IF Len(a.stack) = StackDepth THEN [a EXCEPT !.error = "PushPopStackOverflow"]
                          ELSE [a EXCEPT !.stack = Append(@, a.state)]
                 /\ x.tag = "Pop" =>
                       Aggregate!AnalyseItem(a, x) =
                          IF a.stack = <<>> THEN [a EXCEPT !.error = "UnbalancedPop"]
                          ELSE [a EXCEPT !.stack = SubSeq(@, 1, Len(@) - 1), !.state = a.stack[Len(a.stack)]]
                 /\ x.tag \in Aggregate!Kinds =>
                       Aggregate!AnalyseItem(a, x) =
                          [a EXCEPT !.bits[x.tag] = [i \in DOMAIN @ \cup {a.state.id} |->
                             IF i = a.state.id
                             THEN Aggregate!Smaller(MaxBits, Aggregate!BitsOf(a.bits, x.tag, i)
                                                     + Aggregate!Smaller(MaxBits, a.state.size * a.state.count))
                             ELSE @[i]]]
                 /\ x.tag \in {"Collection", "Other", "Long"} => Aggregate!AnalyseItem(a, x) = a
<1>1. a.error # "None" => Aggregate!AnalyseItem(a, x) = a
  BY Zenon DEF Aggregate!AnalyseItem
<1>2. ASSUME a.error = "None", x.tag = "Truncated"
      PROVE  Aggregate!AnalyseItem(a, x) = [a EXCEPT !.error = "TruncatedItem"]
  BY <1>2, Zenon DEF Aggregate!AnalyseItem, Aggregate!Kinds
<1>3. ASSUME a.error = "None", x.tag = "ReportSize"
      PROVE  Aggregate!AnalyseItem(a, x) = [a EXCEPT !.state.size = x.value]
  BY <1>3, Zenon DEF Aggregate!AnalyseItem, Aggregate!Kinds
<1>4. ASSUME a.error = "None", x.tag = "ReportCount"
      PROVE  Aggregate!AnalyseItem(a, x) = [a EXCEPT !.state.count = x.value]
  BY <1>4, Zenon DEF Aggregate!AnalyseItem, Aggregate!Kinds
<1>5. ASSUME a.error = "None", x.tag = "ReportId"
      PROVE  Aggregate!AnalyseItem(a, x) =
                IF x.bytes # 2 THEN [a EXCEPT !.error = "UnsupportedReportId"]
                ELSE [a EXCEPT !.state.id = x.value, !.implicit = FALSE]
  BY <1>5, Zenon DEF Aggregate!AnalyseItem, Aggregate!Kinds
<1>6. ASSUME a.error = "None", x.tag = "Push"
      PROVE  Aggregate!AnalyseItem(a, x) =
                IF Len(a.stack) = StackDepth THEN [a EXCEPT !.error = "PushPopStackOverflow"]
                ELSE [a EXCEPT !.stack = Append(@, a.state)]
  BY <1>6, Zenon DEF Aggregate!AnalyseItem, Aggregate!Kinds
<1>7. ASSUME a.error = "None", x.tag = "Pop"
      PROVE  Aggregate!AnalyseItem(a, x) =
                IF a.stack = <<>> THEN [a EXCEPT !.error = "UnbalancedPop"]
                ELSE [a EXCEPT !.stack = SubSeq(@, 1, Len(@) - 1), !.state = a.stack[Len(a.stack)]]
  BY <1>7, Zenon DEF Aggregate!AnalyseItem, Aggregate!Kinds
<1>8. ASSUME a.error = "None", x.tag \in Aggregate!Kinds
      PROVE  Aggregate!AnalyseItem(a, x) =
                [a EXCEPT !.bits[x.tag] = [i \in DOMAIN @ \cup {a.state.id} |->
                   IF i = a.state.id
                   THEN Aggregate!Smaller(MaxBits, Aggregate!BitsOf(a.bits, x.tag, i)
                                           + Aggregate!Smaller(MaxBits, a.state.size * a.state.count))
                   ELSE @[i]]]
  BY <1>8, Zenon DEF Aggregate!AnalyseItem, Aggregate!Kinds
<1>9. ASSUME a.error = "None", x.tag \in {"Collection", "Other", "Long"}
      PROVE  Aggregate!AnalyseItem(a, x) = a
  BY <1>9, Zenon DEF Aggregate!AnalyseItem, Aggregate!Kinds
<1> QED  BY <1>1, <1>2, <1>3, <1>4, <1>5, <1>6, <1>7, <1>8, <1>9, Zenon

\* An item leaves the analysis well-typed, and acts on it as its tag says.
LEMMA BitsTyped ==
    ASSUME NEW b, NEW S \in SUBSET Nat, b \in [S -> 0..MaxBits]
    PROVE  b \in UNION {[U -> 0..MaxBits] : U \in SUBSET Nat}
OBVIOUS

LEMMA BitsWhere ==
    ASSUME NEW a \in AggAnalysis, NEW k \in Aggregate!Kinds
    PROVE  /\ DOMAIN a.bits[k] \subseteq Nat
           /\ a.bits[k] \in [DOMAIN a.bits[k] -> 0..MaxBits]
           /\ \A i : Aggregate!BitsOf(a.bits, k, i) \in 0..MaxBits
<1>1. a.bits[k] \in UNION {[U -> 0..MaxBits] : U \in SUBSET Nat}
  BY DEF AggAnalysis, AggBits
<1>2. PICK U \in SUBSET Nat : a.bits[k] \in [U -> 0..MaxBits]
  BY <1>1
<1>3. 0 \in 0..MaxBits
  BY AggregateAssumption
<1> QED  BY <1>2, <1>3 DEF Aggregate!BitsOf

LEMMA SmallerTyped ==
    ASSUME NEW x \in Nat
    PROVE  Aggregate!Smaller(MaxBits, x) \in 0..MaxBits
BY AggregateAssumption DEF Aggregate!Smaller

LEMMA AnalyseTyped ==
    ASSUME NEW a \in AggAnalysis, NEW x \in AggItem
    PROVE  Aggregate!AnalyseItem(a, x) \in AggAnalysis
<1> DEFINE b == Aggregate!AnalyseItem(a, x)
<1>0. /\ x.tag \in Aggregate!Tags /\ x.value \in Nat
      /\ a = [state |-> a.state, stack |-> a.stack, implicit |-> a.implicit, error |-> a.error, bits |-> a.bits]
      /\ a.state \in Globals /\ a.stack \in Seq(Globals) /\ a.error \in AggErrors /\ a.bits \in AggBits
  BY DEF AggItem, AggAnalysis
<1>b. a.implicit \in BOOLEAN
  BY DEF AggAnalysis
<1>1. CASE a.error # "None" \/ x.tag \in {"Collection", "Other", "Long"}
  BY <1>1, AnalyseIs, Zenon
<1>2. CASE a.error = "None" /\ x.tag = "Truncated"
  <2>1. b = [a EXCEPT !.error = "TruncatedItem"]
    BY <1>2, AnalyseIs, Zenon
  <2> QED  BY <1>0, <1>b, <2>1 DEF AggAnalysis, AggErrors
<1>3. CASE a.error = "None" /\ x.tag = "ReportSize"
  <2>1. b = [a EXCEPT !.state.size = x.value]
    BY <1>3, AnalyseIs, Zenon
  <2>2. [a.state EXCEPT !.size = x.value] \in Globals
    BY <1>0 DEF Globals
  <2> QED  BY <1>0, <1>b, <2>1, <2>2 DEF AggAnalysis
<1>4. CASE a.error = "None" /\ x.tag = "ReportCount"
  <2>1. b = [a EXCEPT !.state.count = x.value]
    BY <1>4, AnalyseIs, Zenon
  <2>2. [a.state EXCEPT !.count = x.value] \in Globals
    BY <1>0 DEF Globals
  <2> QED  BY <1>0, <1>b, <2>1, <2>2 DEF AggAnalysis
<1>5. CASE a.error = "None" /\ x.tag = "ReportId"
  <2>1. b = IF x.bytes # 2 THEN [a EXCEPT !.error = "UnsupportedReportId"]
            ELSE [a EXCEPT !.state.id = x.value, !.implicit = FALSE]
    BY <1>5, AnalyseIs, Zenon
  <2>2. [a.state EXCEPT !.id = x.value] \in Globals
    BY <1>0 DEF Globals
  <2>3. CASE x.bytes # 2
    BY <1>0, <1>b, <2>1, <2>3 DEF AggAnalysis, AggErrors
  <2>4. CASE x.bytes = 2
    BY <1>0, <2>1, <2>2, <2>4 DEF AggAnalysis
  <2> QED  BY <2>3, <2>4
<1>6. CASE a.error = "None" /\ x.tag = "Push"
  <2>1. b = IF Len(a.stack) = StackDepth THEN [a EXCEPT !.error = "PushPopStackOverflow"]
            ELSE [a EXCEPT !.stack = Append(@, a.state)]
    BY <1>6, AnalyseIs, Zenon
  <2>2. Append(a.stack, a.state) \in Seq(Globals)
    BY <1>0
  <2>3. CASE Len(a.stack) = StackDepth
    BY <1>0, <1>b, <2>1, <2>3 DEF AggAnalysis, AggErrors
  <2>4. CASE Len(a.stack) # StackDepth
    BY <1>0, <1>b, <2>1, <2>2, <2>4 DEF AggAnalysis
  <2> QED  BY <2>3, <2>4
<1>7. CASE a.error = "None" /\ x.tag = "Pop"
  <2>1. b = IF a.stack = <<>> THEN [a EXCEPT !.error = "UnbalancedPop"]
            ELSE [a EXCEPT !.stack = SubSeq(@, 1, Len(@) - 1), !.state = a.stack[Len(a.stack)]]
    BY <1>7, AnalyseIs, Zenon
  <2>3. CASE a.stack = <<>>
    BY <1>0, <1>b, <2>1, <2>3 DEF AggAnalysis, AggErrors
  <2>4. CASE a.stack # <<>>
    <3>1. Len(a.stack) \in 1..Len(a.stack)
      BY <1>0, <2>4
    <3>2. SubSeq(a.stack, 1, Len(a.stack) - 1) \in Seq(Globals) /\ a.stack[Len(a.stack)] \in Globals
      BY <1>0, <3>1
    <3> QED  BY <1>0, <1>b, <2>1, <2>4, <3>2 DEF AggAnalysis
  <2> QED  BY <2>3, <2>4
<1>8. CASE a.error = "None" /\ x.tag \in Aggregate!Kinds
  <2> DEFINE k == x.tag
             D == DOMAIN a.bits[k] \cup {a.state.id}
             v == Aggregate!Smaller(MaxBits, Aggregate!BitsOf(a.bits, k, a.state.id)
                                      + Aggregate!Smaller(MaxBits, a.state.size * a.state.count))
             f == [i \in D |-> IF i = a.state.id THEN v ELSE a.bits[k][i]]
  <2>1. b = [a EXCEPT !.bits[k] = [i \in DOMAIN @ \cup {a.state.id} |->
                 IF i = a.state.id
                 THEN Aggregate!Smaller(MaxBits, Aggregate!BitsOf(a.bits, k, i)
                                         + Aggregate!Smaller(MaxBits, a.state.size * a.state.count))
                 ELSE @[i]]]
    BY <1>8, AnalyseIs, Zenon
  <2>2. b = [a EXCEPT !.bits = [a.bits EXCEPT ![k] = f]]
    BY <1>0, <1>8, <2>1 DEF AggBits
  <2>3. a.state.id \in Nat /\ a.state.size * a.state.count \in Nat
    BY <1>0 DEF Globals
  <2>4. Aggregate!Smaller(MaxBits, a.state.size * a.state.count) \in 0..MaxBits
    BY <2>3, SmallerTyped
  <2>5. v \in 0..MaxBits
    <3>1. Aggregate!BitsOf(a.bits, k, a.state.id) \in 0..MaxBits
      BY <1>8, BitsWhere
    <3>2. Aggregate!BitsOf(a.bits, k, a.state.id)
            + Aggregate!Smaller(MaxBits, a.state.size * a.state.count) \in Nat
      BY <2>4, <3>1, AggregateAssumption
    <3> QED  BY <3>2, SmallerTyped
  <2>6. D \in SUBSET Nat /\ f \in [D -> 0..MaxBits]
    BY <1>8, <2>3, <2>5, BitsWhere
  <2> HIDE DEF f, D, v
  <2>7. f \in UNION {[U -> 0..MaxBits] : U \in SUBSET Nat}
    BY <2>6, BitsTyped
  <2>8. [a.bits EXCEPT ![k] = f] \in AggBits
    BY <1>0, <1>8, <2>7 DEF AggBits
  <2> QED  BY <1>0, <1>b, <2>2, <2>8 DEF AggAnalysis
<1> QED
  BY <1>0, <1>1, <1>2, <1>3, <1>4, <1>5, <1>6, <1>7, <1>8 DEF Aggregate!Tags, Aggregate!Kinds

\* What an item that is not refused does.
LEMMA AnalyseActs ==
    ASSUME NEW a \in AggAnalysis, NEW x \in AggItem
    PROVE  Acts(a, x, Aggregate!AnalyseItem(a, x))
<1> DEFINE b == Aggregate!AnalyseItem(a, x)
<1>0. /\ a = [state |-> a.state, stack |-> a.stack, implicit |-> a.implicit, error |-> a.error, bits |-> a.bits]
      /\ a.state = [size |-> a.state.size, count |-> a.state.count, id |-> a.state.id]
      /\ a.state \in Globals /\ a.stack \in Seq(Globals) /\ a.error \in AggErrors
      /\ a.bits = [j \in Aggregate!Kinds |-> a.bits[j]]
      /\ x.tag \in Aggregate!Tags
  BY DEF AggItem, AggAnalysis, Globals, AggBits
<1>1. a.error # "None" => b = a
  BY AnalyseIs, Zenon
<1>2. ASSUME b.error = "None"
      PROVE  a.error = "None" /\ x.tag # "Truncated"
  <2>1. a.error = "None"
    BY <1>1, <1>2, Zenon
  <2>2. x.tag = "Truncated" => b = [a EXCEPT !.error = "TruncatedItem"]
    BY <2>1, AnalyseIs, Zenon
  <2> QED  BY <1>0, <1>2, <2>1, <2>2
<1>3. ASSUME b.error = "None", x.tag = "ReportSize"
      PROVE  /\ b.implicit = a.implicit
             /\ b.state = [size |-> x.value, count |-> a.state.count, id |-> a.state.id]
             /\ b.stack = a.stack /\ b.bits = a.bits
  <2>1. b = [a EXCEPT !.state.size = x.value]
    BY <1>2, <1>3, AnalyseIs, Zenon
  <2> HIDE DEF b
  <2> QED  BY <1>0, <2>1
<1>4. ASSUME b.error = "None", x.tag = "ReportCount"
      PROVE  /\ b.implicit = a.implicit
             /\ b.state = [size |-> a.state.size, count |-> x.value, id |-> a.state.id]
             /\ b.stack = a.stack /\ b.bits = a.bits
  <2>1. b = [a EXCEPT !.state.count = x.value]
    BY <1>2, <1>4, AnalyseIs, Zenon
  <2> HIDE DEF b
  <2> QED  BY <1>0, <2>1
<1>5. ASSUME b.error = "None", x.tag = "ReportId"
      PROVE  /\ x.bytes = 2 /\ b.implicit = FALSE
             /\ b.state = [size |-> a.state.size, count |-> a.state.count, id |-> x.value]
             /\ b.stack = a.stack /\ b.bits = a.bits
  <2>1. b = IF x.bytes # 2 THEN [a EXCEPT !.error = "UnsupportedReportId"]
            ELSE [a EXCEPT !.state.id = x.value, !.implicit = FALSE]
    BY <1>2, <1>5, AnalyseIs, Zenon
  <2> HIDE DEF b
  <2>2. x.bytes = 2
    BY <1>0, <1>5, <2>1
  <2> QED  BY <1>0, <2>1, <2>2
<1>6. ASSUME b.error = "None", x.tag = "Push"
      PROVE  /\ b.implicit = a.implicit
             /\ b.state = a.state /\ b.stack = Append(a.stack, a.state) /\ b.bits = a.bits
  <2>1. b = IF Len(a.stack) = StackDepth THEN [a EXCEPT !.error = "PushPopStackOverflow"]
            ELSE [a EXCEPT !.stack = Append(@, a.state)]
    BY <1>2, <1>6, AnalyseIs, Zenon
  <2> HIDE DEF b
  <2>2. Len(a.stack) # StackDepth
    BY <1>0, <1>6, <2>1
  <2> QED  BY <1>0, <2>1, <2>2
<1>7. ASSUME b.error = "None", x.tag = "Pop"
      PROVE  /\ b.implicit = a.implicit
             /\ a.stack # <<>> /\ b.state = a.stack[Len(a.stack)]
             /\ b.stack = SubSeq(a.stack, 1, Len(a.stack) - 1) /\ b.bits = a.bits
  <2>1. b = IF a.stack = <<>> THEN [a EXCEPT !.error = "UnbalancedPop"]
            ELSE [a EXCEPT !.stack = SubSeq(@, 1, Len(@) - 1), !.state = a.stack[Len(a.stack)]]
    BY <1>2, <1>7, AnalyseIs, Zenon
  <2> HIDE DEF b
  <2>2. a.stack # <<>>
    BY <1>0, <1>7, <2>1
  <2> QED  BY <1>0, <2>1, <2>2
<1>8. ASSUME b.error = "None", x.tag \in Aggregate!Kinds
      PROVE  /\ b.implicit = a.implicit /\ b.state = a.state /\ b.stack = a.stack
             /\ \A k \in Aggregate!Kinds \ {x.tag} : b.bits[k] = a.bits[k]
             /\ b.bits[x.tag] =
                  [i \in DOMAIN a.bits[x.tag] \cup {a.state.id} |->
                     IF i = a.state.id
                     THEN Aggregate!Smaller(MaxBits, Aggregate!BitsOf(a.bits, x.tag, i)
                                             + Aggregate!Smaller(MaxBits, a.state.size * a.state.count))
                     ELSE a.bits[x.tag][i]]
  <2> DEFINE f == [i \in DOMAIN a.bits[x.tag] \cup {a.state.id} |->
                     IF i = a.state.id
                     THEN Aggregate!Smaller(MaxBits, Aggregate!BitsOf(a.bits, x.tag, i)
                                             + Aggregate!Smaller(MaxBits, a.state.size * a.state.count))
                     ELSE a.bits[x.tag][i]]
  <2>1. b = [a EXCEPT !.bits[x.tag] = [i \in DOMAIN @ \cup {a.state.id} |->
                   IF i = a.state.id
                   THEN Aggregate!Smaller(MaxBits, Aggregate!BitsOf(a.bits, x.tag, i)
                                           + Aggregate!Smaller(MaxBits, a.state.size * a.state.count))
                   ELSE @[i]]]
    BY <1>2, <1>8, AnalyseIs, Zenon
  <2>2. b = [a EXCEPT !.bits = [a.bits EXCEPT ![x.tag] = f]]
    BY <1>0, <1>8, <2>1
  <2> HIDE DEF b, f
  <2>3. b.bits[x.tag] = f /\ \A k \in Aggregate!Kinds \ {x.tag} : b.bits[k] = a.bits[k]
    BY <1>0, <1>8, <2>2
  <2>4. b.implicit = a.implicit /\ b.state = a.state /\ b.stack = a.stack
    BY <1>0, <2>2
  <2> QED  BY <2>3, <2>4 DEF f
<1>9. ASSUME b.error = "None", x.tag \in {"Collection", "Other", "Long"}
      PROVE  b = a
  BY <1>2, <1>9, AnalyseIs, Zenon
<1> HIDE DEF b
<1>10. b.error = "None" /\ x.tag # "ReportId" => b.implicit = a.implicit
  BY <1>0, <1>2, <1>3, <1>4, <1>6, <1>7, <1>8, <1>9, Zenon DEF Aggregate!Tags, Aggregate!Kinds
<1>11. ASSUME b.error = "None", x.tag \in Aggregate!Kinds
       PROVE  /\ DOMAIN b.bits[x.tag] = DOMAIN a.bits[x.tag] \cup {a.state.id}
              /\ \A i \in DOMAIN a.bits[x.tag] \ {a.state.id} : b.bits[x.tag][i] = a.bits[x.tag][i]
              /\ b.bits[x.tag][a.state.id] =
                    Aggregate!Smaller(MaxBits, Aggregate!BitsOf(a.bits, x.tag, a.state.id)
                                        + Aggregate!Smaller(MaxBits, a.state.size * a.state.count))
  BY <1>8, <1>11
<1>12. Acts(a, x, b)
  BY <1>1, <1>2, <1>3, <1>4, <1>5, <1>6, <1>7, <1>8, <1>9, <1>10, <1>11, Zenon DEF Acts
<1> QED  BY <1>12 DEF b

\* The analysis item by item.
LEMMA AnalysesGo ==
    ASSUME NEW items \in Seq(AggItem)
    PROVE  /\ Aggregate!Analyses(items)[0] = Aggregate!Analysis0
           /\ \A n \in 1..Len(items) :
                 Aggregate!Analyses(items)[n] = Aggregate!AnalyseItem(Aggregate!Analyses(items)[n - 1], items[n])
           /\ \A n \in 0..Len(items) : Aggregate!Analyses(items)[n] \in AggAnalysis
<1> DEFINE go == [i \in 1..Len(items) |-> [a \in AggAnalysis |-> Aggregate!AnalyseItem(a, items[i])]]
<1>1. Aggregate!Analysis0 \in AggAnalysis
  <2>1. Aggregate!Global0 \in Globals
    BY DEF Aggregate!Global0, Globals
  <2>2. [i \in {} |-> 0] \in [{} -> 0..MaxBits]
    OBVIOUS
  <2>3. [i \in {} |-> 0] \in UNION {[U -> 0..MaxBits] : U \in SUBSET Nat}
    BY <2>2, BitsTyped
  <2>4. [k \in Aggregate!Kinds |-> [i \in {} |-> 0]] \in AggBits
    BY <2>3 DEF AggBits
  <2> QED  BY <2>1, <2>4 DEF Aggregate!Analysis0, AggAnalysis, AggErrors
<1>2. \A i \in 1..Len(items), a \in AggAnalysis : Aggregate!AnalyseItem(a, items[i]) \in AggAnalysis
  <2> TAKE i \in 1..Len(items), a \in AggAnalysis
  <2>1. items[i] \in AggItem
    OBVIOUS
  <2> QED  BY <2>1, AnalyseTyped
<1>3. go \in [1..Len(items) -> [AggAnalysis -> AggAnalysis]]
  BY <1>2
<1>4. PICK f \in [0..Len(items) -> AggAnalysis] :
         f[0] = Aggregate!Analysis0 /\ \A i \in 1..Len(items) : f[i] = go[i][f[i - 1]]
  <2> HIDE DEF go
  <2>1. Len(items) \in Nat
    OBVIOUS
  <2>2. HasRun(Len(items), AggAnalysis, Aggregate!Analysis0, go)
    BY <1>1, <1>3, <2>1, RunExists, Zenon
  <2> QED  BY <2>2, Zenon DEF HasRun
<1>5. f = [n \in 0..Len(items) |->
             IF n = 0 THEN Aggregate!Analysis0 ELSE Aggregate!AnalyseItem(f[n - 1], items[n])]
  <2>1. ASSUME NEW n \in 1..Len(items) PROVE f[n] = Aggregate!AnalyseItem(f[n - 1], items[n])
    <3>1. n - 1 \in 0..Len(items)
      OBVIOUS
    <3>2. f[n - 1] \in AggAnalysis
      BY <3>1
    <3> QED  BY <1>4, <3>2
  <2>2. \A n \in 0..Len(items) :
           f[n] = IF n = 0 THEN Aggregate!Analysis0 ELSE Aggregate!AnalyseItem(f[n - 1], items[n])
    BY <1>4, <2>1
  <2> QED  BY <2>2
<1>6. Aggregate!Analyses(items) =
         [n \in 0..Len(items) |->
             IF n = 0 THEN Aggregate!Analysis0
             ELSE Aggregate!AnalyseItem(Aggregate!Analyses(items)[n - 1], items[n])]
  BY <1>5, Zenon DEF Aggregate!Analyses
<1> DEFINE A == Aggregate!Analyses(items)
<1>7. A[0] = Aggregate!Analysis0
      /\ \A n \in 1..Len(items) : A[n] = Aggregate!AnalyseItem(A[n - 1], items[n])
  <2> HIDE DEF A
  <2>1. A = [n \in 0..Len(items) |-> IF n = 0 THEN Aggregate!Analysis0 ELSE Aggregate!AnalyseItem(A[n - 1], items[n])]
    BY <1>6 DEF A
  <2> QED  BY <2>1
<1>8. \A n \in 0..Len(items) : A[n] \in AggAnalysis
  <2> HIDE DEF A
  <2>1. \A n \in 1..Len(items) : A[n - 1] \in AggAnalysis => A[n] \in AggAnalysis
    BY <1>2, <1>7
  <2>2. Len(items) \in Nat /\ A[0] \in AggAnalysis
    BY <1>1, <1>7
  <2> QED  BY <2>1, <2>2, RunTyped, Zenon
<1> QED  BY <1>7, <1>8

LEMMA AnalyseOf ==
    ASSUME NEW items \in Seq(AggItem)
    PROVE  Aggregate!Analyse(items) = Aggregate!Analyses(items)[Len(items)] /\ Aggregate!Analyse(items) \in AggAnalysis
BY AnalysesGo DEF Aggregate!Analyse

\* One item more: one step more.
LEMMA AnalyseAppend ==
    ASSUME NEW items \in Seq(AggItem), NEW x \in AggItem
    PROVE  Aggregate!Analyse(Append(items, x)) = Aggregate!AnalyseItem(Aggregate!Analyse(items), x)
<1> DEFINE more == Append(items, x)
           A == Aggregate!Analyses(items)
           B == Aggregate!Analyses(more)
           T == {n \in 0..Len(items) : B[n] = A[n]}
<1>1. more \in Seq(AggItem) /\ Len(more) = Len(items) + 1 /\ more[Len(items) + 1] = x
      /\ \A n \in 1..Len(items) : more[n] = items[n]
  OBVIOUS
<1>2. A[0] = Aggregate!Analysis0 /\ \A n \in 1..Len(items) : A[n] = Aggregate!AnalyseItem(A[n - 1], items[n])
  BY AnalysesGo, Zenon
<1>3. B[0] = Aggregate!Analysis0 /\ \A n \in 1..Len(more) : B[n] = Aggregate!AnalyseItem(B[n - 1], more[n])
  BY <1>1, AnalysesGo, Zenon
<1>4. Aggregate!Analyse(more) = B[Len(more)] /\ Aggregate!Analyse(items) = A[Len(items)]
  BY Zenon DEF Aggregate!Analyse
<1> HIDE DEF A, B, more
<1>5. \A n \in 0..Len(items) : n \in T
  <2>1. 0 \in T
    BY <1>2, <1>3
  <2>2. ASSUME NEW n \in 1..Len(items), n - 1 \in T PROVE n \in T
    <3>1. n \in 1..Len(more)
      BY <1>1
    <3> QED  BY <1>1, <1>2, <1>3, <2>2, <3>1
  <2> HIDE DEF T
  <2>3. Len(items) \in Nat
    OBVIOUS
  <2> QED  BY <2>1, <2>2, <2>3, Upwards
<1>6. B[Len(items)] = A[Len(items)]
  BY <1>5
<1>7. Len(items) + 1 \in 1..Len(more) /\ (Len(items) + 1) - 1 = Len(items)
  BY <1>1
<1>8. B[Len(items) + 1] = Aggregate!AnalyseItem(B[Len(items)], x)
  BY <1>1, <1>3, <1>7
<1>9. Aggregate!Analyse(more) = Aggregate!AnalyseItem(Aggregate!Analyse(items), x)
  BY <1>1, <1>4, <1>6, <1>8
<1> QED  BY <1>9 DEF more

LEMMA AnalyseEmpty ==
    Aggregate!Analyse(<<>>) = Aggregate!Analysis0
<1>1. <<>> \in Seq(AggItem) /\ Len(<<>>) = 0
  OBVIOUS
<1> QED  BY <1>1, AnalysesGo, AnalyseOf, Zenon

\* No item of a descriptor that is analysed to its end was refused.
LEMMA NoneRefused ==
    ASSUME NEW d \in Seq(AggItem), Aggregate!Analyse(d).error = "None"
    PROVE  /\ \A n \in 0..Len(d) : Aggregate!Analyses(d)[n].error = "None"
           /\ \A n \in 1..Len(d) : Acts(Aggregate!Analyses(d)[n - 1], d[n], Aggregate!Analyses(d)[n])
<1> DEFINE A == Aggregate!Analyses(d)
           T == {n \in 0..Len(d) : A[Len(d) - n].error = "None"}
<1>1. \A n \in 1..Len(d) : Acts(A[n - 1], d[n], A[n])
  <2> TAKE n \in 1..Len(d)
  <2>1. n - 1 \in 0..Len(d) /\ d[n] \in AggItem
    OBVIOUS
  <2>2. A[n - 1] \in AggAnalysis /\ A[n] = Aggregate!AnalyseItem(A[n - 1], d[n])
    BY <2>1, AnalysesGo
  <2> HIDE DEF A
  <2> QED  BY <2>1, <2>2, AnalyseActs
<1>2. A[Len(d)].error = "None"
  BY AnalyseOf
<1> HIDE DEF A
<1>3. \A n \in 0..Len(d) : n \in T
  <2>1. 0 \in T
    BY <1>2
  <2>2. ASSUME NEW n \in 1..Len(d), n - 1 \in T PROVE n \in T
    <3>1. Len(d) - (n - 1) \in 1..Len(d) /\ (Len(d) - (n - 1)) - 1 = Len(d) - n
      OBVIOUS
    <3>2. A[Len(d) - (n - 1)].error = "None"
      BY <2>2
    <3>3. Acts(A[Len(d) - n], d[Len(d) - (n - 1)], A[Len(d) - (n - 1)])
      BY <1>1, <3>1
    <3>4. A[Len(d) - n].error = "None"
      BY <3>2, <3>3, Zenon DEF Acts
    <3> QED  BY <3>4
  <2> HIDE DEF T
  <2>3. Len(d) \in Nat
    OBVIOUS
  <2> QED  BY <2>1, <2>2, <2>3, Upwards
<1>4. ASSUME NEW n \in 0..Len(d) PROVE A[n].error = "None"
  <2>1. Len(d) - n \in 0..Len(d) /\ Len(d) - (Len(d) - n) = n
    OBVIOUS
  <2> QED  BY <1>3, <2>1
<1> QED  BY <1>1, <1>4 DEF A

\* A device without report ids has no item that gives one, and stays at id 0.
LEMMA ImplicitIs ==
    ASSUME NEW d \in Seq(AggItem), Aggregate!Analyse(d).error = "None"
    PROVE  Aggregate!Analyse(d).implicit <=> \A i \in 1..Len(d) : d[i].tag # "ReportId"
<1> DEFINE A == Aggregate!Analyses(d)
           T == {n \in 0..Len(d) : A[n].implicit <=> \A i \in 1..n : d[i].tag # "ReportId"}
<1>1. /\ A[0] = Aggregate!Analysis0 /\ Aggregate!Analyse(d) = A[Len(d)]
      /\ \A n \in 0..Len(d) : A[n].error = "None"
      /\ \A n \in 1..Len(d) : Acts(A[n - 1], d[n], A[n])
  BY AnalysesGo, AnalyseOf, NoneRefused, Zenon
<1> HIDE DEF A
<1>2. \A n \in 0..Len(d) : n \in T
  <2>1. 0 \in T
    BY <1>1 DEF Aggregate!Analysis0
  <2>2. ASSUME NEW n \in 1..Len(d), n - 1 \in T PROVE n \in T
    <3>1. A[n - 1].implicit <=> \A i \in 1..n - 1 : d[i].tag # "ReportId"
      BY <2>2
    <3>2. n \in 0..Len(d) /\ n \in 1..n
      OBVIOUS
    <3>3. /\ d[n].tag = "ReportId" => A[n].implicit = FALSE
          /\ d[n].tag # "ReportId" => A[n].implicit = A[n - 1].implicit
      BY <1>1, <3>2, Zenon DEF Acts
    <3>4. (\A i \in 1..n : d[i].tag # "ReportId")
          <=> d[n].tag # "ReportId" /\ \A i \in 1..n - 1 : d[i].tag # "ReportId"
      <4>1. \A i : i \in 1..n <=> i = n \/ i \in 1..n - 1
        OBVIOUS
      <4> QED  BY <4>1, Zenon
    <3>5. A[n].implicit <=> \A i \in 1..n : d[i].tag # "ReportId"
      BY <3>1, <3>3, <3>4, Zenon
    <3> QED  BY <3>2, <3>5, Zenon
  <2> HIDE DEF T
  <2>3. Len(d) \in Nat
    OBVIOUS
  <2> QED  BY <2>1, <2>2, <2>3, Upwards
<1>3. Len(d) \in 0..Len(d)
  OBVIOUS
<1>4. A[Len(d)].implicit <=> \A i \in 1..Len(d) : d[i].tag # "ReportId"
  BY <1>2, <1>3, Zenon
<1> QED  BY <1>1, <1>4, Zenon

\* The merge: its state, and what copying an item does to it.
Merges ==
    {m \in [remaps : Seq(Nat), starts : Seq(Nat), items : Seq(AggItem), inserted : BOOLEAN,
            error : {"None", "TooManyReportIds"}] : Len(m.remaps) <= ReportCount}

Underway == {m \in Merges : m.starts # <<>>}

\* The host ids of the device being merged.
LastBlock(m) == m.starts[Len(m.starts)] + 1 .. Len(m.remaps)

FirstCollection(x, implicit, m) == x.tag = "Collection" /\ implicit /\ ~m.inserted

Keeps(m, x, c) == c = [m EXCEPT !.items = Append(@, x)]

Refers(m, x, c) ==
    \E h \in LastBlock(m) :
        m.remaps[h] = x.value /\ c = [m EXCEPT !.items = Append(@, Aggregate!IdItem(h))]

Names(m, x, c) ==
    /\ \A h \in LastBlock(m) : m.remaps[h] # x.value
    /\ Len(m.remaps) < ReportCount
    /\ c = [m EXCEPT !.remaps = Append(@, x.value),
                     !.items = Append(@, Aggregate!IdItem(Len(m.remaps) + 1))]

Inserts(m, x, c) ==
    /\ Len(m.remaps) < ReportCount
    /\ c = [m EXCEPT !.remaps = Append(@, 0),
                     !.items = Append(Append(@, x), Aggregate!IdItem(Len(m.remaps) + 1)),
                     !.inserted = TRUE]

LEMMA MergeParts ==
    ASSUME NEW m \in Merges
    PROVE  /\ m = [remaps |-> m.remaps, starts |-> m.starts, items |-> m.items, inserted |-> m.inserted,
                   error |-> m.error]
           /\ m.remaps \in Seq(Nat) /\ m.starts \in Seq(Nat) /\ m.items \in Seq(AggItem)
           /\ m.error \in {"None", "TooManyReportIds"} /\ Len(m.remaps) <= ReportCount
           /\ Len(m.remaps) \in Nat
BY DEF Merges

LEMMA MergeMade ==
    ASSUME NEW r \in Seq(Nat), NEW s \in Seq(Nat), NEW t \in Seq(AggItem), NEW i \in BOOLEAN,
           NEW e \in {"None", "TooManyReportIds"}, Len(r) <= ReportCount
    PROVE  [remaps |-> r, starts |-> s, items |-> t, inserted |-> i, error |-> e] \in Merges
BY DEF Merges

LEMMA IdItemTyped ==
    ASSUME NEW h \in Nat
    PROVE  Aggregate!IdItem(h) \in AggItem
BY DEF Aggregate!IdItem, AggItem, Aggregate!Tags

LEMMA AssignActs ==
    ASSUME NEW m \in Underway, NEW x \in AggItem, m.error = "None"
    PROVE  LET c == Aggregate!Assign(m, x.value)
           IN  \/ Refers(m, x, c)
               \/ Names(m, x, c)
               \/ c = [m EXCEPT !.error = "TooManyReportIds"]
<1> DEFINE found == {h \in LastBlock(m) : m.remaps[h] = x.value}
<1>0. /\ found \in SUBSET Nat
      /\ \A h \in found : h \in Nat /\ h # None
      /\ Len(m.remaps) \in Nat /\ Len(m.remaps) <= ReportCount
  <2>1. m.starts[Len(m.starts)] \in Nat /\ Len(m.remaps) \in Nat
    BY DEF Underway, Merges
  <2> QED  BY <2>1, NoneAssumption, MergeParts DEF LastBlock, Underway
<1>1. CASE found = {}
  <2>1. Aggregate!Assigned(m, x.value) = None
    BY <1>1, Zenon DEF Aggregate!Assigned, LastBlock
  <2>2. Aggregate!Assign(m, x.value) =
           IF Len(m.remaps) = ReportCount
           THEN [m EXCEPT !.error = "TooManyReportIds"]
           ELSE [m EXCEPT !.remaps = Append(@, x.value),
                          !.items = Append(@, Aggregate!IdItem(Len(m.remaps) + 1))]
    BY <2>1, Zenon DEF Aggregate!Assign
  <2>3. Len(m.remaps) # ReportCount => Len(m.remaps) < ReportCount
    BY <1>0, AggregateAssumption
  <2>4. \A h \in LastBlock(m) : m.remaps[h] # x.value
    BY <1>1
  <2> QED  BY <2>2, <2>3, <2>4, Zenon DEF Names
<1>2. CASE found # {}
  <2>1. \E h \in found : \A g \in found : h <= g
    BY <1>0, <1>2, LeastOf
  <2> DEFINE h == CHOOSE h \in found : \A g \in found : h <= g
  <2>2. h \in found
    BY <2>1, Zenon
  <2>3. Aggregate!Assigned(m, x.value) = h
    BY <1>2, Zenon DEF Aggregate!Assigned, LastBlock
  <2> HIDE DEF h
  <2>4. h # None
    BY <1>0, <2>2
  <2>5. Aggregate!Assign(m, x.value) = [m EXCEPT !.items = Append(@, Aggregate!IdItem(h))]
    BY <2>3, <2>4, Zenon DEF Aggregate!Assign
  <2>6. h \in LastBlock(m) /\ m.remaps[h] = x.value
    BY <2>2
  <2> QED  BY <2>5, <2>6, Zenon DEF Refers
<1> QED  BY <1>1, <1>2

\* An item is taken, or it is an id, which is replaced, or it is the first
\* collection of a device without ids, which is followed by one.
Does(m, x, implicit, c) ==
    \/ x.tag # "ReportId" /\ ~FirstCollection(x, implicit, m) /\ Keeps(m, x, c)
    \/ x.tag = "ReportId" /\ (Refers(m, x, c) \/ Names(m, x, c))
    \/ FirstCollection(x, implicit, m) /\ Inserts(m, x, c)

Stops(m, x, c) ==
    /\ c.error = "TooManyReportIds"
    /\ \E it \in {m.items, Append(m.items, x)}, i \in BOOLEAN :
          c = [m EXCEPT !.items = it, !.inserted = i, !.error = "TooManyReportIds"]

LEMMA CopyActs ==
    ASSUME NEW m \in Underway, NEW x \in AggItem, NEW implicit
    PROVE  LET c == Aggregate!CopyItem(m, x, implicit)
           IN  /\ c = m \/ Does(m, x, implicit, c) \/ Stops(m, x, c)
               /\ c.error = "None" => m.error = "None" /\ Does(m, x, implicit, c)
<1> DEFINE c == Aggregate!CopyItem(m, x, implicit)
<1>0. /\ m.inserted \in BOOLEAN
      /\ m = [remaps |-> m.remaps, starts |-> m.starts, items |-> m.items, inserted |-> m.inserted,
              error |-> m.error]
  BY DEF Underway, Merges
<1>1. CASE m.error # "None"
  <2>1. c = m
    BY <1>1, Zenon DEF Aggregate!CopyItem
  <2> QED  BY <1>1, <2>1, Zenon
<1>2. CASE m.error = "None" /\ x.tag = "ReportId"
  <2>1. c = Aggregate!Assign(m, x.value)
    BY <1>2, Zenon DEF Aggregate!CopyItem
  <2>2. Refers(m, x, c) \/ Names(m, x, c) \/ c = [m EXCEPT !.error = "TooManyReportIds"]
    BY <1>2, <2>1, AssignActs, Zenon
  <2> HIDE DEF c
  <2>3. CASE c = [m EXCEPT !.error = "TooManyReportIds"]
    <3>1. c = [m EXCEPT !.items = m.items, !.inserted = m.inserted, !.error = "TooManyReportIds"]
      BY <1>0, <2>3
    <3>2. c.error = "TooManyReportIds"
      BY <1>0, <2>3
    <3>3. Stops(m, x, c)
      BY <1>0, <3>1, <3>2, Zenon DEF Stops
    <3>4. c.error # "None"
      BY <3>2
    <3> QED  BY <3>3, <3>4, Zenon DEF c
  <2>4. CASE Refers(m, x, c) \/ Names(m, x, c)
    <3>1. Does(m, x, implicit, c)
      BY <1>2, <2>4, Zenon DEF Does
    <3> QED  BY <1>2, <3>1, Zenon DEF c
  <2> QED  BY <2>2, <2>3, <2>4, Zenon
<1>3. CASE m.error = "None" /\ FirstCollection(x, implicit, m)
  <2> DEFINE taken == [m EXCEPT !.items = Append(@, x)]
             with == IF Len(m.remaps) = ReportCount
                     THEN [taken EXCEPT !.error = "TooManyReportIds"]
                     ELSE [taken EXCEPT !.remaps = Append(@, 0),
                                         !.items = Append(@, Aggregate!IdItem(Len(m.remaps) + 1))]
  <2>1. c = [with EXCEPT !.inserted = TRUE]
    BY <1>3, Zenon DEF Aggregate!CopyItem, FirstCollection
  <2> HIDE DEF c
  <2>2. CASE Len(m.remaps) = ReportCount
    <3>1. c = [m EXCEPT !.items = Append(m.items, x), !.inserted = TRUE, !.error = "TooManyReportIds"]
      BY <1>0, <2>1, <2>2
    <3>2. c.error = "TooManyReportIds"
      BY <1>0, <3>1
    <3>3. Stops(m, x, c)
      BY <3>1, <3>2, Zenon DEF Stops
    <3>4. c.error # "None"
      BY <3>2
    <3> QED  BY <3>3, <3>4, Zenon DEF c
  <2>3. CASE Len(m.remaps) # ReportCount
    <3>1. Len(m.remaps) < ReportCount
      BY <2>3, AggregateAssumption, MergeParts DEF Underway
    <3>2. c = [m EXCEPT !.remaps = Append(@, 0),
                        !.items = Append(Append(@, x), Aggregate!IdItem(Len(m.remaps) + 1)),
                        !.inserted = TRUE]
      BY <1>0, <2>1, <2>3
    <3>3. Does(m, x, implicit, c)
      BY <1>3, <3>1, <3>2, Zenon DEF Does, Inserts
    <3> QED  BY <1>3, <3>3, Zenon DEF c
  <2> QED  BY <2>2, <2>3
<1>4. CASE m.error = "None" /\ x.tag # "ReportId" /\ ~FirstCollection(x, implicit, m)
  <2>1. c = [m EXCEPT !.items = Append(@, x)]
    BY <1>4, Zenon DEF Aggregate!CopyItem, FirstCollection
  <2> HIDE DEF c
  <2>2. Does(m, x, implicit, c)
    BY <1>4, <2>1, Zenon DEF Does, Keeps
  <2> QED  BY <1>4, <2>2, Zenon DEF c
<1>5. /\ c = m \/ Does(m, x, implicit, c) \/ Stops(m, x, c)
      /\ c.error = "None" => m.error = "None" /\ Does(m, x, implicit, c)
  BY <1>1, <1>2, <1>3, <1>4, Zenon
<1> QED  BY <1>5, Zenon

LEMMA LastBlockIs ==
    ASSUME NEW m \in Underway
    PROVE  /\ m \in Merges /\ Len(m.starts) \in Nat /\ Len(m.starts) \in 1..Len(m.starts)
           /\ m.starts[Len(m.starts)] \in Nat
           /\ \A h \in LastBlock(m) : h \in Nat /\ h \in 1..Len(m.remaps)
BY MergeParts DEF Underway, LastBlock

LEMMA CopyTyped ==
    ASSUME NEW m \in Underway, NEW x \in AggItem, NEW implicit
    PROVE  /\ Aggregate!CopyItem(m, x, implicit) \in Underway
           /\ Aggregate!CopyItem(m, x, implicit).starts = m.starts
<1>0. PICK c : c = Aggregate!CopyItem(m, x, implicit)
  OBVIOUS
<1>1. c = m \/ Does(m, x, implicit, c) \/ Stops(m, x, c)
  BY <1>0, CopyActs, Zenon
<1>2. /\ m = [remaps |-> m.remaps, starts |-> m.starts, items |-> m.items, inserted |-> m.inserted,
              error |-> m.error]
      /\ m.remaps \in Seq(Nat) /\ m.starts \in Seq(Nat) /\ m.items \in Seq(AggItem) /\ m.starts # <<>>
      /\ m.error \in {"None", "TooManyReportIds"} /\ Len(m.remaps) <= ReportCount
      /\ Len(m.remaps) \in Nat
  BY MergeParts DEF Underway
<1>3. m.inserted \in BOOLEAN
  BY DEF Underway, Merges
<1>4. Append(m.items, x) \in Seq(AggItem)
  BY <1>2
<1>5. ASSUME NEW h \in Nat
      PROVE  /\ Append(m.items, Aggregate!IdItem(h)) \in Seq(AggItem)
             /\ Append(Append(m.items, x), Aggregate!IdItem(h)) \in Seq(AggItem)
  <2>1. Aggregate!IdItem(h) \in AggItem
    BY IdItemTyped
  <2> QED  BY <1>2, <1>4, <2>1
<1>6. ASSUME NEW v \in Nat, Len(m.remaps) < ReportCount
      PROVE  Append(m.remaps, v) \in Seq(Nat) /\ Len(Append(m.remaps, v)) <= ReportCount
  BY <1>2, <1>6, AggregateAssumption
<1>7. Len(m.remaps) + 1 \in Nat /\ x.value \in Nat /\ \A h \in LastBlock(m) : h \in Nat
  BY <1>2, LastBlockIs DEF AggItem
<1>8. ASSUME NEW r \in Seq(Nat), NEW t \in Seq(AggItem), NEW i \in BOOLEAN,
             NEW e \in {"None", "TooManyReportIds"}, Len(r) <= ReportCount,
             c = [remaps |-> r, starts |-> m.starts, items |-> t, inserted |-> i, error |-> e]
      PROVE  c \in Underway /\ c.starts = m.starts
  <2>1. c \in Merges
    BY <1>2, <1>8, MergeMade
  <2>2. c.starts = m.starts
    BY <1>8
  <2> QED  BY <1>2, <2>1, <2>2 DEF Underway
<1>9. CASE Keeps(m, x, c)
  <2>1. c = [remaps |-> m.remaps, starts |-> m.starts, items |-> Append(m.items, x), inserted |-> m.inserted,
             error |-> m.error]
    BY <1>2, <1>9 DEF Keeps
  <2> QED  BY <1>0, <1>2, <1>3, <1>4, <1>8, <2>1
<1>10. CASE Refers(m, x, c)
  <2>1. PICK h \in LastBlock(m) : c = [m EXCEPT !.items = Append(@, Aggregate!IdItem(h))]
    BY <1>10 DEF Refers
  <2>2. c = [remaps |-> m.remaps, starts |-> m.starts, items |-> Append(m.items, Aggregate!IdItem(h)),
             inserted |-> m.inserted, error |-> m.error]
    BY <1>2, <2>1
  <2> QED  BY <1>0, <1>2, <1>3, <1>5, <1>7, <1>8, <2>2
<1>11. CASE Names(m, x, c)
  <2>1. c = [remaps |-> Append(m.remaps, x.value), starts |-> m.starts,
             items |-> Append(m.items, Aggregate!IdItem(Len(m.remaps) + 1)),
             inserted |-> m.inserted, error |-> m.error]
    BY <1>2, <1>11 DEF Names
  <2>2. Len(m.remaps) < ReportCount
    BY <1>11 DEF Names
  <2> QED  BY <1>0, <1>2, <1>3, <1>5, <1>6, <1>7, <1>8, <2>1, <2>2
<1>12. CASE Inserts(m, x, c)
  <2>1. c = [remaps |-> Append(m.remaps, 0), starts |-> m.starts,
             items |-> Append(Append(m.items, x), Aggregate!IdItem(Len(m.remaps) + 1)),
             inserted |-> TRUE, error |-> m.error]
    BY <1>2, <1>12 DEF Inserts
  <2>2. Len(m.remaps) < ReportCount
    BY <1>12 DEF Inserts
  <2> QED  BY <1>0, <1>2, <1>3, <1>5, <1>6, <1>7, <1>8, <2>1, <2>2
<1>13. CASE Stops(m, x, c)
  <2>1. PICK it \in {m.items, Append(m.items, x)}, i \in BOOLEAN :
           c = [m EXCEPT !.items = it, !.inserted = i, !.error = "TooManyReportIds"]
    BY <1>13, Zenon DEF Stops
  <2>2. c = [remaps |-> m.remaps, starts |-> m.starts, items |-> it, inserted |-> i, error |-> "TooManyReportIds"]
    BY <1>2, <2>1
  <2>3. it \in Seq(AggItem)
    BY <1>2, <1>4, <2>1
  <2> QED  BY <1>0, <1>2, <1>8, <2>2, <2>3
<1>14. CASE c = m
  BY <1>0, <1>14
<1> QED
  BY <1>1, <1>9, <1>10, <1>11, <1>12, <1>13, <1>14, Zenon DEF Does

LEMMA BegunTyped ==
    ASSUME NEW m \in Merges
    PROVE  /\ Aggregate!Begun(m) \in Underway
           /\ Aggregate!Begun(m) =
                 [remaps |-> m.remaps, starts |-> Append(m.starts, Len(m.remaps)),
                  items |-> Append(m.items, Aggregate!PushItem), inserted |-> FALSE, error |-> m.error]
<1>1. /\ m = [remaps |-> m.remaps, starts |-> m.starts, items |-> m.items, inserted |-> m.inserted,
              error |-> m.error]
      /\ m.remaps \in Seq(Nat) /\ m.starts \in Seq(Nat) /\ m.items \in Seq(AggItem)
      /\ m.error \in {"None", "TooManyReportIds"} /\ Len(m.remaps) <= ReportCount
      /\ Len(m.remaps) \in Nat
  BY MergeParts
<1>2. Aggregate!PushItem \in AggItem
  BY DEF Aggregate!PushItem, AggItem, Aggregate!Tags
<1>3. /\ Append(m.starts, Len(m.remaps)) \in Seq(Nat)
      /\ Append(m.starts, Len(m.remaps)) # <<>>
      /\ Append(m.items, Aggregate!PushItem) \in Seq(AggItem)
  <2>1. Append(m.items, Aggregate!PushItem) \in Seq(AggItem)
    BY <1>1, <1>2
  <2>2. Append(m.starts, Len(m.remaps)) \in Seq(Nat)
    BY <1>1
  <2>3. Len(Append(m.starts, Len(m.remaps))) = Len(m.starts) + 1 /\ Len(m.starts) \in Nat
    BY <1>1
  <2> QED  BY <2>1, <2>2, <2>3
<1>4. PICK b : b = [remaps |-> m.remaps, starts |-> Append(m.starts, Len(m.remaps)),
                    items |-> Append(m.items, Aggregate!PushItem), inserted |-> FALSE, error |-> m.error]
  OBVIOUS
<1>5. Aggregate!Begun(m) = b
  <2>1. Aggregate!Begun(m) = [m EXCEPT !.starts = Append(m.starts, Len(m.remaps)),
                                       !.items = Append(m.items, Aggregate!PushItem), !.inserted = FALSE]
    BY Zenon DEF Aggregate!Begun
  <2>2. PICK c : c = Aggregate!Begun(m)
    OBVIOUS
  <2>3. c = [remaps |-> m.remaps, starts |-> Append(m.starts, Len(m.remaps)),
             items |-> Append(m.items, Aggregate!PushItem), inserted |-> FALSE, error |-> m.error]
    BY <1>1, <2>1, <2>2
  <2> QED  BY <1>4, <2>2, <2>3, Zenon
<1>6. b \in Merges
  BY <1>1, <1>3, <1>4, MergeMade
<1>7. b.starts # <<>>
  BY <1>3, <1>4
<1>8. b \in Underway
  BY <1>6, <1>7 DEF Underway
<1> QED  BY <1>4, <1>5, <1>8, Zenon

\* A device's descriptor, item by item.
LEMMA CopiesGo ==
    ASSUME NEW m \in Merges, NEW d \in Seq(AggItem)
    PROVE  /\ Aggregate!Copies(m, d)[0] = Aggregate!Begun(m)
           /\ \A n \in 1..Len(d) :
                 Aggregate!Copies(m, d)[n] =
                    Aggregate!CopyItem(Aggregate!Copies(m, d)[n - 1], d[n], Aggregate!Analyse(d).implicit)
           /\ \A n \in 0..Len(d) : Aggregate!Copies(m, d)[n] \in Underway
<1> DEFINE go == [i \in 1..Len(d) |->
                    [c \in Underway |-> Aggregate!CopyItem(c, d[i], Aggregate!Analyse(d).implicit)]]
<1>1. Aggregate!Begun(m) \in Underway
  BY BegunTyped
<1>2. \A i \in 1..Len(d), c \in Underway :
         Aggregate!CopyItem(c, d[i], Aggregate!Analyse(d).implicit) \in Underway
  <2> TAKE i \in 1..Len(d), c \in Underway
  <2>1. d[i] \in AggItem
    OBVIOUS
  <2> QED  BY <2>1, CopyTyped
<1>3. go \in [1..Len(d) -> [Underway -> Underway]]
  BY <1>2
<1>4. PICK f \in [0..Len(d) -> Underway] :
         f[0] = Aggregate!Begun(m) /\ \A i \in 1..Len(d) : f[i] = go[i][f[i - 1]]
  <2> HIDE DEF go
  <2>1. Len(d) \in Nat
    OBVIOUS
  <2>2. HasRun(Len(d), Underway, Aggregate!Begun(m), go)
    BY <1>1, <1>3, <2>1, RunExists, Zenon
  <2> QED  BY <2>2, Zenon DEF HasRun
<1>5. f = [n \in 0..Len(d) |->
             IF n = 0 THEN Aggregate!Begun(m)
             ELSE Aggregate!CopyItem(f[n - 1], d[n], Aggregate!Analyse(d).implicit)]
  <2>1. ASSUME NEW n \in 1..Len(d)
        PROVE  f[n] = Aggregate!CopyItem(f[n - 1], d[n], Aggregate!Analyse(d).implicit)
    <3>1. n - 1 \in 0..Len(d)
      OBVIOUS
    <3>2. f[n - 1] \in Underway
      BY <3>1
    <3> QED  BY <1>4, <3>2
  <2>2. \A n \in 0..Len(d) :
           f[n] = IF n = 0 THEN Aggregate!Begun(m)
                  ELSE Aggregate!CopyItem(f[n - 1], d[n], Aggregate!Analyse(d).implicit)
    BY <1>4, <2>1
  <2> QED  BY <2>2
<1> DEFINE C == Aggregate!Copies(m, d)
<1>6. C = [n \in 0..Len(d) |->
             IF n = 0 THEN Aggregate!Begun(m)
             ELSE Aggregate!CopyItem(C[n - 1], d[n], Aggregate!Analyse(d).implicit)]
  BY <1>5, Zenon DEF Aggregate!Copies
<1> HIDE DEF C
<1>7. C[0] = Aggregate!Begun(m)
      /\ \A n \in 1..Len(d) : C[n] = Aggregate!CopyItem(C[n - 1], d[n], Aggregate!Analyse(d).implicit)
  BY <1>6
<1>8. \A n \in 0..Len(d) : C[n] \in Underway
  <2>1. \A n \in 1..Len(d) : C[n - 1] \in Underway => C[n] \in Underway
    BY <1>2, <1>7
  <2>2. Len(d) \in Nat /\ C[0] \in Underway
    BY <1>1, <1>7
  <2> QED  BY <2>1, <2>2, RunTyped, Zenon
<1> QED  BY <1>7, <1>8 DEF C

\* A device done.
LEMMA MergeDeviceIs ==
    ASSUME NEW m \in Merges, NEW d \in Seq(AggItem)
    PROVE  LET c == Aggregate!Copies(m, d)[Len(d)]
               e == Aggregate!MergeDevice(m, d)
           IN  /\ e \in Merges
               /\ e.items = Append(c.items, Aggregate!PopItem) /\ e.remaps = c.remaps
               /\ e.starts = c.starts /\ e.error = c.error
<1>1. PICK c : c = Aggregate!Copies(m, d)[Len(d)]
  OBVIOUS
<1>2. c \in Merges
  <2>1. Len(d) \in 0..Len(d)
    OBVIOUS
  <2> QED  BY <1>1, <2>1, CopiesGo DEF Underway
<1>3. PICK e : e = Aggregate!MergeDevice(m, d)
  OBVIOUS
<1>4. e = [c EXCEPT !.items = Append(@, Aggregate!PopItem)]
  BY <1>1, <1>3, Zenon DEF Aggregate!MergeDevice
<1>5. /\ c = [remaps |-> c.remaps, starts |-> c.starts, items |-> c.items, inserted |-> c.inserted,
              error |-> c.error]
      /\ c.remaps \in Seq(Nat) /\ c.starts \in Seq(Nat) /\ c.items \in Seq(AggItem)
      /\ c.error \in {"None", "TooManyReportIds"} /\ Len(c.remaps) <= ReportCount
  BY <1>2, MergeParts
<1>6. Aggregate!PopItem \in AggItem
  BY DEF Aggregate!PopItem, AggItem, Aggregate!Tags
<1>7. Append(c.items, Aggregate!PopItem) \in Seq(AggItem)
  BY <1>5, <1>6
<1>8. e = [remaps |-> c.remaps, starts |-> c.starts, items |-> Append(c.items, Aggregate!PopItem),
           inserted |-> c.inserted, error |-> c.error]
  BY <1>4, <1>5
<1>9. c.inserted \in BOOLEAN
  BY <1>2 DEF Merges
<1>10. e \in Merges
  BY <1>5, <1>7, <1>8, <1>9, MergeMade
<1>11. /\ e.items = Append(c.items, Aggregate!PopItem) /\ e.remaps = c.remaps
       /\ e.starts = c.starts /\ e.error = c.error
  BY <1>8
<1> QED  BY <1>1, <1>3, <1>10, <1>11, Zenon

\* What devices declare.
Declared == [Aggregate!Owners -> Seq(AggItem)]

LEMMA CombinedGo ==
    ASSUME NEW ds \in Declared
    PROVE  /\ Aggregate!Combined(ds)[0] = Aggregate!Merge0
           /\ \A o \in 1..HidDevices :
                 Aggregate!Combined(ds)[o] = Aggregate!MergeDevice(Aggregate!Combined(ds)[o - 1], ds[o])
           /\ \A o \in 0..HidDevices : Aggregate!Combined(ds)[o] \in Merges
<1> DEFINE go == [o \in 1..HidDevices |-> [m \in Merges |-> Aggregate!MergeDevice(m, ds[o])]]
<1>1. Aggregate!Merge0 \in Merges
  <2>1. <<>> \in Seq(Nat) /\ <<>> \in Seq(AggItem) /\ Len(<<>>) <= ReportCount
    BY AggregateAssumption
  <2> QED  BY <2>1, MergeMade DEF Aggregate!Merge0
<1>2. \A o \in 1..HidDevices, m \in Merges : Aggregate!MergeDevice(m, ds[o]) \in Merges
  <2> TAKE o \in 1..HidDevices, m \in Merges
  <2>1. ds[o] \in Seq(AggItem)
    BY DEF Declared, Aggregate!Owners
  <2> QED  BY <2>1, MergeDeviceIs, Zenon
<1>3. go \in [1..HidDevices -> [Merges -> Merges]]
  BY <1>2
<1>4. PICK f \in [0..HidDevices -> Merges] :
         f[0] = Aggregate!Merge0 /\ \A i \in 1..HidDevices : f[i] = go[i][f[i - 1]]
  <2> HIDE DEF go
  <2>1. HidDevices \in Nat
    BY AggregateAssumption
  <2>2. HasRun(HidDevices, Merges, Aggregate!Merge0, go)
    BY <1>1, <1>3, <2>1, RunExists, Zenon
  <2> QED  BY <2>2, Zenon DEF HasRun
<1>5. f = [o \in 0..HidDevices |->
             IF o = 0 THEN Aggregate!Merge0 ELSE Aggregate!MergeDevice(f[o - 1], ds[o])]
  <2>1. ASSUME NEW o \in 1..HidDevices PROVE f[o] = Aggregate!MergeDevice(f[o - 1], ds[o])
    <3>1. o - 1 \in 0..HidDevices
      BY AggregateAssumption
    <3>2. f[o - 1] \in Merges
      BY <3>1
    <3> QED  BY <1>4, <3>2
  <2>2. \A o \in 0..HidDevices :
           f[o] = IF o = 0 THEN Aggregate!Merge0 ELSE Aggregate!MergeDevice(f[o - 1], ds[o])
    BY <1>4, <2>1, AggregateAssumption
  <2> QED  BY <2>2
<1> DEFINE C == Aggregate!Combined(ds)
<1>6. C = [o \in 0..HidDevices |-> IF o = 0 THEN Aggregate!Merge0 ELSE Aggregate!MergeDevice(C[o - 1], ds[o])]
  BY <1>5, Zenon DEF Aggregate!Combined
<1> HIDE DEF C
<1>7. C[0] = Aggregate!Merge0 /\ \A o \in 1..HidDevices : C[o] = Aggregate!MergeDevice(C[o - 1], ds[o])
  BY <1>6, AggregateAssumption
<1>8. \A o \in 0..HidDevices : C[o] \in Merges
  <2>1. \A o \in 1..HidDevices : C[o - 1] \in Merges => C[o] \in Merges
    BY <1>2, <1>7
  <2>2. HidDevices \in Nat /\ C[0] \in Merges
    BY <1>1, <1>7, AggregateAssumption
  <2> QED  BY <2>1, <2>2, RunTyped, Zenon
<1> QED  BY <1>7, <1>8 DEF C

\* The bytes of a descriptor, item by item.
LEMMA BytesGo ==
    ASSUME NEW items \in Seq(AggItem)
    PROVE  /\ Aggregate!BytesUpto(items)[0] = 0
           /\ \A n \in 1..Len(items) :
                 Aggregate!BytesUpto(items)[n] = Aggregate!BytesUpto(items)[n - 1] + items[n].bytes
           /\ \A n \in 0..Len(items) : Aggregate!BytesUpto(items)[n] \in Nat
<1> DEFINE go == [i \in 1..Len(items) |-> [b \in Nat |-> b + items[i].bytes]]
<1>2. \A i \in 1..Len(items), b \in Nat : b + items[i].bytes \in Nat
  <2>1. \A i \in 1..Len(items) : items[i] \in AggItem
    OBVIOUS
  <2>2. \A i \in 1..Len(items) : items[i].bytes \in Nat
    BY <2>1 DEF AggItem
  <2> QED  BY <2>2
<1>3. go \in [1..Len(items) -> [Nat -> Nat]]
  BY <1>2
<1>4. PICK f \in [0..Len(items) -> Nat] : f[0] = 0 /\ \A i \in 1..Len(items) : f[i] = go[i][f[i - 1]]
  <2> HIDE DEF go
  <2>1. Len(items) \in Nat /\ 0 \in Nat
    OBVIOUS
  <2>2. HasRun(Len(items), Nat, 0, go)
    BY <1>3, <2>1, RunExists, Zenon
  <2> QED  BY <2>2, Zenon DEF HasRun
<1>5. f = [n \in 0..Len(items) |-> IF n = 0 THEN 0 ELSE f[n - 1] + items[n].bytes]
  <2>1. ASSUME NEW n \in 1..Len(items) PROVE f[n] = f[n - 1] + items[n].bytes
    <3>1. n - 1 \in 0..Len(items)
      OBVIOUS
    <3>2. f[n - 1] \in Nat
      BY <3>1
    <3> QED  BY <1>4, <3>2
  <2>2. \A n \in 0..Len(items) : f[n] = IF n = 0 THEN 0 ELSE f[n - 1] + items[n].bytes
    BY <1>4, <2>1
  <2> QED  BY <2>2
<1> DEFINE B == Aggregate!BytesUpto(items)
<1>6. B = [n \in 0..Len(items) |-> IF n = 0 THEN 0 ELSE B[n - 1] + items[n].bytes]
  BY <1>5, Zenon DEF Aggregate!BytesUpto
<1> HIDE DEF B
<1>7. B[0] = 0 /\ \A n \in 1..Len(items) : B[n] = B[n - 1] + items[n].bytes
  BY <1>6
<1>8. \A n \in 0..Len(items) : B[n] \in Nat
  <2>1. \A n \in 1..Len(items) : B[n - 1] \in Nat => B[n] \in Nat
    BY <1>2, <1>7
  <2>2. Len(items) \in Nat /\ B[0] \in Nat
    BY <1>7
  <2> QED  BY <2>1, <2>2, RunTyped, Zenon
<1> QED  BY <1>7, <1>8 DEF B

LEMMA BytesAppend ==
    ASSUME NEW items \in Seq(AggItem), NEW x \in AggItem
    PROVE  /\ Aggregate!Bytes(items) \in Nat
           /\ Aggregate!Bytes(Append(items, x)) = Aggregate!Bytes(items) + x.bytes
<1> DEFINE more == Append(items, x)
           A == Aggregate!BytesUpto(items)
           B == Aggregate!BytesUpto(more)
           T == {n \in 0..Len(items) : B[n] = A[n]}
<1>1. more \in Seq(AggItem) /\ Len(more) = Len(items) + 1 /\ more[Len(items) + 1] = x
      /\ \A n \in 1..Len(items) : more[n] = items[n]
  OBVIOUS
<1>2. /\ A[0] = 0 /\ \A n \in 1..Len(items) : A[n] = A[n - 1] + items[n].bytes
      /\ \A n \in 0..Len(items) : A[n] \in Nat
  BY BytesGo, Zenon
<1>3. B[0] = 0 /\ \A n \in 1..Len(more) : B[n] = B[n - 1] + more[n].bytes
  BY <1>1, BytesGo, Zenon
<1>4. Aggregate!Bytes(more) = B[Len(more)] /\ Aggregate!Bytes(items) = A[Len(items)]
  BY Zenon DEF Aggregate!Bytes
<1> HIDE DEF A, B, more
<1>5. \A n \in 0..Len(items) : n \in T
  <2>1. 0 \in T
    BY <1>2, <1>3
  <2>2. ASSUME NEW n \in 1..Len(items), n - 1 \in T PROVE n \in T
    <3>1. n \in 1..Len(more)
      BY <1>1
    <3> QED  BY <1>1, <1>2, <1>3, <2>2, <3>1
  <2> HIDE DEF T
  <2>3. Len(items) \in Nat
    OBVIOUS
  <2> QED  BY <2>1, <2>2, <2>3, Upwards
<1>6. B[Len(items)] = A[Len(items)]
  BY <1>5
<1>7. Len(items) + 1 \in 1..Len(more) /\ (Len(items) + 1) - 1 = Len(items) /\ Len(items) \in 0..Len(items)
  BY <1>1
<1>8. B[Len(items) + 1] = B[Len(items)] + x.bytes
  BY <1>1, <1>3, <1>7
<1>9. /\ Aggregate!Bytes(items) \in Nat
      /\ Aggregate!Bytes(more) = Aggregate!Bytes(items) + x.bytes
  BY <1>1, <1>2, <1>4, <1>6, <1>7, <1>8
<1> QED  BY <1>9 DEF more

\* The bytes combine asks for, device by device.
LEMMA ExpectedGo ==
    ASSUME NEW ds \in Declared
    PROVE  /\ Aggregate!ExpectedUpto(ds)[0] = 0
           /\ \A o \in 1..HidDevices :
                 Aggregate!ExpectedUpto(ds)[o] = Aggregate!ExpectedUpto(ds)[o - 1] + Aggregate!Bytes(ds[o]) + 4
           /\ \A o \in 0..HidDevices : Aggregate!ExpectedUpto(ds)[o] \in Nat
<1> DEFINE go == [o \in 1..HidDevices |-> [b \in Nat |-> b + Aggregate!Bytes(ds[o]) + 4]]
<1>2. \A o \in 1..HidDevices, b \in Nat : b + Aggregate!Bytes(ds[o]) + 4 \in Nat
  <2> TAKE o \in 1..HidDevices, b \in Nat
  <2>1. ds[o] \in Seq(AggItem) /\ Len(ds[o]) \in 0..Len(ds[o])
    BY DEF Declared, Aggregate!Owners
  <2>2. Aggregate!Bytes(ds[o]) \in Nat
    BY <2>1, BytesGo DEF Aggregate!Bytes
  <2> QED  BY <2>2
<1>3. go \in [1..HidDevices -> [Nat -> Nat]]
  BY <1>2
<1>4. PICK f \in [0..HidDevices -> Nat] : f[0] = 0 /\ \A i \in 1..HidDevices : f[i] = go[i][f[i - 1]]
  <2> HIDE DEF go
  <2>1. HidDevices \in Nat /\ 0 \in Nat
    BY AggregateAssumption
  <2>2. HasRun(HidDevices, Nat, 0, go)
    BY <1>3, <2>1, RunExists, Zenon
  <2> QED  BY <2>2, Zenon DEF HasRun
<1>5. f = [o \in 0..HidDevices |-> IF o = 0 THEN 0 ELSE f[o - 1] + Aggregate!Bytes(ds[o]) + 4]
  <2>1. ASSUME NEW o \in 1..HidDevices PROVE f[o] = f[o - 1] + Aggregate!Bytes(ds[o]) + 4
    <3>1. o - 1 \in 0..HidDevices
      BY AggregateAssumption
    <3>2. f[o - 1] \in Nat
      BY <3>1
    <3> QED  BY <1>4, <3>2
  <2>2. \A o \in 0..HidDevices : f[o] = IF o = 0 THEN 0 ELSE f[o - 1] + Aggregate!Bytes(ds[o]) + 4
    BY <1>4, <2>1, AggregateAssumption
  <2> QED  BY <2>2
<1> DEFINE E == Aggregate!ExpectedUpto(ds)
<1>6. E = [o \in 0..HidDevices |-> IF o = 0 THEN 0 ELSE E[o - 1] + Aggregate!Bytes(ds[o]) + 4]
  BY <1>5, Zenon DEF Aggregate!ExpectedUpto
<1> HIDE DEF E
<1>7. E[0] = 0 /\ \A o \in 1..HidDevices : E[o] = E[o - 1] + Aggregate!Bytes(ds[o]) + 4
  BY <1>6, AggregateAssumption
<1>8. \A o \in 0..HidDevices : E[o] \in Nat
  <2>1. \A o \in 1..HidDevices : E[o - 1] \in Nat => E[o] \in Nat
    BY <1>2, <1>7
  <2>2. HidDevices \in Nat /\ E[0] \in Nat
    BY <1>7, AggregateAssumption
  <2> QED  BY <2>1, <2>2, RunTyped, Zenon
<1> QED  BY <1>7, <1>8 DEF E

\* The host ids of a device: from its start to the next one's.
BlockEnd(m, p) == IF p = Len(m.starts) THEN Len(m.remaps) ELSE m.starts[p + 1]
BlockOf(m, p) == m.starts[p] + 1 .. BlockEnd(m, p)

Has(m, p, i) == \E h \in BlockOf(m, p) : m.remaps[h] = i

\* The blocks follow one another, and each has an id once.
LaidOut(m) ==
    /\ m.starts = <<>> => m.remaps = <<>>
    /\ m.starts # <<>> => m.starts[1] = 0
    /\ \A p \in 1..Len(m.starts) : m.starts[p] <= Len(m.remaps)
    /\ \A p, q \in 1..Len(m.starts) : p <= q => m.starts[p] <= m.starts[q]
    /\ \A p \in 1..Len(m.starts), g, h \in 1..Len(m.remaps) :
          g \in BlockOf(m, p) /\ h \in BlockOf(m, p) /\ m.remaps[g] = m.remaps[h] => g = h

LEMMA BlockIs ==
    ASSUME NEW m \in Merges, LaidOut(m), NEW p \in 1..Len(m.starts)
    PROVE  /\ m.starts[p] \in Nat /\ BlockEnd(m, p) \in Nat
           /\ m.starts[p] <= BlockEnd(m, p) /\ BlockEnd(m, p) <= Len(m.remaps)
           /\ \A h \in BlockOf(m, p) : h \in 1..Len(m.remaps) /\ m.remaps[h] \in Nat
<1>1. m.remaps \in Seq(Nat) /\ m.starts \in Seq(Nat) /\ Len(m.remaps) \in Nat
  BY MergeParts
<1>2. m.starts[p] \in Nat /\ m.starts[p] <= Len(m.remaps)
  BY <1>1 DEF LaidOut
<1>3. BlockEnd(m, p) \in Nat /\ m.starts[p] <= BlockEnd(m, p) /\ BlockEnd(m, p) <= Len(m.remaps)
  <2>1. CASE p = Len(m.starts)
    BY <1>1, <1>2, <2>1 DEF BlockEnd
  <2>2. CASE p # Len(m.starts)
    <3>1. p + 1 \in 1..Len(m.starts) /\ p <= p + 1
      BY <1>1, <2>2
    <3>2. BlockEnd(m, p) = m.starts[p + 1]
      BY <2>2 DEF BlockEnd
    <3>3. m.starts[p + 1] \in Nat /\ m.starts[p] <= m.starts[p + 1] /\ m.starts[p + 1] <= Len(m.remaps)
      BY <1>1, <3>1 DEF LaidOut
    <3> QED  BY <3>2, <3>3
  <2> QED  BY <2>1, <2>2
<1>4. ASSUME NEW h \in BlockOf(m, p) PROVE h \in 1..Len(m.remaps) /\ m.remaps[h] \in Nat
  <2>1. PICK i, e, l : i = m.starts[p] /\ e = BlockEnd(m, p) /\ l = Len(m.remaps)
    OBVIOUS
  <2>2. h \in i + 1 .. e
    BY <2>1 DEF BlockOf
  <2>3. i \in Nat /\ e \in Nat /\ l \in Nat /\ e <= l
    BY <1>1, <1>2, <1>3, <2>1
  <2>4. h \in 1..l
    BY ONLY <2>2, <2>3
  <2>5. h \in 1..Len(m.remaps)
    BY <2>1, <2>4
  <2> QED  BY <1>1, <2>5
<1> QED  BY <1>2, <1>3, <1>4, Zenon

LEMMA LastBlockOf ==
    ASSUME NEW m \in Underway
    PROVE  BlockOf(m, Len(m.starts)) = LastBlock(m)
BY DEF BlockOf, BlockEnd, LastBlock

\* Blocks do not meet.
LEMMA BlocksApart ==
    ASSUME NEW m \in Merges, LaidOut(m), NEW p \in 1..Len(m.starts), NEW q \in 1..Len(m.starts), p < q,
           NEW g \in BlockOf(m, p), NEW h \in BlockOf(m, q)
    PROVE  g < h
<1>1. m.starts \in Seq(Nat) /\ p # Len(m.starts) /\ p + 1 \in 1..Len(m.starts) /\ p + 1 <= q
  BY MergeParts
<1>2. BlockEnd(m, p) = m.starts[p + 1] /\ m.starts[p + 1] <= m.starts[q]
  BY <1>1 DEF BlockEnd, LaidOut
<1>3. m.starts[p + 1] \in Nat /\ m.starts[q] \in Nat /\ m.starts[p] \in Nat /\ BlockEnd(m, q) \in Nat
  BY <1>1, BlockIs
<1>4. g \in m.starts[p] + 1 .. m.starts[p + 1] /\ h \in m.starts[q] + 1 .. BlockEnd(m, q)
  BY <1>2 DEF BlockOf
<1> QED  BY <1>2, <1>3, <1>4

\* An id more for the device being merged.
LEMMA BlockGrows ==
    ASSUME NEW m \in Underway, NEW c \in Merges, LaidOut(m), NEW v \in Nat,
           c.remaps = Append(m.remaps, v), c.starts = m.starts,
           ~Has(m, Len(m.starts), v)
    PROVE  /\ LaidOut(c)
           /\ \A p \in 1..Len(m.starts) :
                 p # Len(m.starts) => BlockOf(c, p) = BlockOf(m, p)
           /\ BlockOf(c, Len(m.starts)) = BlockOf(m, Len(m.starts)) \cup {Len(m.remaps) + 1}
           /\ \A h \in 1..Len(m.remaps) : c.remaps[h] = m.remaps[h]
           /\ c.remaps[Len(m.remaps) + 1] = v
           /\ Len(c.remaps) = Len(m.remaps) + 1
<1>1. /\ m \in Merges /\ m.remaps \in Seq(Nat) /\ m.starts \in Seq(Nat) /\ m.starts # <<>>
      /\ Len(m.remaps) \in Nat /\ Len(m.starts) \in 1..Len(m.starts) /\ Len(m.starts) \in Nat
  BY MergeParts, LastBlockIs DEF Underway
<1> DEFINE L == Len(m.remaps)
           K == Len(m.starts)
<1>2. /\ Len(c.remaps) = L + 1 /\ c.remaps[L + 1] = v
      /\ \A h \in 1..L : c.remaps[h] = m.remaps[h]
  BY <1>1
<1>3. \A p \in 1..K : p # K => BlockOf(c, p) = BlockOf(m, p)
  BY DEF BlockOf, BlockEnd
<1>4. BlockOf(c, K) = BlockOf(m, K) \cup {L + 1}
  <2>1. m.starts[K] \in Nat /\ m.starts[K] <= L
    BY <1>1 DEF LaidOut
  <2>2. BlockOf(m, K) = m.starts[K] + 1 .. L /\ BlockOf(c, K) = m.starts[K] + 1 .. L + 1
    BY <1>1, <1>2 DEF BlockOf, BlockEnd
  <2> QED  BY <1>1, <2>1, <2>2
<1>5. LaidOut(c)
  <2>1. \A p \in 1..K : m.starts[p] <= L + 1
    BY <1>1 DEF LaidOut
  <2>2. ASSUME NEW p \in 1..K, NEW g \in 1..L + 1, NEW h \in 1..L + 1,
               g \in BlockOf(c, p), h \in BlockOf(c, p), c.remaps[g] = c.remaps[h]
        PROVE  g = h
    <3>1. ASSUME NEW j \in BlockOf(m, p) PROVE j \in 1..L
      BY <1>1, BlockIs
    <3>2. CASE g \in BlockOf(m, p) /\ h \in BlockOf(m, p)
      BY <1>2, <2>2, <3>1, <3>2 DEF LaidOut
    <3>3. CASE p = K /\ g = L + 1 /\ h \in BlockOf(m, p)
      BY <1>2, <2>2, <3>1, <3>3 DEF Has
    <3>4. CASE p = K /\ h = L + 1 /\ g \in BlockOf(m, p)
      BY <1>2, <2>2, <3>1, <3>4 DEF Has
    <3> QED  BY <1>3, <1>4, <2>2, <3>2, <3>3, <3>4
  <2> QED  BY <1>1, <1>2, <2>1, <2>2 DEF LaidOut
<1> QED  BY <1>2, <1>3, <1>4, <1>5

\* What an id more leaves of what the blocks had.
LEMMA HasStays ==
    ASSUME NEW m \in Underway, NEW c \in Merges, LaidOut(m), NEW v \in Nat,
           c.remaps = Append(m.remaps, v), c.starts = m.starts,
           ~Has(m, Len(m.starts), v)
    PROVE  /\ \A p \in 1..Len(m.starts) : \A i : Has(m, p, i) => Has(c, p, i)
           /\ Has(c, Len(m.starts), v)
<1>1. /\ \A p \in 1..Len(m.starts) : BlockOf(m, p) \subseteq BlockOf(c, p)
      /\ Len(m.remaps) + 1 \in BlockOf(c, Len(m.starts))
      /\ \A h \in 1..Len(m.remaps) : c.remaps[h] = m.remaps[h]
      /\ c.remaps[Len(m.remaps) + 1] = v
  BY BlockGrows
<1>2. \A p \in 1..Len(m.starts) : \A h \in BlockOf(m, p) : h \in 1..Len(m.remaps)
  BY BlockIs DEF Underway
<1> QED  BY <1>1, <1>2 DEF Has

\* A device more: its block is empty.
LEMMA BlockBegins ==
    ASSUME NEW m \in Merges, LaidOut(m)
    PROVE  LET b == Aggregate!Begun(m)
           IN  /\ LaidOut(b) /\ b.remaps = m.remaps /\ Len(b.starts) = Len(m.starts) + 1
               /\ \A p \in 1..Len(m.starts) : BlockOf(b, p) = BlockOf(m, p)
               /\ BlockOf(b, Len(m.starts) + 1) = {}
               /\ b.starts[Len(m.starts) + 1] = Len(m.remaps)
<1> DEFINE L == Len(m.remaps)
           K == Len(m.starts)
<1>1. m.remaps \in Seq(Nat) /\ m.starts \in Seq(Nat) /\ L \in Nat /\ K \in Nat
  BY MergeParts
<1>2. PICK b : b = Aggregate!Begun(m)
  OBVIOUS
<1>3. b.remaps = m.remaps /\ b.starts = Append(m.starts, L) /\ b \in Merges
  <2>1. b \in Underway
    BY <1>2, BegunTyped
  <2>2. b = [remaps |-> m.remaps, starts |-> Append(m.starts, Len(m.remaps)),
             items |-> Append(m.items, Aggregate!PushItem), inserted |-> FALSE, error |-> m.error]
    BY <1>2, BegunTyped, Zenon
  <2> QED  BY <2>1, <2>2 DEF Underway
<1>4. Len(b.starts) = K + 1 /\ b.starts[K + 1] = L /\ \A p \in 1..K : b.starts[p] = m.starts[p]
  BY <1>1, <1>3
<1>5. \A p \in 1..K : BlockOf(b, p) = BlockOf(m, p)
  <2> TAKE p \in 1..K
  <2>1. CASE p = K
    BY <1>1, <1>3, <1>4, <2>1 DEF BlockOf, BlockEnd
  <2>2. CASE p # K
    <3>1. p + 1 \in 1..K
      BY <1>1, <2>2
    <3> QED  BY <1>1, <1>3, <1>4, <2>2, <3>1 DEF BlockOf, BlockEnd
  <2> QED  BY <2>1, <2>2
<1>6. BlockOf(b, K + 1) = {}
  BY <1>1, <1>3, <1>4 DEF BlockOf, BlockEnd
<1>7. LaidOut(b)
  <2>1. b.starts[1] = 0 /\ b.starts # <<>>
    <3>1. CASE K = 0
      BY <1>1, <1>3, <1>4, <3>1 DEF LaidOut
    <3>2. CASE K # 0
      <4>1. 1 \in 1..K /\ m.starts # <<>>
        BY <1>1, <3>2
      <4> QED  BY <1>1, <1>4, <4>1 DEF LaidOut
    <3> QED  BY <3>1, <3>2
  <2>2. \A p \in 1..K + 1 : b.starts[p] <= L
    BY <1>1, <1>4 DEF LaidOut
  <2>3. \A p, q \in 1..K + 1 : p <= q => b.starts[p] <= b.starts[q]
    <3> TAKE p, q \in 1..K + 1
    <3>1. CASE q = K + 1
      BY <1>4, <2>2, <3>1
    <3>2. CASE q # K + 1 /\ p <= q
      <4>1. p \in 1..K /\ q \in 1..K
        <5>1. p \in 1..K + 1 /\ q \in 1..K + 1 /\ K \in Nat
          BY <1>1
        <5> HIDE DEF K
        <5> QED  BY ONLY <3>2, <5>1
      <4> QED  BY <1>4, <3>2, <4>1 DEF LaidOut
    <3> QED  BY <3>1, <3>2
  <2>4. ASSUME NEW p \in 1..K + 1, NEW g \in 1..L, NEW h \in 1..L,
               g \in BlockOf(b, p), h \in BlockOf(b, p), b.remaps[g] = b.remaps[h]
        PROVE  g = h
    <3>0. p # K + 1
      BY <1>6, <2>4
    <3>1. p \in 1..K
      <4>1. p \in 1..K + 1 /\ K \in Nat
        BY <1>1
      <4> HIDE DEF K
      <4> QED  BY ONLY <3>0, <4>1
    <3> QED  BY <1>3, <1>5, <2>4, <3>1 DEF LaidOut
  <2> QED  BY <1>3, <1>4, <2>1, <2>2, <2>3, <2>4 DEF LaidOut
<1>8. /\ LaidOut(b) /\ b.remaps = m.remaps /\ Len(b.starts) = Len(m.starts) + 1
      /\ \A p \in 1..Len(m.starts) : BlockOf(b, p) = BlockOf(m, p)
      /\ BlockOf(b, Len(m.starts) + 1) = {}
      /\ b.starts[Len(m.starts) + 1] = Len(m.remaps)
  BY <1>3, <1>4, <1>5, <1>6, <1>7
<1> QED  BY <1>2, <1>8, Zenon

\* Only the ids and the starts say where the blocks are.
LEMMA BlocksKept ==
    ASSUME NEW m, NEW c, c.remaps = m.remaps, c.starts = m.starts
    PROVE  /\ \A p : BlockOf(c, p) = BlockOf(m, p)
           /\ \A p, i : Has(c, p, i) <=> Has(m, p, i)
           /\ LaidOut(m) => LaidOut(c)
BY DEF BlockOf, BlockEnd, Has, LaidOut

\* What an item does to the ids.
LEMMA DoesParts ==
    ASSUME NEW m \in Underway, NEW x \in AggItem, NEW implicit, NEW c, Does(m, x, implicit, c)
    PROVE  /\ c.starts = m.starts /\ c.error = m.error
           /\ c.inserted <=> m.inserted \/ FirstCollection(x, implicit, m)
           /\ x.tag # "ReportId" /\ ~FirstCollection(x, implicit, m) =>
                 c.remaps = m.remaps /\ c.items = Append(m.items, x)
           /\ FirstCollection(x, implicit, m) =>
                 /\ c.remaps = Append(m.remaps, 0)
                 /\ c.items = Append(Append(m.items, x), Aggregate!IdItem(Len(m.remaps) + 1))
           /\ x.tag = "ReportId" =>
                 \/ \E h \in LastBlock(m) : /\ m.remaps[h] = x.value /\ c.remaps = m.remaps
                                            /\ c.items = Append(m.items, Aggregate!IdItem(h))
                 \/ /\ \A h \in LastBlock(m) : m.remaps[h] # x.value
                    /\ c.remaps = Append(m.remaps, x.value)
                    /\ c.items = Append(m.items, Aggregate!IdItem(Len(m.remaps) + 1))
<1>1. m = [remaps |-> m.remaps, starts |-> m.starts, items |-> m.items, inserted |-> m.inserted,
           error |-> m.error]
  BY MergeParts DEF Underway
<1>2. CASE x.tag # "ReportId" /\ ~FirstCollection(x, implicit, m) /\ Keeps(m, x, c)
  <2>1. /\ c.starts = m.starts /\ c.error = m.error /\ c.inserted = m.inserted
        /\ c.remaps = m.remaps /\ c.items = Append(m.items, x)
    BY <1>1, <1>2 DEF Keeps
  <2> QED  BY <1>2, <2>1, Zenon
<1>3. CASE x.tag = "ReportId" /\ Refers(m, x, c)
  <2>1. PICK h \in LastBlock(m) :
           m.remaps[h] = x.value /\ c = [m EXCEPT !.items = Append(@, Aggregate!IdItem(h))]
    BY <1>3 DEF Refers
  <2>2. /\ c.starts = m.starts /\ c.error = m.error /\ c.inserted = m.inserted
        /\ c.remaps = m.remaps /\ c.items = Append(m.items, Aggregate!IdItem(h))
    BY <1>1, <2>1
  <2>3. ~FirstCollection(x, implicit, m)
    BY <1>3 DEF FirstCollection
  <2> QED  BY <1>3, <2>1, <2>2, <2>3, Zenon
<1>4. CASE x.tag = "ReportId" /\ Names(m, x, c)
  <2>1. /\ c.starts = m.starts /\ c.error = m.error /\ c.inserted = m.inserted
        /\ c.remaps = Append(m.remaps, x.value)
        /\ c.items = Append(m.items, Aggregate!IdItem(Len(m.remaps) + 1))
    BY <1>1, <1>4 DEF Names
  <2>2. \A h \in LastBlock(m) : m.remaps[h] # x.value
    BY <1>4 DEF Names
  <2>3. ~FirstCollection(x, implicit, m)
    BY <1>4 DEF FirstCollection
  <2> QED  BY <1>4, <2>1, <2>2, <2>3, Zenon
<1>5. CASE FirstCollection(x, implicit, m) /\ Inserts(m, x, c)
  <2>1. /\ c.starts = m.starts /\ c.error = m.error /\ c.inserted = TRUE
        /\ c.remaps = Append(m.remaps, 0)
        /\ c.items = Append(Append(m.items, x), Aggregate!IdItem(Len(m.remaps) + 1))
    BY <1>1, <1>5 DEF Inserts
  <2>2. x.tag # "ReportId"
    BY <1>5 DEF FirstCollection
  <2> QED  BY <1>5, <2>1, <2>2, Zenon
<1> QED  BY <1>2, <1>3, <1>4, <1>5, Zenon DEF Does

LEMMA DoesIds ==
    ASSUME NEW m \in Underway, NEW x \in AggItem, NEW implicit, NEW c \in Merges, Does(m, x, implicit, c),
           LaidOut(m), implicit /\ ~m.inserted => \A i : ~Has(m, Len(m.starts), i)
    PROVE  /\ LaidOut(c)
           /\ \A p \in 1..Len(m.starts) : \A i : Has(m, p, i) => Has(c, p, i)
           /\ x.tag = "ReportId" => Has(c, Len(m.starts), x.value)
           /\ FirstCollection(x, implicit, m) => Has(c, Len(m.starts), 0)
<1>1. c.starts = m.starts /\ x.value \in Nat
  BY DoesParts DEF AggItem
<1>2. ASSUME NEW i PROVE Has(m, Len(m.starts), i) <=> \E h \in LastBlock(m) : m.remaps[h] = i
  BY LastBlockOf DEF Has
<1>3. CASE c.remaps = m.remaps /\ ~FirstCollection(x, implicit, m)
  <2>1. LaidOut(c) /\ \A p, i : Has(c, p, i) <=> Has(m, p, i)
    BY <1>1, <1>3, BlocksKept
  <2>2. x.tag = "ReportId" => Has(m, Len(m.starts), x.value)
    <3>1. \A h : h \in LastBlock(m) /\ m.remaps[h] = x.value => Has(m, Len(m.starts), x.value)
      BY <1>2, Zenon
    <3>2. m.remaps # Append(m.remaps, x.value)
      BY <1>1, MergeParts DEF Underway
    <3> QED  BY <1>3, <3>1, <3>2, DoesParts
  <2> QED  BY <1>3, <2>1, <2>2, Zenon
<1>4. CASE FirstCollection(x, implicit, m)
  <2>1. c.remaps = Append(m.remaps, 0)
    BY <1>4, DoesParts
  <2>2. ~Has(m, Len(m.starts), 0) /\ x.tag # "ReportId"
    BY <1>4, Zenon DEF FirstCollection
  <2> QED  BY <1>1, <1>4, <2>1, <2>2, BlockGrows, HasStays
<1>5. CASE x.tag = "ReportId" /\ c.remaps = Append(m.remaps, x.value)
           /\ \A h \in LastBlock(m) : m.remaps[h] # x.value
  <2>1. ~Has(m, Len(m.starts), x.value)
    BY <1>2, <1>5
  <2>2. ~FirstCollection(x, implicit, m)
    BY <1>5 DEF FirstCollection
  <2> QED  BY <1>1, <1>5, <2>1, <2>2, BlockGrows, HasStays
<1>6. \/ c.remaps = m.remaps /\ ~FirstCollection(x, implicit, m)
      \/ FirstCollection(x, implicit, m)
      \/ /\ x.tag = "ReportId" /\ c.remaps = Append(m.remaps, x.value)
         /\ \A h \in LastBlock(m) : m.remaps[h] # x.value
  BY DoesParts, Zenon
<1> QED  BY <1>3, <1>4, <1>5, <1>6, Zenon

\* The ids of the device being merged, n items on.
IdsSoFar(m, d, n) ==
    /\ \A i \in 1..n : d[i].tag = "ReportId" => Has(m, Len(m.starts), d[i].value)
    /\ Aggregate!Analyse(d).implicit =>
          /\ m.inserted <=> \E i \in 1..n : d[i].tag = "Collection"
          /\ m.inserted => Has(m, Len(m.starts), 0)
          /\ ~m.inserted => \A i : ~Has(m, Len(m.starts), i)

LEMMA IdsStep ==
    ASSUME NEW d \in Seq(AggItem), Aggregate!Analyse(d).error = "None", NEW n \in 1..Len(d),
           NEW m \in Underway, NEW c \in Merges, LaidOut(m), IdsSoFar(m, d, n - 1),
           Does(m, d[n], Aggregate!Analyse(d).implicit, c)
    PROVE  /\ LaidOut(c) /\ IdsSoFar(c, d, n)
           /\ \A p \in 1..Len(m.starts) : \A i : Has(m, p, i) => Has(c, p, i)
<1> DEFINE implicit == Aggregate!Analyse(d).implicit
<1>0. d[n] \in AggItem
  OBVIOUS
<1>1. implicit /\ ~m.inserted => \A i : ~Has(m, Len(m.starts), i)
  BY DEF IdsSoFar
<1>2. /\ LaidOut(c)
      /\ \A p \in 1..Len(m.starts) : \A i : Has(m, p, i) => Has(c, p, i)
      /\ d[n].tag = "ReportId" => Has(c, Len(m.starts), d[n].value)
      /\ FirstCollection(d[n], implicit, m) => Has(c, Len(m.starts), 0)
  BY <1>0, <1>1, DoesIds, Zenon
<1>3. /\ c.starts = m.starts
      /\ c.inserted <=> m.inserted \/ FirstCollection(d[n], implicit, m)
      /\ d[n].tag # "ReportId" /\ ~FirstCollection(d[n], implicit, m) => c.remaps = m.remaps
  BY <1>0, DoesParts
<1>4. implicit => d[n].tag # "ReportId"
  BY ImplicitIs
<1>5. Len(m.starts) \in 1..Len(m.starts)
  BY LastBlockIs
<1>6. \A i : i \in 1..n <=> i = n \/ i \in 1..n - 1
  OBVIOUS
<1>7. \A i \in 1..n : d[i].tag = "ReportId" => Has(c, Len(c.starts), d[i].value)
  BY <1>2, <1>3, <1>5, <1>6, Zenon DEF IdsSoFar
<1>8. ASSUME implicit
      PROVE  /\ c.inserted <=> \E i \in 1..n : d[i].tag = "Collection"
             /\ c.inserted => Has(c, Len(c.starts), 0)
             /\ ~c.inserted => \A i : ~Has(c, Len(c.starts), i)
  <2>1. m.inserted <=> \E i \in 1..n - 1 : d[i].tag = "Collection"
    BY <1>8, Zenon DEF IdsSoFar
  <2>2. FirstCollection(d[n], implicit, m) <=> d[n].tag = "Collection" /\ ~m.inserted
    BY <1>8, Zenon DEF FirstCollection
  <2>3. c.inserted <=> \E i \in 1..n : d[i].tag = "Collection"
    BY <1>3, <1>6, <2>1, <2>2, Zenon
  <2>4. c.inserted => Has(c, Len(c.starts), 0)
    <3>1. m.inserted => Has(m, Len(m.starts), 0)
      BY <1>8, Zenon DEF IdsSoFar
    <3> QED  BY <1>2, <1>3, <1>5, <3>1, Zenon
  <2>5. ASSUME ~c.inserted, NEW i PROVE ~Has(c, Len(c.starts), i)
    <3>1. ~m.inserted /\ ~FirstCollection(d[n], implicit, m)
      BY <1>3, <2>5, Zenon
    <3>2. c.remaps = m.remaps
      BY <1>3, <1>4, <1>8, <3>1, Zenon
    <3>3. Has(c, Len(m.starts), i) <=> Has(m, Len(m.starts), i)
      BY <1>3, <3>2, BlocksKept, Zenon
    <3> QED  BY <1>1, <1>3, <1>8, <3>1, <3>3, Zenon
  <2> QED  BY <2>3, <2>4, <2>5, Zenon
<1> HIDE DEF implicit
<1>9. IdsSoFar(c, d, n)
  BY <1>7, <1>8, Zenon DEF IdsSoFar, implicit
<1> QED  BY <1>2, <1>9, Zenon

\* Bytes: an id that is replaced takes what it took, and one that is inserted two.
Extra(m) == IF m.inserted THEN 2 ELSE 0

LEMMA BytesStep ==
    ASSUME NEW d \in Seq(AggItem), Aggregate!Analyse(d).error = "None", NEW n \in 1..Len(d),
           NEW m \in Underway, NEW c \in Merges, Does(m, d[n], Aggregate!Analyse(d).implicit, c)
    PROVE  Aggregate!Bytes(c.items) - Extra(c) = Aggregate!Bytes(m.items) - Extra(m) + d[n].bytes
<1> DEFINE implicit == Aggregate!Analyse(d).implicit
           x == d[n]
<1>1. /\ x \in AggItem /\ x.bytes \in Nat /\ m.items \in Seq(AggItem) /\ Len(m.remaps) + 1 \in Nat
      /\ \A h \in LastBlock(m) : h \in Nat
  <2>1. x \in AggItem
    OBVIOUS
  <2>2. x.bytes \in Nat
    BY <2>1 DEF AggItem
  <2>3. m.items \in Seq(AggItem) /\ Len(m.remaps) + 1 \in Nat
    BY MergeParts DEF Underway
  <2>4. \A h \in LastBlock(m) : h \in Nat
    BY LastBlockIs
  <2> QED  BY <2>1, <2>2, <2>3, <2>4, Zenon
<1>2. x.tag = "ReportId" => x.bytes = 2
  <2>1. Acts(Aggregate!Analyses(d)[n - 1], x, Aggregate!Analyses(d)[n]) /\ Aggregate!Analyses(d)[n].error = "None"
    BY NoneRefused
  <2> QED  BY <2>1, Zenon DEF Acts
<1>3. ASSUME NEW h \in Nat
      PROVE  Aggregate!IdItem(h) \in AggItem /\ Aggregate!IdItem(h).bytes = 2
  BY IdItemTyped DEF Aggregate!IdItem
<1> DEFINE B == Aggregate!Bytes(m.items)
<1>4. B \in Nat /\ Aggregate!Bytes(Append(m.items, x)) = B + x.bytes
  BY <1>1, BytesAppend
<1>5. CASE x.tag # "ReportId" /\ ~FirstCollection(x, implicit, m)
  <2>1. c.items = Append(m.items, x) /\ (c.inserted <=> m.inserted)
    BY <1>1, <1>5, DoesParts
  <2>2. Extra(c) = Extra(m) /\ Extra(m) \in Nat
    BY <2>1 DEF Extra
  <2> QED  BY <1>1, <1>4, <2>1, <2>2
<1>6. CASE FirstCollection(x, implicit, m)
  <2>1. c.items = Append(Append(m.items, x), Aggregate!IdItem(Len(m.remaps) + 1)) /\ c.inserted
    BY <1>1, <1>6, DoesParts, Zenon
  <2>2. Extra(c) = 2 /\ Extra(m) = 0
    BY <1>6, <2>1, Zenon DEF Extra, FirstCollection
  <2>3. Append(m.items, x) \in Seq(AggItem)
    BY <1>1
  <2>4. Aggregate!Bytes(c.items) = B + x.bytes + 2
    BY <1>1, <1>3, <1>4, <2>1, <2>3, BytesAppend
  <2> HIDE DEF B
  <2> QED  BY <1>1, <1>4, <2>2, <2>4 DEF B
<1>7. CASE x.tag = "ReportId"
  <2>0. ~FirstCollection(x, implicit, m)
    BY <1>7 DEF FirstCollection
  <2>1. PICK h \in Nat : c.items = Append(m.items, Aggregate!IdItem(h))
    BY <1>1, <1>7, DoesParts
  <2>2. c.inserted <=> m.inserted
    BY <1>1, <2>0, DoesParts, Zenon
  <2>3. Extra(c) = Extra(m) /\ Extra(m) \in Nat
    BY <2>2 DEF Extra
  <2>4. Aggregate!Bytes(c.items) = B + 2
    BY <1>1, <1>3, <2>1, BytesAppend
  <2> QED  BY <1>2, <1>4, <1>7, <2>3, <2>4
<1> QED  BY <1>5, <1>6, <1>7

\* A device without ids has id 0 wherever an id is kept.
LEMMA ZeroIds ==
    ASSUME NEW d \in Seq(AggItem), Aggregate!Analyse(d).error = "None", Aggregate!Analyse(d).implicit,
           NEW n \in 0..Len(d)
    PROVE  Aggregate!Analyses(d)[n].state.id = 0
<1> DEFINE A == Aggregate!Analyses(d)
           Zero(a) == a.state.id = 0 /\ \A j \in 1..Len(a.stack) : a.stack[j].id = 0
           T == {k \in 0..Len(d) : Zero(A[k])}
<1>1. A[0] = Aggregate!Analysis0 /\ \A k \in 0..Len(d) : A[k] \in AggAnalysis
  BY AnalysesGo, Zenon
<1>2. \A k \in 0..Len(d) : A[k].error = "None"
  BY NoneRefused, Zenon
<1>3. \A k \in 1..Len(d) : Acts(A[k - 1], d[k], A[k])
  BY NoneRefused, Zenon
<1>4. \A k \in 1..Len(d) : d[k].tag # "ReportId"
  BY ImplicitIs
<1> HIDE DEF A
<1>5. 0 \in T
  <2>1. A[0].state.id = 0 /\ A[0].stack = <<>>
    BY <1>1 DEF Aggregate!Analysis0, Aggregate!Global0
  <2> QED  BY <2>1
<1>6. ASSUME NEW k \in 1..Len(d), k - 1 \in T PROVE k \in T
  <2>1. PICK a, b, x : a = A[k - 1] /\ b = A[k] /\ x = d[k]
    OBVIOUS
  <2>2. a \in AggAnalysis /\ b \in AggAnalysis /\ x \in AggItem /\ b.error = "None" /\ Acts(a, x, b)
        /\ x.tag # "ReportId" /\ Zero(a)
    BY <1>1, <1>2, <1>3, <1>4, <1>6, <2>1
  <2>3. x.tag \in Aggregate!Tags /\ a.stack \in Seq(Globals) /\ Len(a.stack) \in Nat
    BY <2>2 DEF AggItem, AggAnalysis
  <2>4. CASE x.tag \in Aggregate!Kinds \cup {"Collection", "Other", "Long"}
    <3>1. b.state = a.state /\ b.stack = a.stack
      BY <2>2, <2>4, Zenon DEF Acts
    <3> QED  BY <2>1, <2>2, <3>1
  <2>5. CASE x.tag \in {"ReportSize", "ReportCount"}
    <3>1. b.state.id = a.state.id /\ b.stack = a.stack
      <4>1. \/ b.state = [size |-> x.value, count |-> a.state.count, id |-> a.state.id] /\ b.stack = a.stack
            \/ b.state = [size |-> a.state.size, count |-> x.value, id |-> a.state.id] /\ b.stack = a.stack
        BY <2>2, <2>5, Zenon DEF Acts
      <4> QED  BY <4>1
    <3> QED  BY <2>1, <2>2, <3>1
  <2>6. CASE x.tag = "Push"
    <3>1. b.state = a.state /\ b.stack = Append(a.stack, a.state)
      BY <2>2, <2>6, Zenon DEF Acts
    <3>2. \A j \in 1..Len(b.stack) : (j \in 1..Len(a.stack) /\ b.stack[j] = a.stack[j]) \/ b.stack[j] = a.state
      BY <2>3, <3>1
    <3>3. b.state.id = 0 /\ \A j \in 1..Len(b.stack) : b.stack[j].id = 0
      BY <2>2, <3>1, <3>2
    <3> QED  BY <2>1, <3>3
  <2>7. CASE x.tag = "Pop"
    <3>1. a.stack # <<>> /\ b.state = a.stack[Len(a.stack)] /\ b.stack = SubSeq(a.stack, 1, Len(a.stack) - 1)
      BY <2>2, <2>7, Zenon DEF Acts
    <3>2. Len(a.stack) \in 1..Len(a.stack)
      BY <2>3, <3>1
    <3>3. \A j \in 1..Len(b.stack) : j \in 1..Len(a.stack) /\ b.stack[j] = a.stack[j]
      BY <2>3, <3>1, <3>2
    <3>4. \A j \in 1..Len(b.stack) : b.stack[j].id = 0
      BY <2>2, <3>3
    <3>5. b.state.id = 0
      BY <2>2, <3>1, <3>2
    <3> QED  BY <2>1, <3>4, <3>5
  <2>8. x.tag # "Truncated"
    BY <2>2, Zenon DEF Acts
  <2> HIDE DEF Zero, T
  <2> QED  BY <2>2, <2>3, <2>4, <2>5, <2>6, <2>7, <2>8 DEF Aggregate!Tags, Aggregate!Kinds
<1>7. \A k \in 0..Len(d) : k \in T
  <2> HIDE DEF T
  <2>1. Len(d) \in Nat
    OBVIOUS
  <2> QED  BY <1>5, <1>6, <2>1, Upwards
<1> QED  BY <1>7 DEF A

\* What a field adds.
LEMMA FieldBits ==
    ASSUME NEW a \in AggAnalysis, NEW b \in AggAnalysis, NEW x, Acts(a, x, b), b.error = "None",
           x.tag \in Aggregate!Kinds, NEW k \in Aggregate!Kinds
    PROVE  /\ DOMAIN b.bits[k] = DOMAIN a.bits[k] \cup (IF k = x.tag THEN {a.state.id} ELSE {})
           /\ \A i : Aggregate!BitsOf(b.bits, k, i) =
                 IF k = x.tag /\ i = a.state.id
                 THEN Aggregate!Smaller(MaxBits, Aggregate!BitsOf(a.bits, k, i)
                                         + Aggregate!Smaller(MaxBits, a.state.size * a.state.count))
                 ELSE Aggregate!BitsOf(a.bits, k, i)
<1> DEFINE v == Aggregate!Smaller(MaxBits, Aggregate!BitsOf(a.bits, x.tag, a.state.id)
                                    + Aggregate!Smaller(MaxBits, a.state.size * a.state.count))
<1>1. /\ \A j \in Aggregate!Kinds \ {x.tag} : b.bits[j] = a.bits[j]
      /\ DOMAIN b.bits[x.tag] = DOMAIN a.bits[x.tag] \cup {a.state.id}
      /\ \A i \in DOMAIN a.bits[x.tag] \ {a.state.id} : b.bits[x.tag][i] = a.bits[x.tag][i]
      /\ b.bits[x.tag][a.state.id] = v
  BY Zenon DEF Acts
<1> HIDE DEF v
<1>2. CASE k # x.tag
  <2>1. b.bits[k] = a.bits[k]
    BY <1>1, <1>2
  <2> QED  BY <1>2, <2>1 DEF Aggregate!BitsOf
<1>3. CASE k = x.tag
  <2>1. ASSUME NEW i PROVE Aggregate!BitsOf(b.bits, k, i) = IF i = a.state.id THEN v ELSE Aggregate!BitsOf(a.bits, k, i)
    BY <1>1, <1>3 DEF Aggregate!BitsOf
  <2>2. \A i : i = a.state.id =>
           v = Aggregate!Smaller(MaxBits, Aggregate!BitsOf(a.bits, k, i)
                                   + Aggregate!Smaller(MaxBits, a.state.size * a.state.count))
    BY <1>3, Zenon DEF v
  <2>3. ASSUME NEW i
        PROVE  Aggregate!BitsOf(b.bits, k, i) =
                 IF k = x.tag /\ i = a.state.id
                 THEN Aggregate!Smaller(MaxBits, Aggregate!BitsOf(a.bits, k, i)
                                         + Aggregate!Smaller(MaxBits, a.state.size * a.state.count))
                 ELSE Aggregate!BitsOf(a.bits, k, i)
    BY <1>3, <2>1, <2>2, Zenon
  <2> QED  BY <1>1, <1>3, <2>3
<1> QED  BY <1>2, <1>3

\* The state of a device's analysis and the state it has in the merged one: the
\* same but for the id, which is a host id of the device where it matters.
Same(m, known, h, g) ==
    /\ g.size = h.size /\ g.count = h.count
    /\ known \/ h.id # 0 => g.id \in LastBlock(m) /\ m.remaps[g.id] = h.id

\* The stacks: the merged one holds the state before the device underneath.
Stacked(m, known, a, M) ==
    /\ Len(M.stack) = Len(a.stack) + 1
    /\ M.stack[1] = Aggregate!Global0
    /\ Same(m, known, a.state, M.state)
    /\ \A j \in 1..Len(a.stack) : Same(m, known, a.stack[j], M.stack[j + 1])

LEMMA StackedStep ==
    ASSUME NEW m, NEW known, NEW x \in AggItem, NEW a \in AggAnalysis, NEW b \in AggAnalysis,
           NEW M \in AggAnalysis, NEW N \in AggAnalysis,
           Acts(a, x, b), b.error = "None", Acts(M, x, N), N.error = "None", x.tag # "ReportId",
           Stacked(m, known, a, M)
    PROVE  Stacked(m, known, b, N)
<1>0. /\ x.tag \in Aggregate!Tags
      /\ a.stack \in Seq(Globals) /\ Len(a.stack) \in Nat
      /\ M.stack \in Seq(Globals) /\ Len(M.stack) \in Nat
  BY DEF AggItem, AggAnalysis
<1>1. CASE x.tag \in Aggregate!Kinds \cup {"Collection", "Other", "Long"}
  <2>1. b.state = a.state /\ b.stack = a.stack /\ N.state = M.state /\ N.stack = M.stack
    BY <1>1, Zenon DEF Acts
  <2> QED  BY <2>1, Zenon DEF Stacked
<1>2. CASE x.tag = "ReportSize"
  <2>1. /\ b.state = [size |-> x.value, count |-> a.state.count, id |-> a.state.id] /\ b.stack = a.stack
        /\ N.state = [size |-> x.value, count |-> M.state.count, id |-> M.state.id] /\ N.stack = M.stack
    BY <1>2, Zenon DEF Acts
  <2>2. /\ b.state.size = N.state.size /\ b.state.count = a.state.count /\ b.state.id = a.state.id
        /\ N.state.count = M.state.count /\ N.state.id = M.state.id
    BY <2>1
  <2>3. Same(m, known, b.state, N.state)
    BY <2>2, Zenon DEF Stacked, Same
  <2> QED  BY <2>1, <2>3, Zenon DEF Stacked
<1>3. CASE x.tag = "ReportCount"
  <2>1. /\ b.state = [size |-> a.state.size, count |-> x.value, id |-> a.state.id] /\ b.stack = a.stack
        /\ N.state = [size |-> M.state.size, count |-> x.value, id |-> M.state.id] /\ N.stack = M.stack
    BY <1>3, Zenon DEF Acts
  <2>2. /\ b.state.count = N.state.count /\ b.state.size = a.state.size /\ b.state.id = a.state.id
        /\ N.state.size = M.state.size /\ N.state.id = M.state.id
    BY <2>1
  <2>3. Same(m, known, b.state, N.state)
    BY <2>2, Zenon DEF Stacked, Same
  <2> QED  BY <2>1, <2>3, Zenon DEF Stacked
<1>4. CASE x.tag = "Push"
  <2>1. /\ b.state = a.state /\ b.stack = Append(a.stack, a.state)
        /\ N.state = M.state /\ N.stack = Append(M.stack, M.state)
    BY <1>4, Zenon DEF Acts
  <2>2. Len(M.stack) = Len(a.stack) + 1
    BY DEF Stacked
  <2>3. Len(N.stack) = Len(b.stack) + 1 /\ N.stack[1] = M.stack[1]
    BY <1>0, <2>1, <2>2
  <2>4. ASSUME NEW j \in 1..Len(b.stack) PROVE Same(m, known, b.stack[j], N.stack[j + 1])
    <3>1. CASE j = Len(a.stack) + 1
      <4>1. b.stack[j] = a.state /\ N.stack[j + 1] = M.state
        BY <1>0, <2>1, <2>2, <3>1
      <4> QED  BY <4>1, Zenon DEF Stacked
    <3>2. CASE j # Len(a.stack) + 1
      <4>1. j \in 1..Len(a.stack) /\ b.stack[j] = a.stack[j] /\ N.stack[j + 1] = M.stack[j + 1]
        BY <1>0, <2>1, <2>2, <3>2
      <4> QED  BY <4>1, Zenon DEF Stacked
    <3> QED  BY <3>1, <3>2
  <2> QED  BY <2>1, <2>3, <2>4, Zenon DEF Stacked
<1>5. CASE x.tag = "Pop"
  <2>1. /\ a.stack # <<>> /\ b.state = a.stack[Len(a.stack)]
        /\ b.stack = SubSeq(a.stack, 1, Len(a.stack) - 1)
        /\ N.state = M.stack[Len(M.stack)] /\ N.stack = SubSeq(M.stack, 1, Len(M.stack) - 1)
    BY <1>5, Zenon DEF Acts
  <2>2. Len(M.stack) = Len(a.stack) + 1
    BY DEF Stacked
  <2>3. Len(a.stack) \in 1..Len(a.stack)
    BY <1>0, <2>1
  <2>4. Same(m, known, b.state, N.state)
    <3>1. N.state = M.stack[Len(a.stack) + 1]
      BY <2>1, <2>2
    <3> QED  BY <2>1, <2>3, <3>1, Zenon DEF Stacked
  <2>5. /\ Len(b.stack) = Len(a.stack) - 1 /\ Len(N.stack) = Len(a.stack)
        /\ N.stack[1] = M.stack[1]
        /\ \A j \in 1..Len(b.stack) : j \in 1..Len(a.stack) /\ b.stack[j] = a.stack[j]
                                      /\ N.stack[j + 1] = M.stack[j + 1]
    <3>1. Len(a.stack) - 1 \in Nat /\ Len(a.stack) - 1 <= Len(a.stack)
      BY <2>3
    <3>2. Len(b.stack) = Len(a.stack) - 1 /\ Len(N.stack) = Len(a.stack)
      BY <1>0, <2>1, <2>2, <3>1
    <3>3. ASSUME NEW j \in 1..Len(a.stack) - 1 PROVE b.stack[j] = a.stack[j]
      BY <1>0, <2>1, <3>1
    <3>4. ASSUME NEW j \in 1..Len(a.stack) PROVE N.stack[j] = M.stack[j]
      BY <1>0, <2>1, <2>2
    <3> QED  BY <2>3, <3>1, <3>2, <3>3, <3>4
  <2>6. Len(N.stack) = Len(b.stack) + 1
    BY <1>0, <2>5
  <2> QED  BY <2>4, <2>5, <2>6, Zenon DEF Stacked
<1>6. x.tag # "Truncated"
  BY Zenon DEF Acts
<1> QED  BY <1>0, <1>1, <1>2, <1>3, <1>4, <1>5, <1>6 DEF Aggregate!Tags, Aggregate!Kinds

\* The same fact about named values: the id in effect and the bits of one field.
LEMMA FieldBitsAs ==
    ASSUME NEW a, a \in AggAnalysis, NEW b, b \in AggAnalysis, NEW x, Acts(a, x, b), b.error = "None",
           NEW t, t \in Aggregate!Kinds, x.tag = t, NEW k, k \in Aggregate!Kinds,
           NEW g, a.state.id = g, NEW s, Aggregate!Smaller(MaxBits, a.state.size * a.state.count) = s
    PROVE  /\ DOMAIN b.bits[k] = DOMAIN a.bits[k] \cup (IF k = t THEN {g} ELSE {})
           /\ \A i : Aggregate!BitsOf(b.bits, k, i) =
                 IF k = t /\ i = g THEN Aggregate!Smaller(MaxBits, Aggregate!BitsOf(a.bits, k, i) + s)
                 ELSE Aggregate!BitsOf(a.bits, k, i)
  BY FieldBits

\* The bits of the merged analysis: those of the devices, under the ids they got.
Agree(m, an, M) ==
    /\ \A k \in Aggregate!Kinds : DOMAIN M.bits[k] \subseteq 1..Len(m.remaps)
    /\ \A p \in 1..Len(m.starts), k \in Aggregate!Kinds :
          /\ \A h \in BlockOf(m, p) :
                Aggregate!BitsOf(M.bits, k, h) = Aggregate!BitsOf(an[p].bits, k, m.remaps[h])
          /\ \A i \in DOMAIN an[p].bits[k] : Has(m, p, i)

\* Only the bits and the blocks count.
LEMMA AgreeKept ==
    ASSUME NEW m, NEW c, NEW an, NEW bn, NEW M, NEW N, Agree(m, an, M),
           c.remaps = m.remaps, c.starts = m.starts, N.bits = M.bits,
           \A p \in 1..Len(m.starts) : bn[p].bits = an[p].bits
    PROVE  Agree(c, bn, N)
<1>1. /\ \A p : BlockOf(c, p) = BlockOf(m, p)
      /\ \A p, i : Has(c, p, i) <=> Has(m, p, i)
  BY BlocksKept
<1>2. \A k \in Aggregate!Kinds : DOMAIN N.bits[k] \subseteq 1..Len(c.remaps)
  BY DEF Agree
<1>3. ASSUME NEW p \in 1..Len(c.starts), NEW k \in Aggregate!Kinds
      PROVE  /\ \A h \in BlockOf(c, p) :
                   Aggregate!BitsOf(N.bits, k, h) = Aggregate!BitsOf(bn[p].bits, k, c.remaps[h])
             /\ \A i \in DOMAIN bn[p].bits[k] : Has(c, p, i)
  <2>1. p \in 1..Len(m.starts) /\ bn[p].bits = an[p].bits
    OBVIOUS
  <2>2. /\ \A h \in BlockOf(m, p) :
              Aggregate!BitsOf(M.bits, k, h) = Aggregate!BitsOf(an[p].bits, k, m.remaps[h])
        /\ \A i \in DOMAIN an[p].bits[k] : Has(m, p, i)
    BY <2>1 DEF Agree
  <2>3. BlockOf(c, p) = BlockOf(m, p) /\ \A i : Has(c, p, i) <=> Has(m, p, i)
    BY <1>1, Zenon
  <2>4. ASSUME NEW h \in BlockOf(c, p)
        PROVE  Aggregate!BitsOf(N.bits, k, h) = Aggregate!BitsOf(bn[p].bits, k, c.remaps[h])
    <3>1. Aggregate!BitsOf(M.bits, k, h) = Aggregate!BitsOf(an[p].bits, k, m.remaps[h])
      BY <2>2, <2>3, Zenon
    <3> QED  BY <2>1, <3>1
  <2>5. \A i \in DOMAIN bn[p].bits[k] : Has(c, p, i)
    BY <2>1, <2>2, <2>3
  <2> QED  BY <2>4, <2>5, Zenon
<1> QED  BY <1>2, <1>3, Zenon DEF Agree

\* A field of the device being merged.
LEMMA AgreeField ==
    ASSUME NEW m \in Underway, LaidOut(m), NEW x,
           NEW an, NEW b \in AggAnalysis, NEW bn, NEW M \in AggAnalysis, NEW N \in AggAnalysis,
           an[Len(m.starts)] \in AggAnalysis, Agree(m, an, M),
           Acts(an[Len(m.starts)], x, b), b.error = "None", Acts(M, x, N), N.error = "None",
           x.tag \in Aggregate!Kinds,
           bn[Len(m.starts)] = b, \A p \in 1..Len(m.starts) : p # Len(m.starts) => bn[p] = an[p],
           NEW known, Same(m, known, an[Len(m.starts)].state, M.state),
           known \/ an[Len(m.starts)].state.id # 0
    PROVE  Agree(m, bn, N)
<1> DEFINE o == Len(m.starts)
           t == x.tag
<1>1. PICK a : a = an[o]
  OBVIOUS
<1>2. PICK g, v, s : g = M.state.id /\ v = a.state.id /\ s = Aggregate!Smaller(MaxBits, a.state.size * a.state.count)
  OBVIOUS
<1>3. /\ g \in BlockOf(m, o) /\ m.remaps[g] = v
      /\ s = Aggregate!Smaller(MaxBits, M.state.size * M.state.count)
      /\ o \in 1..Len(m.starts) /\ m \in Merges
  BY <1>1, <1>2, LastBlockOf, LastBlockIs DEF Same
<1>4. ASSUME NEW k \in Aggregate!Kinds
      PROVE  /\ DOMAIN b.bits[k] = DOMAIN a.bits[k] \cup (IF k = t THEN {v} ELSE {})
             /\ DOMAIN N.bits[k] = DOMAIN M.bits[k] \cup (IF k = t THEN {g} ELSE {})
             /\ \A i : Aggregate!BitsOf(b.bits, k, i) =
                   IF k = t /\ i = v THEN Aggregate!Smaller(MaxBits, Aggregate!BitsOf(a.bits, k, i) + s)
                   ELSE Aggregate!BitsOf(a.bits, k, i)
             /\ \A i : Aggregate!BitsOf(N.bits, k, i) =
                   IF k = t /\ i = g THEN Aggregate!Smaller(MaxBits, Aggregate!BitsOf(M.bits, k, i) + s)
                   ELSE Aggregate!BitsOf(M.bits, k, i)
  <2>1. a \in AggAnalysis /\ Acts(a, x, b)
    BY <1>1
  <2>2. /\ DOMAIN b.bits[k] = DOMAIN a.bits[k] \cup (IF k = t THEN {v} ELSE {})
        /\ \A i : Aggregate!BitsOf(b.bits, k, i) =
              IF k = t /\ i = v THEN Aggregate!Smaller(MaxBits, Aggregate!BitsOf(a.bits, k, i) + s)
              ELSE Aggregate!BitsOf(a.bits, k, i)
    <3>1. /\ a \in AggAnalysis /\ b \in AggAnalysis /\ Acts(a, x, b) /\ b.error = "None"
          /\ t \in Aggregate!Kinds /\ x.tag = t /\ k \in Aggregate!Kinds
          /\ a.state.id = v /\ Aggregate!Smaller(MaxBits, a.state.size * a.state.count) = s
      BY <1>2, <2>1
    <3> QED  BY ONLY <3>1, FieldBitsAs
  <2>3. /\ DOMAIN N.bits[k] = DOMAIN M.bits[k] \cup (IF k = t THEN {g} ELSE {})
        /\ \A i : Aggregate!BitsOf(N.bits, k, i) =
              IF k = t /\ i = g THEN Aggregate!Smaller(MaxBits, Aggregate!BitsOf(M.bits, k, i) + s)
              ELSE Aggregate!BitsOf(M.bits, k, i)
    <3>1. /\ M \in AggAnalysis /\ N \in AggAnalysis /\ Acts(M, x, N) /\ N.error = "None"
          /\ t \in Aggregate!Kinds /\ x.tag = t /\ k \in Aggregate!Kinds
          /\ M.state.id = g /\ Aggregate!Smaller(MaxBits, M.state.size * M.state.count) = s
      BY <1>2, <1>3
    <3> QED  BY ONLY <3>1, FieldBitsAs
  <2> QED  BY <2>2, <2>3, Zenon
<1>5. g \in 1..Len(m.remaps)
  BY <1>3, BlockIs
<1>6. \A k \in Aggregate!Kinds : DOMAIN N.bits[k] \subseteq 1..Len(m.remaps)
  BY <1>4, <1>5 DEF Agree
<1>7. ASSUME NEW p \in 1..Len(m.starts), NEW k \in Aggregate!Kinds
      PROVE  /\ \A h \in BlockOf(m, p) :
                   Aggregate!BitsOf(N.bits, k, h) = Aggregate!BitsOf(bn[p].bits, k, m.remaps[h])
             /\ \A i \in DOMAIN bn[p].bits[k] : Has(m, p, i)
  <2>1. /\ \A h \in BlockOf(m, p) :
              Aggregate!BitsOf(M.bits, k, h) = Aggregate!BitsOf(an[p].bits, k, m.remaps[h])
        /\ \A i \in DOMAIN an[p].bits[k] : Has(m, p, i)
    BY DEF Agree
  <2>2. CASE p # o
    <3>1. bn[p] = an[p]
      BY <2>2
    <3>2. ASSUME NEW h \in BlockOf(m, p) PROVE h # g
      <4>1. p < o
        BY <1>3, <2>2
      <4>2. h < g /\ h \in 1..Len(m.remaps)
        BY <1>3, <4>1, BlocksApart, BlockIs
      <4> QED  BY <1>5, <4>2
    <3>3. ASSUME NEW h \in BlockOf(m, p)
          PROVE  Aggregate!BitsOf(N.bits, k, h) = Aggregate!BitsOf(bn[p].bits, k, m.remaps[h])
      <4>1. Aggregate!BitsOf(N.bits, k, h) = Aggregate!BitsOf(M.bits, k, h)
        BY <1>4, <3>2
      <4> QED  BY <2>1, <3>1, <4>1, Zenon
    <3> QED  BY <2>1, <3>1, <3>3, Zenon
  <2>3. CASE p = o
    <3>1. bn[p] = b /\ an[p] = a
      BY <1>1, <2>3
    <3>2. ASSUME NEW h \in BlockOf(m, p)
          PROVE  Aggregate!BitsOf(N.bits, k, h) = Aggregate!BitsOf(b.bits, k, m.remaps[h])
      <4>1. m.remaps[h] = v <=> h = g
        <5>1. h \in 1..Len(m.remaps)
          BY <1>3, BlockIs
        <5> QED  BY <1>3, <1>5, <2>3, <5>1 DEF LaidOut
      <4>2. Aggregate!BitsOf(M.bits, k, h) = Aggregate!BitsOf(a.bits, k, m.remaps[h])
        BY <2>1, <3>1, Zenon
      <4>3. /\ Aggregate!BitsOf(N.bits, k, h) =
                  IF k = t /\ h = g THEN Aggregate!Smaller(MaxBits, Aggregate!BitsOf(M.bits, k, h) + s)
                  ELSE Aggregate!BitsOf(M.bits, k, h)
            /\ Aggregate!BitsOf(b.bits, k, m.remaps[h]) =
                  IF k = t /\ m.remaps[h] = v
                  THEN Aggregate!Smaller(MaxBits, Aggregate!BitsOf(a.bits, k, m.remaps[h]) + s)
                  ELSE Aggregate!BitsOf(a.bits, k, m.remaps[h])
        BY <1>4, Zenon
      <4> QED  BY <4>1, <4>2, <4>3
    <3>3. ASSUME NEW i \in DOMAIN b.bits[k] PROVE Has(m, p, i)
      <4>1. i \in DOMAIN a.bits[k] \/ i = v
        BY <1>4
      <4>2. Has(m, p, v)
        BY <1>3, <2>3 DEF Has
      <4> QED  BY <2>1, <3>1, <4>1, <4>2, Zenon
    <3> QED  BY <3>1, <3>2, <3>3
  <2> QED  BY <2>2, <2>3
<1> QED  BY <1>6, <1>7, Zenon DEF Agree

\* An id more: no field has it yet, in the device or in the merged descriptor.
LEMMA AgreeGrows ==
    ASSUME NEW m \in Underway, NEW c \in Merges, LaidOut(m), NEW v \in Nat,
           c.remaps = Append(m.remaps, v), c.starts = m.starts, ~Has(m, Len(m.starts), v),
           NEW an, NEW bn, NEW M, NEW N, Agree(m, an, M), N.bits = M.bits,
           \A p \in 1..Len(m.starts) : bn[p].bits = an[p].bits
    PROVE  Agree(c, bn, N)
<1> DEFINE o == Len(m.starts)
           L == Len(m.remaps)
<1>1. /\ \A p \in 1..o : p # o => BlockOf(c, p) = BlockOf(m, p)
      /\ BlockOf(c, o) = BlockOf(m, o) \cup {L + 1}
      /\ \A h \in 1..L : c.remaps[h] = m.remaps[h]
      /\ c.remaps[L + 1] = v /\ Len(c.remaps) = L + 1
  BY BlockGrows
<1>2. L \in Nat /\ m \in Merges
  BY MergeParts DEF Underway
<1>3. \A p \in 1..o : \A i : Has(m, p, i) => Has(c, p, i)
  BY HasStays
<1>4. \A k \in Aggregate!Kinds : DOMAIN N.bits[k] \subseteq 1..Len(c.remaps)
  <2> TAKE k \in Aggregate!Kinds
  <2>1. DOMAIN M.bits[k] \subseteq 1..L
    BY DEF Agree
  <2> QED  BY <1>1, <1>2, <2>1
<1>5. ASSUME NEW p \in 1..Len(c.starts), NEW k \in Aggregate!Kinds
      PROVE  /\ \A h \in BlockOf(c, p) :
                   Aggregate!BitsOf(N.bits, k, h) = Aggregate!BitsOf(bn[p].bits, k, c.remaps[h])
             /\ \A i \in DOMAIN bn[p].bits[k] : Has(c, p, i)
  <2>0. p \in 1..o /\ bn[p].bits = an[p].bits
    OBVIOUS
  <2>1. /\ \A h \in BlockOf(m, p) :
              Aggregate!BitsOf(M.bits, k, h) = Aggregate!BitsOf(an[p].bits, k, m.remaps[h])
        /\ \A i \in DOMAIN an[p].bits[k] : Has(m, p, i)
    BY <2>0 DEF Agree
  <2>2. ASSUME NEW h \in BlockOf(m, p)
        PROVE  Aggregate!BitsOf(N.bits, k, h) = Aggregate!BitsOf(bn[p].bits, k, c.remaps[h])
    <3>1. h \in 1..L
      BY <1>2, <2>0, BlockIs
    <3>2. c.remaps[h] = m.remaps[h]
      BY <1>1, <3>1
    <3> QED  BY <2>0, <2>1, <3>2
  <2>3. ASSUME p = o
        PROVE  Aggregate!BitsOf(N.bits, k, L + 1) = Aggregate!BitsOf(bn[p].bits, k, c.remaps[L + 1])
    <3>1. L + 1 \notin DOMAIN N.bits[k]
      <4>1. DOMAIN N.bits[k] \subseteq 1..L
        BY DEF Agree
      <4> QED  BY <1>2, <4>1
    <3>2. c.remaps[L + 1] \notin DOMAIN bn[p].bits[k]
      BY <1>1, <2>0, <2>1, <2>3
    <3> QED  BY <3>1, <3>2 DEF Aggregate!BitsOf
  <2>4. ASSUME NEW h \in BlockOf(c, p)
        PROVE  Aggregate!BitsOf(N.bits, k, h) = Aggregate!BitsOf(bn[p].bits, k, c.remaps[h])
    <3>1. h \in BlockOf(m, p) \/ (p = o /\ h = L + 1)
      BY <1>1, <2>0
    <3> QED  BY <2>2, <2>3, <3>1, Zenon
  <2>5. \A i \in DOMAIN bn[p].bits[k] : Has(c, p, i)
    BY <1>3, <2>0, <2>1
  <2> QED  BY <2>4, <2>5, Zenon
<1> QED  BY <1>4, <1>5, Zenon DEF Agree

\* A merge that goes on keeps what its ids stand for.
GoesOn(m, c) ==
    /\ c.starts = m.starts
    /\ \A h \in LastBlock(m) : h \in LastBlock(c) /\ c.remaps[h] = m.remaps[h]

LEMMA StackedGoesOn ==
    ASSUME NEW m, NEW c, GoesOn(m, c), NEW known, NEW kept, kept => known,
           NEW a, NEW M, Stacked(m, known, a, M)
    PROVE  Stacked(c, kept, a, M)
<1>1. ASSUME NEW h, NEW g, Same(m, known, h, g) PROVE Same(c, kept, h, g)
  BY <1>1, Zenon DEF Same, GoesOn
<1> QED  BY <1>1, Zenon DEF Stacked

\* An id item, in the device and in the merged descriptor.
LEMMA StackedNamed ==
    ASSUME NEW m, NEW known, NEW a, NEW b, NEW M, NEW N, NEW v, NEW h,
           Stacked(m, known, a, M),
           h \in LastBlock(m), m.remaps[h] = v,
           b.state = [size |-> a.state.size, count |-> a.state.count, id |-> v], b.stack = a.stack,
           N.state = [size |-> M.state.size, count |-> M.state.count, id |-> h], N.stack = M.stack
    PROVE  Stacked(m, known, b, N)
<1>1. /\ b.state.size = a.state.size /\ b.state.count = a.state.count /\ b.state.id = v
      /\ N.state.size = M.state.size /\ N.state.count = M.state.count /\ N.state.id = h
  OBVIOUS
<1>2. Same(m, known, b.state, N.state)
  BY <1>1, Zenon DEF Stacked, Same
<1> QED  BY <1>2, Zenon DEF Stacked

\* An id that is new lengthens the last block.
LEMMA GrowthGoesOn ==
    ASSUME NEW m \in Underway, NEW c \in Merges, LaidOut(m), NEW v \in Nat,
           c.remaps = Append(m.remaps, v), c.starts = m.starts, ~Has(m, Len(m.starts), v)
    PROVE  GoesOn(m, c) /\ Len(m.remaps) + 1 \in LastBlock(c) /\ c.remaps[Len(m.remaps) + 1] = v
<1>1. c \in Underway
  BY DEF Underway
<1>2. LastBlock(m) = BlockOf(m, Len(m.starts)) /\ LastBlock(c) = BlockOf(c, Len(m.starts))
  BY <1>1, LastBlockOf
<1>3. /\ BlockOf(c, Len(m.starts)) = BlockOf(m, Len(m.starts)) \cup {Len(m.remaps) + 1}
      /\ \A h \in 1..Len(m.remaps) : c.remaps[h] = m.remaps[h]
      /\ c.remaps[Len(m.remaps) + 1] = v
  BY BlockGrows
<1>4. \A h \in LastBlock(m) : h \in 1..Len(m.remaps)
  BY LastBlockIs
<1> QED  BY <1>2, <1>3, <1>4 DEF GoesOn

\* The devices' analyses while device o's is at item n.
Progress(ds, o, n) ==
    [p \in 1..o |-> IF p = o THEN Aggregate!Analyses(ds[o])[n] ELSE Aggregate!Analyse(ds[p])]

Known(m, d) == Aggregate!Analyse(d).implicit /\ m.inserted

SimSoFar(m, ds, o, n) ==
    /\ Agree(m, Progress(ds, o, n), Aggregate!Analyse(m.items))
    /\ Stacked(m, Known(m, ds[o]), Aggregate!Analyses(ds[o])[n], Aggregate!Analyse(m.items))

\* The analysis of a descriptor with an item more, when it is not refused.
LEMMA AppendActs ==
    ASSUME NEW items \in Seq(AggItem), NEW x \in AggItem,
           Aggregate!Analyse(Append(items, x)).error = "None"
    PROVE  /\ Acts(Aggregate!Analyse(items), x, Aggregate!Analyse(Append(items, x)))
           /\ Aggregate!Analyse(items).error = "None"
           /\ Aggregate!Analyse(items) \in AggAnalysis
           /\ Aggregate!Analyse(Append(items, x)) \in AggAnalysis
<1>1. Append(items, x) \in Seq(AggItem)
  OBVIOUS
<1>2. Aggregate!Analyse(items) \in AggAnalysis /\ Aggregate!Analyse(Append(items, x)) \in AggAnalysis
  BY <1>1, AnalyseOf
<1>3. Acts(Aggregate!Analyse(items), x, Aggregate!Analyse(Append(items, x)))
  <2>1. Acts(Aggregate!Analyse(items), x, Aggregate!AnalyseItem(Aggregate!Analyse(items), x))
    BY <1>2, AnalyseActs
  <2>2. Aggregate!Analyse(Append(items, x)) = Aggregate!AnalyseItem(Aggregate!Analyse(items), x)
    BY AnalyseAppend
  <2> QED  BY <2>1, <2>2
<1>4. Aggregate!Analyse(items).error = "None"
  BY <1>3, Zenon DEF Acts
<1> QED  BY <1>2, <1>3, <1>4, Zenon

\* What refuses no item of the longer descriptor refuses none of the shorter one.
LEMMA DoesNotRefuse ==
    ASSUME NEW m \in Underway, NEW x \in AggItem, NEW implicit, NEW c, Does(m, x, implicit, c),
           Aggregate!Analyse(c.items).error = "None"
    PROVE  Aggregate!Analyse(m.items).error = "None"
<1>1. m.items \in Seq(AggItem) /\ Len(m.remaps) + 1 \in Nat
  BY MergeParts DEF Underway
<1>2. \A h \in LastBlock(m) : h \in Nat
  BY LastBlockIs
<1>3. ASSUME NEW h \in Nat PROVE Aggregate!IdItem(h) \in AggItem
  BY IdItemTyped
<1>4. Append(m.items, x) \in Seq(AggItem)
  BY <1>1
<1>5. \/ c.items = Append(m.items, x)
      \/ c.items = Append(Append(m.items, x), Aggregate!IdItem(Len(m.remaps) + 1))
      \/ \E h \in Nat : c.items = Append(m.items, Aggregate!IdItem(h))
  BY <1>1, <1>2, DoesParts
<1>6. CASE c.items = Append(m.items, x)
  BY <1>1, <1>6, AppendActs
<1>7. CASE c.items = Append(Append(m.items, x), Aggregate!IdItem(Len(m.remaps) + 1))
  <2>1. Aggregate!IdItem(Len(m.remaps) + 1) \in AggItem
    BY <1>1, <1>3
  <2>2. Aggregate!Analyse(Append(m.items, x)).error = "None"
    BY <1>4, <1>7, <2>1, AppendActs
  <2> QED  BY <1>1, <2>2, AppendActs
<1>8. CASE \E h \in Nat : c.items = Append(m.items, Aggregate!IdItem(h))
  BY <1>1, <1>3, <1>8, AppendActs
<1> QED  BY <1>5, <1>6, <1>7, <1>8

\* One item of device o, in its own analysis and in the merged one.
LEMMA SimStep ==
    ASSUME NEW ds \in Declared, NEW o \in 1..HidDevices, NEW n \in 1..Len(ds[o]),
           Aggregate!Analyse(ds[o]).error = "None", Aggregate!WellFormed(ds[o]),
           NEW m \in Underway, NEW c \in Underway, Len(m.starts) = o, LaidOut(m),
           IdsSoFar(m, ds[o], n - 1), SimSoFar(m, ds, o, n - 1),
           Does(m, ds[o][n], Aggregate!Analyse(ds[o]).implicit, c),
           Aggregate!Analyse(c.items).error = "None"
    PROVE  SimSoFar(c, ds, o, n)
<1>0. PICK d, x, implicit :
         d = ds[o] /\ x = ds[o][n] /\ implicit = Aggregate!Analyse(ds[o]).implicit
  OBVIOUS
<1>1. d \in Seq(AggItem) /\ n \in 1..Len(d) /\ n - 1 \in 0..Len(d) /\ n \in 0..Len(d)
  BY <1>0 DEF Declared, Aggregate!Owners
<1>2. x \in AggItem /\ x.value \in Nat /\ x.tag \in Aggregate!Tags
  <2>1. x \in AggItem
    BY <1>0, <1>1
  <2> QED  BY <2>1 DEF AggItem
<1>3. PICK a, b, M, N, an, bn :
         /\ a = Aggregate!Analyses(d)[n - 1] /\ b = Aggregate!Analyses(d)[n]
         /\ M = Aggregate!Analyse(m.items) /\ N = Aggregate!Analyse(c.items)
         /\ an = Progress(ds, o, n - 1) /\ bn = Progress(ds, o, n)
  OBVIOUS
<1>4. /\ a \in AggAnalysis /\ b \in AggAnalysis /\ Acts(a, x, b) /\ a.error = "None" /\ b.error = "None"
      /\ N.error = "None"
  <2>1. a \in AggAnalysis /\ b \in AggAnalysis
    BY <1>1, <1>3, AnalysesGo
  <2>2. Acts(a, x, b) /\ a.error = "None" /\ b.error = "None"
    BY <1>0, <1>1, <1>3, NoneRefused
  <2> QED  BY <1>3, <2>1, <2>2
<1>5. /\ m \in Merges /\ c \in Merges /\ m.items \in Seq(AggItem) /\ c.items \in Seq(AggItem)
      /\ Len(m.remaps) + 1 \in Nat
  BY MergeParts DEF Underway
<1>6. o \in 1..o /\ Len(m.starts) = o /\ o \in Nat
  BY AggregateAssumption
<1>7. an[o] = a /\ bn[o] = b /\ \A p \in 1..o : p # o => bn[p] = an[p]
  BY <1>0, <1>3, <1>6 DEF Progress
<1>8. Agree(m, an, M) /\ Stacked(m, implicit /\ m.inserted, a, M)
  BY <1>0, <1>3, Zenon DEF SimSoFar, Known
<1>9. Does(m, x, implicit, c) /\ c.starts = m.starts
  <2>1. Does(m, x, implicit, c)
    BY <1>0
  <2> QED  BY <1>2, <2>1, DoesParts
<1>10. /\ IdsSoFar(m, d, n - 1)
       /\ implicit /\ ~m.inserted => \A i : ~Has(m, o, i)
       /\ implicit => (m.inserted <=> \E i \in 1..n - 1 : d[i].tag = "Collection")
  BY <1>0, <1>6, Zenon DEF IdsSoFar
<1>11. ASSUME Agree(c, bn, N), NEW known, Stacked(c, known, b, N), implicit /\ c.inserted => known
       PROVE  SimSoFar(c, ds, o, n)
  <2>1. GoesOn(c, c)
    BY Zenon DEF GoesOn
  <2>2. Stacked(c, implicit /\ c.inserted, b, N)
    BY <1>11, <2>1, StackedGoesOn, Zenon
  <2> QED  BY <1>0, <1>3, <1>11, <2>2, Zenon DEF SimSoFar, Known
<1>12. CASE x.tag # "ReportId" /\ ~FirstCollection(x, implicit, m)
  <2>1. c.remaps = m.remaps /\ c.items = Append(m.items, x)
    BY <1>2, <1>9, <1>12, DoesParts
  <2>2. c.inserted <=> m.inserted
    BY <1>2, <1>9, <1>12, DoesParts
  <2>3. Acts(M, x, N) /\ M \in AggAnalysis /\ N \in AggAnalysis
    BY <1>2, <1>3, <1>4, <1>5, <2>1, AppendActs
  <2>4. GoesOn(m, c)
    BY <1>9, <2>1 DEF GoesOn, LastBlock
  <2>5. Stacked(m, implicit /\ m.inserted, b, N)
    BY <1>2, <1>4, <1>8, <1>12, <2>3, StackedStep, Zenon
  <2>6. Stacked(c, implicit /\ m.inserted, b, N)
    BY <2>4, <2>5, StackedGoesOn, Zenon
  <2>7. Agree(c, bn, N)
    <3>1. CASE x.tag \in Aggregate!Kinds
      <4>1. (implicit /\ m.inserted) \/ a.state.id # 0
        <5>1. CASE ~implicit
          <6>1. Aggregate!Analyses(d)[n - 1].state.id # 0
            BY <1>0, <1>1, <3>1, <5>1, Zenon DEF Aggregate!WellFormed
          <6> QED  BY <1>3, <6>1
        <5>2. CASE implicit
          <6>1. PICK j \in 1..Len(d) : d[j].tag = "Collection"
                                       /\ \A i \in 1..j - 1 : d[i].tag \notin Aggregate!Kinds \cup {"Collection"}
            BY <1>0, <5>2, Zenon DEF Aggregate!WellFormed
          <6>2. d[n].tag \in Aggregate!Kinds /\ d[n].tag # "Collection"
            BY <1>0, <3>1 DEF Aggregate!Kinds
          <6>3. ~(n \in 1..j - 1) /\ n # j
            BY <6>1, <6>2
          <6>4. j \in 1..n - 1
            BY <1>1, <6>3
          <6>5. m.inserted
            BY <1>10, <5>2, <6>1, <6>4, Zenon
          <6> QED  BY <5>2, <6>5
        <5> QED  BY <5>1, <5>2
      <4>2. Same(m, implicit /\ m.inserted, a.state, M.state)
        BY <1>8, Zenon DEF Stacked
      <4>3. Agree(m, bn, N)
        <5>1. PICK known : known = (implicit /\ m.inserted)
          OBVIOUS
        <5>2. Same(m, known, an[Len(m.starts)].state, M.state)
          BY <1>6, <1>7, <4>2, <5>1
        <5>3. known \/ an[Len(m.starts)].state.id # 0
          BY <1>6, <1>7, <4>1, <5>1
        <5>4. /\ an[Len(m.starts)] \in AggAnalysis /\ Acts(an[Len(m.starts)], x, b) /\ bn[Len(m.starts)] = b
              /\ \A p \in 1..Len(m.starts) : p # Len(m.starts) => bn[p] = an[p]
          BY <1>4, <1>6, <1>7
        <5> QED  BY <1>4, <1>8, <2>3, <3>1, <5>2, <5>3, <5>4, AgreeField, Zenon
      <4> QED  BY <1>9, <2>1, <4>3, AgreeKept, Zenon
    <3>2. CASE x.tag \notin Aggregate!Kinds
      <4>1. x.tag \in {"ReportSize", "ReportCount", "Push", "Pop", "Collection", "Other", "Long"}
        <5>1. x.tag # "Truncated"
          BY <1>4, Zenon DEF Acts
        <5> QED  BY <1>2, <1>12, <3>2, <5>1 DEF Aggregate!Tags, Aggregate!Kinds
      <4>2. b.bits = a.bits /\ N.bits = M.bits
        BY <1>4, <2>3, <4>1, Zenon DEF Acts
      <4>3. \A p \in 1..Len(m.starts) : bn[p].bits = an[p].bits
        BY <1>6, <1>7, <4>2
      <4> QED  BY <1>8, <1>9, <2>1, <4>2, <4>3, AgreeKept, Zenon
    <3> QED  BY <3>1, <3>2
  <2> QED  BY <1>11, <2>2, <2>6, <2>7, Zenon
<1>13. ASSUME x.tag = "ReportId", NEW h \in LastBlock(c), h \in Nat, c.remaps[h] = x.value, GoesOn(m, c),
              c.items = Append(m.items, Aggregate!IdItem(h)),
              N.bits = M.bits /\ (\A p \in 1..Len(m.starts) : bn[p].bits = an[p].bits) => Agree(c, bn, N)
       PROVE  SimSoFar(c, ds, o, n)
  <2>1. Aggregate!IdItem(h) \in AggItem /\ Aggregate!IdItem(h).tag = "ReportId" /\ Aggregate!IdItem(h).value = h
    BY <1>13, IdItemTyped DEF Aggregate!IdItem
  <2>2. Acts(M, Aggregate!IdItem(h), N)
    BY <1>3, <1>4, <1>5, <1>13, <2>1, AppendActs
  <2>3. /\ N.state = [size |-> M.state.size, count |-> M.state.count, id |-> h]
        /\ N.stack = M.stack /\ N.bits = M.bits
    BY <1>4, <2>1, <2>2, Zenon DEF Acts
  <2>4. /\ b.state = [size |-> a.state.size, count |-> a.state.count, id |-> x.value]
        /\ b.stack = a.stack /\ b.bits = a.bits
    BY <1>4, <1>13, Zenon DEF Acts
  <2>5. ~implicit
    BY <1>0, <1>1, <1>13, ImplicitIs
  <2>6. Stacked(c, FALSE, a, M)
    BY <1>8, <1>13, StackedGoesOn, Zenon
  <2>7. Stacked(c, FALSE, b, N)
    BY <1>13, <2>3, <2>4, <2>6, StackedNamed, Zenon
  <2>8. Agree(c, bn, N)
    BY <1>6, <1>7, <1>13, <2>3, <2>4
  <2> QED  BY <1>11, <2>5, <2>7, <2>8, Zenon
<1>14. CASE x.tag = "ReportId"
  <2>1. CASE \E h \in LastBlock(m) : /\ m.remaps[h] = x.value /\ c.remaps = m.remaps
                                     /\ c.items = Append(m.items, Aggregate!IdItem(h))
    <3>1. PICK h \in LastBlock(m) : /\ m.remaps[h] = x.value /\ c.remaps = m.remaps
                                    /\ c.items = Append(m.items, Aggregate!IdItem(h))
      BY <2>1
    <3>2. GoesOn(m, c) /\ LastBlock(c) = LastBlock(m)
      BY <1>9, <3>1 DEF GoesOn, LastBlock
    <3>3. h \in LastBlock(c) /\ h \in Nat /\ c.remaps[h] = x.value
      BY <3>1, <3>2, LastBlockIs
    <3>4. N.bits = M.bits /\ (\A p \in 1..Len(m.starts) : bn[p].bits = an[p].bits) => Agree(c, bn, N)
      BY <1>8, <1>9, <3>1, AgreeKept, Zenon
    <3> QED  BY <1>13, <1>14, <3>1, <3>2, <3>3, <3>4, Zenon
  <2>2. CASE /\ \A h \in LastBlock(m) : m.remaps[h] # x.value
             /\ c.remaps = Append(m.remaps, x.value)
             /\ c.items = Append(m.items, Aggregate!IdItem(Len(m.remaps) + 1))
    <3>1. ~Has(m, Len(m.starts), x.value)
      <4>1. BlockOf(m, Len(m.starts)) = LastBlock(m)
        BY LastBlockOf
      <4> QED  BY <2>2, <4>1, Zenon DEF Has
    <3>2. GoesOn(m, c) /\ Len(m.remaps) + 1 \in LastBlock(c) /\ c.remaps[Len(m.remaps) + 1] = x.value
      BY <1>2, <1>5, <1>9, <2>2, <3>1, GrowthGoesOn
    <3>3. N.bits = M.bits /\ (\A p \in 1..Len(m.starts) : bn[p].bits = an[p].bits) => Agree(c, bn, N)
      BY <1>2, <1>5, <1>8, <1>9, <2>2, <3>1, AgreeGrows, Zenon
    <3> QED  BY <1>5, <1>13, <1>14, <2>2, <3>2, <3>3, Zenon
  <2> QED  BY <1>2, <1>9, <1>14, <2>1, <2>2, DoesParts
<1>15. CASE FirstCollection(x, implicit, m)
  <2>0. x.tag = "Collection" /\ implicit /\ ~m.inserted
    BY <1>15, Zenon DEF FirstCollection
  <2> DEFINE h == Len(m.remaps) + 1
             mid == Append(m.items, x)
  <2>1. c.remaps = Append(m.remaps, 0) /\ c.items = Append(mid, Aggregate!IdItem(h))
    BY <1>2, <1>9, <1>15, DoesParts
  <2>2. ~Has(m, Len(m.starts), 0)
    BY <1>6, <1>10, <2>0
  <2>3. GoesOn(m, c) /\ h \in LastBlock(c) /\ c.remaps[h] = 0
    BY <1>5, <1>9, <2>1, <2>2, GrowthGoesOn
  <2>4. Aggregate!IdItem(h) \in AggItem /\ Aggregate!IdItem(h).tag = "ReportId" /\ Aggregate!IdItem(h).value = h
        /\ mid \in Seq(AggItem)
    BY <1>2, <1>5, IdItemTyped DEF Aggregate!IdItem
  <2>5. PICK K : K = Aggregate!Analyse(mid)
    OBVIOUS
  <2>6. Acts(K, Aggregate!IdItem(h), N) /\ K.error = "None"
    BY <1>3, <1>4, <2>1, <2>4, <2>5, AppendActs
  <2>7. Acts(M, x, K)
    BY <1>2, <1>3, <1>5, <2>5, <2>6, AppendActs
  <2> HIDE DEF h, mid
  <2>8. K.state = M.state /\ K.stack = M.stack /\ K.bits = M.bits
    BY <2>0, <2>6, <2>7, Zenon DEF Acts
  <2>9. /\ N.state = [size |-> M.state.size, count |-> M.state.count, id |-> h]
        /\ N.stack = M.stack /\ N.bits = M.bits
    BY <1>4, <2>4, <2>6, <2>8, Zenon DEF Acts
  <2>10. b.state = a.state /\ b.stack = a.stack /\ b.bits = a.bits
    BY <1>4, <2>0, Zenon DEF Acts
  <2>11. a.state.id = 0
    BY <1>0, <1>1, <1>3, <2>0, ZeroIds
  <2>12. a.stack = <<>>
    <3>1. PICK j \in 1..Len(d) : /\ d[j].tag = "Collection" /\ Aggregate!Analyses(d)[j - 1].stack = <<>>
                                 /\ \A i \in 1..j - 1 : d[i].tag \notin Aggregate!Kinds \cup {"Collection"}
      BY <1>0, <2>0, Zenon DEF Aggregate!WellFormed
    <3>2. ~(n \in 1..j - 1)
      BY <1>0, <2>0, <3>1
    <3>3. ~(j \in 1..n - 1)
      BY <1>10, <2>0, <3>1, Zenon
    <3>4. j = n
      BY <1>1, <3>2, <3>3
    <3> QED  BY <1>3, <3>1, <3>4
  <2>13. Stacked(c, TRUE, b, N)
    <3>1. N.state.size = M.state.size /\ N.state.count = M.state.count /\ N.state.id = h
      BY <2>9
    <3>2. Same(m, implicit /\ m.inserted, a.state, M.state)
      BY <1>8, Zenon DEF Stacked
    <3>3. Same(c, TRUE, b.state, N.state)
      BY <2>3, <2>10, <2>11, <3>1, <3>2, Zenon DEF Same
    <3>4. Len(M.stack) = Len(a.stack) + 1 /\ M.stack[1] = Aggregate!Global0
      BY <1>8, Zenon DEF Stacked
    <3>5. \A j \in 1..Len(b.stack) : FALSE
      BY <2>10, <2>12
    <3> QED  BY <2>9, <2>10, <3>3, <3>4, <3>5, Zenon DEF Stacked
  <2>14. Agree(c, bn, N)
    <3>1. \A p \in 1..Len(m.starts) : bn[p].bits = an[p].bits
      BY <1>6, <1>7, <2>10
    <3>2. 0 \in Nat
      OBVIOUS
    <3> QED  BY <1>5, <1>8, <1>9, <2>1, <2>2, <2>9, <3>1, <3>2, AgreeGrows, Zenon
  <2> QED  BY <1>11, <2>13, <2>14, Zenon
<1> QED  BY <1>12, <1>14, <1>15, Zenon

\* A device done, and the next one begun.
Whole(ds, o) == [p \in 1..o |-> Aggregate!Analyse(ds[p])]

SimDone(m, ds, o) ==
    /\ Agree(m, Whole(ds, o), Aggregate!Analyse(m.items))
    /\ Aggregate!Analyse(m.items).state = Aggregate!Global0
    /\ Aggregate!Analyse(m.items).stack = <<>>

LEMMA SimBegins ==
    ASSUME NEW ds \in Declared, NEW o \in 1..HidDevices, NEW m \in Merges, Len(m.starts) = o - 1,
           LaidOut(m), SimDone(m, ds, o - 1),
           Aggregate!Analyse(Aggregate!Begun(m).items).error = "None"
    PROVE  SimSoFar(Aggregate!Begun(m), ds, o, 0)
<1>1. PICK b : b = Aggregate!Begun(m)
  OBVIOUS
<1>2. /\ b = [remaps |-> m.remaps, starts |-> Append(m.starts, Len(m.remaps)),
              items |-> Append(m.items, Aggregate!PushItem), inserted |-> FALSE, error |-> m.error]
      /\ b \in Underway
  BY <1>1, BegunTyped
<1>3. b.items = Append(m.items, Aggregate!PushItem) /\ ~b.inserted /\ b.remaps = m.remaps
  BY <1>2
<1>4. m.items \in Seq(AggItem) /\ o \in Nat /\ o - 1 \in Nat /\ o \in 1..o /\ (o - 1) + 1 = o
  BY MergeParts, AggregateAssumption
<1>5. Aggregate!PushItem \in AggItem /\ Aggregate!PushItem.tag = "Push"
  BY DEF Aggregate!PushItem, AggItem, Aggregate!Tags
<1>6. PICK M, N : M = Aggregate!Analyse(m.items) /\ N = Aggregate!Analyse(b.items)
  OBVIOUS
<1>7. Acts(M, Aggregate!PushItem, N) /\ N.error = "None"
  BY <1>1, <1>3, <1>4, <1>5, <1>6, AppendActs
<1>8. N.state = M.state /\ N.stack = Append(M.stack, M.state) /\ N.bits = M.bits
  BY <1>5, <1>7, Zenon DEF Acts
<1>9. Agree(m, Whole(ds, o - 1), M) /\ M.state = Aggregate!Global0 /\ M.stack = <<>>
  BY <1>6, Zenon DEF SimDone
<1>10. ds[o] \in Seq(AggItem)
  BY DEF Declared, Aggregate!Owners
<1>11. PICK a : a = Aggregate!Analyses(ds[o])[0]
  OBVIOUS
<1>12. a = Aggregate!Analysis0
  BY <1>10, <1>11, AnalysesGo
<1>13. a.state = Aggregate!Global0 /\ a.stack = <<>> /\ \A k \in Aggregate!Kinds : DOMAIN a.bits[k] = {}
  BY <1>12 DEF Aggregate!Analysis0
<1>14. Stacked(b, FALSE, a, N)
  <2>1. Len(N.stack) = Len(a.stack) + 1 /\ N.stack[1] = Aggregate!Global0
    BY <1>8, <1>9, <1>13
  <2>2. Aggregate!Global0.id = 0
    BY DEF Aggregate!Global0
  <2>3. Same(b, FALSE, a.state, N.state)
    BY <1>8, <1>9, <1>13, <2>2, Zenon DEF Same
  <2>4. \A j \in 1..Len(a.stack) : FALSE
    BY <1>13
  <2> QED  BY <2>1, <2>3, <2>4, Zenon DEF Stacked
<1>15. Stacked(b, Known(b, ds[o]), a, N)
  <2>1. GoesOn(b, b)
    BY Zenon DEF GoesOn
  <2>2. Known(b, ds[o]) => FALSE
    BY <1>3, Zenon DEF Known
  <2> QED  BY <1>14, <2>1, <2>2, StackedGoesOn, Zenon
<1>16. Agree(b, Progress(ds, o, 0), N)
  <2>1. /\ Len(b.starts) = o
        /\ \A p \in 1..o - 1 : BlockOf(b, p) = BlockOf(m, p)
        /\ BlockOf(b, o) = {}
    BY <1>1, <1>4, BlockBegins
  <2>2. ASSUME NEW p \in 1..Len(b.starts), NEW k \in Aggregate!Kinds
        PROVE  /\ \A h \in BlockOf(b, p) :
                     Aggregate!BitsOf(N.bits, k, h)
                       = Aggregate!BitsOf(Progress(ds, o, 0)[p].bits, k, b.remaps[h])
               /\ \A i \in DOMAIN Progress(ds, o, 0)[p].bits[k] : Has(b, p, i)
    <3>1. CASE p = o
      <4>1. Progress(ds, o, 0)[p] = a
        BY <1>4, <1>11, <3>1 DEF Progress
      <4> QED  BY <1>13, <2>1, <3>1, <4>1
    <3>2. CASE p # o
      <4>1. p \in 1..Len(m.starts) /\ p \in 1..o - 1
        <5>1. p \in 1..o /\ o \in Nat
          BY <1>4, <2>1
        <5> QED  BY <3>2, <5>1
      <4>2. Progress(ds, o, 0)[p] = Whole(ds, o - 1)[p]
        BY <1>4, <3>2, <4>1 DEF Progress, Whole
      <4>3. /\ \A h \in BlockOf(m, p) :
                  Aggregate!BitsOf(M.bits, k, h) = Aggregate!BitsOf(Whole(ds, o - 1)[p].bits, k, m.remaps[h])
            /\ \A i \in DOMAIN Whole(ds, o - 1)[p].bits[k] : Has(m, p, i)
        BY <1>9, <4>1 DEF Agree
      <4>4. BlockOf(b, p) = BlockOf(m, p) /\ \A i : Has(m, p, i) => Has(b, p, i)
        BY <1>3, <2>1, <4>1 DEF Has
      <4> QED  BY <1>3, <1>8, <4>2, <4>3, <4>4
    <3> QED  BY <3>1, <3>2
  <2>3. \A k \in Aggregate!Kinds : DOMAIN N.bits[k] \subseteq 1..Len(b.remaps)
    BY <1>3, <1>8, <1>9 DEF Agree
  <2> QED  BY <2>2, <2>3, Zenon DEF Agree
<1>17. SimSoFar(b, ds, o, 0)
  BY <1>6, <1>11, <1>15, <1>16, Zenon DEF SimSoFar
<1> QED  BY <1>1, <1>17

LEMMA SimEnds ==
    ASSUME NEW ds \in Declared, NEW o \in 1..HidDevices, Aggregate!WellFormed(ds[o]),
           NEW m \in Underway, NEW e \in Merges, Len(m.starts) = o, SimSoFar(m, ds, o, Len(ds[o])),
           e.items = Append(m.items, Aggregate!PopItem), e.remaps = m.remaps, e.starts = m.starts,
           Aggregate!Analyse(e.items).error = "None"
    PROVE  SimDone(e, ds, o)
<1>1. m.items \in Seq(AggItem) /\ o \in 1..o
  BY MergeParts, AggregateAssumption DEF Underway
<1>2. Aggregate!PopItem \in AggItem /\ Aggregate!PopItem.tag = "Pop"
  BY DEF Aggregate!PopItem, AggItem, Aggregate!Tags
<1>3. PICK M, N : M = Aggregate!Analyse(m.items) /\ N = Aggregate!Analyse(e.items)
  OBVIOUS
<1>4. Acts(M, Aggregate!PopItem, N) /\ N.error = "None" /\ M \in AggAnalysis
  BY <1>1, <1>2, <1>3, AppendActs
<1>5. /\ N.state = M.stack[Len(M.stack)] /\ N.stack = SubSeq(M.stack, 1, Len(M.stack) - 1)
      /\ N.bits = M.bits
  BY <1>2, <1>4, Zenon DEF Acts
<1>6. PICK a : a = Aggregate!Analyses(ds[o])[Len(ds[o])]
  OBVIOUS
<1>7. a = Aggregate!Analyse(ds[o])
  BY <1>6, Zenon DEF Aggregate!Analyse
<1>8. a.stack = <<>>
  BY <1>7, Zenon DEF Aggregate!WellFormed
<1>9. Agree(m, Progress(ds, o, Len(ds[o])), M) /\ Stacked(m, Known(m, ds[o]), a, M)
  BY <1>3, <1>6, Zenon DEF SimSoFar
<1>10. Len(M.stack) = Len(a.stack) + 1 /\ M.stack[1] = Aggregate!Global0
  BY <1>9, Zenon DEF Stacked
<1>11. Len(M.stack) = 1
  BY <1>8, <1>10
<1>12. M.stack \in Seq(Globals)
  BY <1>4 DEF AggAnalysis
<1>13. N.state = Aggregate!Global0 /\ N.stack = <<>>
  BY <1>5, <1>10, <1>11, <1>12
<1>14. \A p \in 1..Len(m.starts) : Whole(ds, o)[p].bits = Progress(ds, o, Len(ds[o]))[p].bits
  BY <1>6, <1>7 DEF Whole, Progress
<1>15. Agree(e, Whole(ds, o), N)
  BY <1>5, <1>9, <1>14, AgreeKept, Zenon
<1> QED  BY <1>3, <1>13, <1>15, Zenon DEF SimDone

\* A device's ids have got host ids.
Given(m, ds, p) ==
    Aggregate!Addressed(ds[p]) => \A i \in Aggregate!NativeIds(ds[p]) : Has(m, p, i)

Good(m) == m.error = "None" /\ Aggregate!Analyse(m.items).error = "None"

AllWell(ds) == \A p \in Aggregate!Owners : Aggregate!WellFormed(ds[p])

\* The merge at item n of device o, and after device o.
MidOK(m, ds, o, n) ==
    /\ Len(m.starts) = o /\ LaidOut(m) /\ IdsSoFar(m, ds[o], n)
    /\ \A p \in 1..o - 1 : Given(m, ds, p)
    /\ Aggregate!Bytes(m.items) - Extra(m)
          <= Aggregate!ExpectedUpto(ds)[o - 1] + 1 + Aggregate!BytesUpto(ds[o])[n]
    /\ AllWell(ds) => SimSoFar(m, ds, o, n)

DoneOK(m, ds, o) ==
    /\ Len(m.starts) = o /\ LaidOut(m)
    /\ \A p \in 1..o : Given(m, ds, p)
    /\ Aggregate!Bytes(m.items) <= Aggregate!ExpectedUpto(ds)[o]
    /\ AllWell(ds) => SimDone(m, ds, o)

\* Descriptors of devices: analysed without an error.
Accepted == {ds \in Declared : \A o \in Aggregate!Owners : Aggregate!Analyse(ds[o]).error = "None"}

LEMMA AcceptedIs ==
    ASSUME NEW ds \in Accepted, NEW o \in 1..HidDevices
    PROVE  /\ ds \in Declared /\ ds[o] \in Seq(AggItem) /\ Aggregate!Analyse(ds[o]).error = "None"
           /\ o \in Nat /\ o - 1 \in Nat /\ o \in 0..HidDevices /\ o - 1 \in 0..HidDevices /\ o \in 1..o
           /\ Len(ds[o]) \in Nat
BY AggregateAssumption DEF Accepted, Declared, Aggregate!Owners

LEMMA MidBegins ==
    ASSUME NEW ds \in Accepted, NEW o \in 1..HidDevices, NEW m \in Merges, DoneOK(m, ds, o - 1),
           Good(Aggregate!Begun(m))
    PROVE  MidOK(Aggregate!Begun(m), ds, o, 0)
<1>1. PICK b : b = Aggregate!Begun(m)
  OBVIOUS
<1>2. /\ b = [remaps |-> m.remaps, starts |-> Append(m.starts, Len(m.remaps)),
              items |-> Append(m.items, Aggregate!PushItem), inserted |-> FALSE, error |-> m.error]
      /\ b \in Underway
  BY <1>1, BegunTyped
<1>3. b.items = Append(m.items, Aggregate!PushItem) /\ ~b.inserted /\ b.remaps = m.remaps
  BY <1>2
<1>4. /\ ds \in Declared /\ ds[o] \in Seq(AggItem) /\ o \in Nat /\ o - 1 \in Nat /\ o - 1 \in 0..HidDevices
      /\ (o - 1) + 1 = o
  BY AcceptedIs
<1>5. /\ Len(m.starts) = o - 1 /\ LaidOut(m) /\ \A p \in 1..o - 1 : Given(m, ds, p)
      /\ Aggregate!Bytes(m.items) <= Aggregate!ExpectedUpto(ds)[o - 1]
      /\ AllWell(ds) => SimDone(m, ds, o - 1)
  BY Zenon DEF DoneOK
<1>6. /\ LaidOut(b) /\ Len(b.starts) = o
      /\ \A p \in 1..o - 1 : BlockOf(b, p) = BlockOf(m, p)
      /\ BlockOf(b, o) = {}
  BY <1>1, <1>4, <1>5, BlockBegins
<1>7. IdsSoFar(b, ds[o], 0)
  <2>1. \A i : ~Has(b, Len(b.starts), i)
    BY <1>6 DEF Has
  <2>2. \A i \in 1..0 : FALSE
    OBVIOUS
  <2> QED  BY <1>3, <2>1, <2>2, Zenon DEF IdsSoFar
<1>8. \A p \in 1..o - 1 : Given(b, ds, p)
  <2>1. \A p \in 1..o - 1 : \A i : Has(m, p, i) => Has(b, p, i)
    BY <1>3, <1>6 DEF Has
  <2> QED  BY <1>5, <2>1, Zenon DEF Given
<1>9. Aggregate!Bytes(b.items) - Extra(b)
        <= Aggregate!ExpectedUpto(ds)[o - 1] + 1 + Aggregate!BytesUpto(ds[o])[0]
  <2>1. Aggregate!PushItem \in AggItem /\ Aggregate!PushItem.bytes = 1
    BY DEF Aggregate!PushItem, AggItem, Aggregate!Tags
  <2>2. Aggregate!Bytes(m.items) \in Nat /\ Aggregate!Bytes(b.items) = Aggregate!Bytes(m.items) + 1
    BY <1>3, <2>1, BytesAppend, MergeParts
  <2>3. Aggregate!BytesUpto(ds[o])[0] = 0
    BY <1>4, BytesGo
  <2>4. Aggregate!ExpectedUpto(ds)[o - 1] \in Nat
    BY <1>4, ExpectedGo
  <2>5. Extra(b) = 0
    BY <1>3, Zenon DEF Extra
  <2> QED  BY <1>5, <2>2, <2>3, <2>4, <2>5
<1>10. AllWell(ds) => SimSoFar(b, ds, o, 0)
  <2>1. Aggregate!Analyse(Aggregate!Begun(m).items).error = "None"
    BY Zenon DEF Good
  <2> QED  BY <1>1, <1>4, <1>5, <2>1, SimBegins
<1>11. MidOK(b, ds, o, 0)
  BY <1>6, <1>7, <1>8, <1>9, <1>10, Zenon DEF MidOK
<1> QED  BY <1>1, <1>11

LEMMA MidStep ==
    ASSUME NEW ds \in Accepted, NEW o \in 1..HidDevices, NEW n \in 1..Len(ds[o]),
           NEW m \in Underway, NEW c \in Underway, MidOK(m, ds, o, n - 1),
           Does(m, ds[o][n], Aggregate!Analyse(ds[o]).implicit, c), Good(c)
    PROVE  MidOK(c, ds, o, n)
<1>1. /\ ds \in Declared /\ ds[o] \in Seq(AggItem) /\ Aggregate!Analyse(ds[o]).error = "None"
      /\ o \in Nat /\ o - 1 \in Nat /\ o \in 1..o /\ o - 1 \in 0..HidDevices
  BY AcceptedIs
<1>2. /\ Len(m.starts) = o /\ LaidOut(m) /\ IdsSoFar(m, ds[o], n - 1)
      /\ \A p \in 1..o - 1 : Given(m, ds, p)
      /\ Aggregate!Bytes(m.items) - Extra(m)
            <= Aggregate!ExpectedUpto(ds)[o - 1] + 1 + Aggregate!BytesUpto(ds[o])[n - 1]
      /\ AllWell(ds) => SimSoFar(m, ds, o, n - 1)
  BY Zenon DEF MidOK
<1>3. ds[o][n] \in AggItem /\ c \in Merges /\ m \in Merges
  BY <1>1 DEF Underway
<1>4. c.starts = m.starts
  BY <1>3, DoesParts
<1>5. /\ LaidOut(c) /\ IdsSoFar(c, ds[o], n)
      /\ \A p \in 1..o : \A i : Has(m, p, i) => Has(c, p, i)
  BY <1>1, <1>2, <1>3, IdsStep
<1>6. \A p \in 1..o - 1 : Given(c, ds, p)
  <2>1. \A p \in 1..o - 1 : p \in 1..o
    BY <1>1
  <2> QED  BY <1>2, <1>5, <2>1, Zenon DEF Given
<1>7. Aggregate!Bytes(c.items) - Extra(c)
        <= Aggregate!ExpectedUpto(ds)[o - 1] + 1 + Aggregate!BytesUpto(ds[o])[n]
  <2>1. Aggregate!Bytes(c.items) - Extra(c) = Aggregate!Bytes(m.items) - Extra(m) + ds[o][n].bytes
    BY <1>1, <1>3, BytesStep
  <2>2. ds[o][n].bytes \in Nat /\ n - 1 \in 0..Len(ds[o])
    BY <1>1, <1>3 DEF AggItem
  <2>3. /\ Aggregate!BytesUpto(ds[o])[n] = Aggregate!BytesUpto(ds[o])[n - 1] + ds[o][n].bytes
        /\ Aggregate!BytesUpto(ds[o])[n - 1] \in Nat
    BY <1>1, <2>2, BytesGo
  <2>4. Aggregate!ExpectedUpto(ds)[o - 1] \in Nat
    BY <1>1, ExpectedGo
  <2>5. Aggregate!Bytes(m.items) \in Nat /\ Extra(m) \in Nat
    <3>1. m.items \in Seq(AggItem)
      BY <1>3, MergeParts
    <3>2. Aggregate!Bytes(m.items) \in Nat
      BY <1>3, <3>1, BytesAppend
    <3>3. Extra(m) \in Nat
      BY DEF Extra
    <3> QED  BY <3>2, <3>3
  <2>6. PICK B, C, E, F, G, x, y :
           /\ B = Aggregate!Bytes(m.items) /\ C = Aggregate!Bytes(c.items) - Extra(c) /\ E = Extra(m)
           /\ F = Aggregate!ExpectedUpto(ds)[o - 1] /\ G = Aggregate!BytesUpto(ds[o])[n - 1]
           /\ x = ds[o][n].bytes /\ y = Aggregate!BytesUpto(ds[o])[n]
    OBVIOUS
  <2>7. /\ B \in Nat /\ E \in Nat /\ F \in Nat /\ G \in Nat /\ x \in Nat
        /\ C = B - E + x /\ B - E <= F + 1 + G /\ y = G + x
    BY <1>2, <2>1, <2>2, <2>3, <2>4, <2>5, <2>6
  <2>8. C <= F + 1 + y
    BY ONLY <2>7
  <2> QED  BY <2>6, <2>8
<1>8. AllWell(ds) => SimSoFar(c, ds, o, n)
  <2>1. ASSUME AllWell(ds) PROVE Aggregate!WellFormed(ds[o])
    BY <2>1 DEF AllWell, Aggregate!Owners
  <2>2. Aggregate!Analyse(c.items).error = "None"
    BY Zenon DEF Good
  <2> QED  BY <1>1, <1>2, <2>1, <2>2, SimStep
<1> QED  BY <1>2, <1>4, <1>5, <1>6, <1>7, <1>8, Zenon DEF MidOK

LEMMA MidEnds ==
    ASSUME NEW ds \in Accepted, NEW o \in 1..HidDevices, NEW m \in Underway, NEW e \in Merges,
           MidOK(m, ds, o, Len(ds[o])), Good(e),
           e.items = Append(m.items, Aggregate!PopItem), e.remaps = m.remaps, e.starts = m.starts
    PROVE  DoneOK(e, ds, o)
<1>1. /\ ds \in Declared /\ ds[o] \in Seq(AggItem) /\ Aggregate!Analyse(ds[o]).error = "None"
      /\ o \in Nat /\ o - 1 \in Nat /\ o \in 1..o /\ o - 1 \in 0..HidDevices /\ Len(ds[o]) \in 0..Len(ds[o])
  BY AcceptedIs
<1>2. /\ Len(m.starts) = o /\ LaidOut(m) /\ IdsSoFar(m, ds[o], Len(ds[o]))
      /\ \A p \in 1..o - 1 : Given(m, ds, p)
      /\ Aggregate!Bytes(m.items) - Extra(m)
            <= Aggregate!ExpectedUpto(ds)[o - 1] + 1 + Aggregate!BytesUpto(ds[o])[Len(ds[o])]
      /\ AllWell(ds) => SimSoFar(m, ds, o, Len(ds[o]))
  BY Zenon DEF MidOK
<1>3. LaidOut(e) /\ \A p : \A i : Has(e, p, i) <=> Has(m, p, i)
  BY <1>2, BlocksKept
<1>4. Given(m, ds, o)
  <2> SUFFICES ASSUME Aggregate!Addressed(ds[o]), NEW i \in Aggregate!NativeIds(ds[o]) PROVE Has(m, o, i)
    BY Zenon DEF Given
  <2>1. CASE Aggregate!Analyse(ds[o]).implicit
    <3>1. i = 0
      BY <2>1 DEF Aggregate!NativeIds
    <3>2. \E j \in 1..Len(ds[o]) : ds[o][j].tag = "Collection"
      BY <2>1, Zenon DEF Aggregate!Addressed
    <3>3. m.inserted /\ Has(m, Len(m.starts), 0)
      BY <1>2, <2>1, <3>2, Zenon DEF IdsSoFar
    <3> QED  BY <1>2, <3>1, <3>3
  <2>2. CASE ~Aggregate!Analyse(ds[o]).implicit
    <3>1. Aggregate!NativeIds(ds[o]) = {ds[o][j].value : j \in {j \in 1..Len(ds[o]) : ds[o][j].tag = "ReportId"}}
      BY <2>2, Zenon DEF Aggregate!NativeIds
    <3>2. PICK j \in 1..Len(ds[o]) : ds[o][j].tag = "ReportId" /\ ds[o][j].value = i
      BY <3>1
    <3>3. Has(m, Len(m.starts), ds[o][j].value)
      BY <1>2, <3>2, Zenon DEF IdsSoFar
    <3> QED  BY <1>2, <3>2, <3>3
  <2> QED  BY <2>1, <2>2
<1>5. \A p \in 1..o : Given(e, ds, p)
  <2>1. \A p \in 1..o : p = o \/ p \in 1..o - 1
    BY <1>1
  <2>2. \A p \in 1..o : Given(m, ds, p)
    BY <1>2, <1>4, <2>1
  <2> QED  BY <1>3, <2>2, Zenon DEF Given
<1>6. Aggregate!Bytes(e.items) <= Aggregate!ExpectedUpto(ds)[o]
  <2>1. m.items \in Seq(AggItem)
    BY MergeParts DEF Underway
  <2>2. Aggregate!PopItem \in AggItem /\ Aggregate!PopItem.bytes = 1
    BY DEF Aggregate!PopItem, AggItem, Aggregate!Tags
  <2>3. Aggregate!Bytes(m.items) \in Nat /\ Aggregate!Bytes(e.items) = Aggregate!Bytes(m.items) + 1
    BY <2>1, <2>2, BytesAppend
  <2>4. Extra(m) \in {0, 2}
    BY DEF Extra
  <2>5. Aggregate!Bytes(ds[o]) = Aggregate!BytesUpto(ds[o])[Len(ds[o])] /\ Aggregate!Bytes(ds[o]) \in Nat
    BY <1>1, BytesGo DEF Aggregate!Bytes
  <2>6. /\ Aggregate!ExpectedUpto(ds)[o] = Aggregate!ExpectedUpto(ds)[o - 1] + Aggregate!Bytes(ds[o]) + 4
        /\ Aggregate!ExpectedUpto(ds)[o - 1] \in Nat
    BY <1>1, ExpectedGo
  <2>7. Aggregate!Bytes(m.items) - Extra(m) <= Aggregate!ExpectedUpto(ds)[o - 1] + 1 + Aggregate!Bytes(ds[o])
    BY <1>2, <2>5
  <2>8. PICK B, E, F, G : /\ B = Aggregate!Bytes(m.items) /\ E = Extra(m)
                          /\ F = Aggregate!ExpectedUpto(ds)[o - 1] /\ G = Aggregate!Bytes(ds[o])
    OBVIOUS
  <2>9. B \in Nat /\ E \in {0, 2} /\ F \in Nat /\ G \in Nat /\ B - E <= F + 1 + G
    BY <2>3, <2>4, <2>5, <2>6, <2>7, <2>8
  <2>10. B + 1 <= F + G + 4
    BY ONLY <2>9
  <2> QED  BY <2>3, <2>6, <2>8, <2>10
<1>7. AllWell(ds) => SimDone(e, ds, o)
  <2>1. ASSUME AllWell(ds) PROVE Aggregate!WellFormed(ds[o])
    BY <2>1 DEF AllWell, Aggregate!Owners
  <2>2. Aggregate!Analyse(e.items).error = "None"
    BY Zenon DEF Good
  <2> QED  BY <1>1, <1>2, <2>1, <2>2, SimEnds
<1> QED  BY <1>2, <1>3, <1>5, <1>6, <1>7, Zenon DEF DoneOK

\* Before the first device.
LEMMA DoneAtFirst ==
    ASSUME NEW ds \in Accepted
    PROVE  DoneOK(Aggregate!Merge0, ds, 0)
<1> DEFINE m == Aggregate!Merge0
<1>1. /\ m.starts = <<>> /\ m.remaps = <<>> /\ m.items = <<>> /\ m.error = "None"
      /\ Len(m.starts) = 0 /\ Len(m.remaps) = 0 /\ Len(m.items) = 0 /\ m.items \in Seq(AggItem)
  BY DEF Aggregate!Merge0
<1> HIDE DEF m
<1>2. LaidOut(m)
  BY <1>1 DEF LaidOut
<1>3. ds \in Declared
  BY DEF Accepted
<1>4. Aggregate!Bytes(m.items) <= Aggregate!ExpectedUpto(ds)[0]
  <2>1. Aggregate!Bytes(m.items) = 0
    BY <1>1, BytesGo DEF Aggregate!Bytes
  <2>2. Aggregate!ExpectedUpto(ds)[0] = 0
    BY <1>3, ExpectedGo
  <2> QED  BY <2>1, <2>2
<1>5. SimDone(m, ds, 0)
  <2>1. Aggregate!Analyse(m.items) = Aggregate!Analysis0
    BY <1>1, AnalysesGo, AnalyseOf
  <2>2. /\ Aggregate!Analysis0.state = Aggregate!Global0 /\ Aggregate!Analysis0.stack = <<>>
        /\ \A k \in Aggregate!Kinds : DOMAIN Aggregate!Analysis0.bits[k] = {}
    BY DEF Aggregate!Analysis0
  <2>3. Agree(m, Whole(ds, 0), Aggregate!Analysis0)
    BY <1>1, <2>2 DEF Agree
  <2> QED  BY <2>1, <2>2, <2>3, Zenon DEF SimDone
<1>6. \A p \in 1..0 : Given(m, ds, p)
  OBVIOUS
<1>7. DoneOK(m, ds, 0)
  BY <1>1, <1>2, <1>4, <1>5, <1>6, Zenon DEF DoneOK
<1> QED  BY <1>7 DEF m

\* One device.
LEMMA MergeStep ==
    ASSUME NEW ds \in Accepted, NEW o \in 1..HidDevices, NEW m \in Merges, Good(m) => DoneOK(m, ds, o - 1),
           Good(Aggregate!MergeDevice(m, ds[o]))
    PROVE  DoneOK(Aggregate!MergeDevice(m, ds[o]), ds, o)
<1> DEFINE d == ds[o]
           K == Aggregate!Copies(m, d)
           e == Aggregate!MergeDevice(m, d)
<1>1. ds \in Declared /\ d \in Seq(AggItem) /\ Aggregate!Analyse(d).error = "None" /\ Len(d) \in Nat
  BY AcceptedIs, Zenon
<1>2. /\ K[0] = Aggregate!Begun(m)
      /\ \A n \in 1..Len(d) : K[n] = Aggregate!CopyItem(K[n - 1], d[n], Aggregate!Analyse(d).implicit)
      /\ \A n \in 0..Len(d) : K[n] \in Underway
  BY <1>1, CopiesGo, Zenon
<1>3. /\ e \in Merges /\ e.items = Append(K[Len(d)].items, Aggregate!PopItem) /\ e.remaps = K[Len(d)].remaps
      /\ e.starts = K[Len(d)].starts /\ e.error = K[Len(d)].error
  BY <1>1, MergeDeviceIs, Zenon
<1>4. Aggregate!PopItem \in AggItem
  BY DEF Aggregate!PopItem, AggItem, Aggregate!Tags
<1>5. Good(e)
  OBVIOUS
<1> HIDE DEF K, e, d
<1>6. Len(d) \in 0..Len(d)
  BY <1>1
<1>7. Good(K[Len(d)])
  <2>1. K[Len(d)].items \in Seq(AggItem)
    BY <1>2, <1>6, MergeParts DEF Underway
  <2>2. Aggregate!Analyse(Append(K[Len(d)].items, Aggregate!PopItem)).error = "None"
    BY <1>3, <1>5 DEF Good
  <2>3. Aggregate!Analyse(K[Len(d)].items).error = "None"
    BY <1>4, <2>1, <2>2, AppendActs
  <2> QED  BY <1>3, <1>5, <2>3 DEF Good
<1> DEFINE T == {n \in 0..Len(d) : Good(K[n]) => MidOK(K[n], ds, o, n)}
<1>8. 0 \in T
  <2> SUFFICES ASSUME Good(K[0]) PROVE MidOK(K[0], ds, o, 0)
    BY <1>1
  <2>1. Good(m)
    <3>1. m.items \in Seq(AggItem)
      BY MergeParts, Zenon
    <3>2. K[0].items = Append(m.items, Aggregate!PushItem) /\ K[0].error = m.error
      BY <1>2, BegunTyped
    <3>3. Aggregate!PushItem \in AggItem
      BY DEF Aggregate!PushItem, AggItem, Aggregate!Tags
    <3>4. Aggregate!Analyse(Append(m.items, Aggregate!PushItem)).error = "None" /\ m.error = "None"
      BY <3>2 DEF Good
    <3>5. Aggregate!Analyse(m.items).error = "None"
      BY <3>1, <3>3, <3>4, AppendActs
    <3> QED  BY <3>4, <3>5 DEF Good
  <2>2. DoneOK(m, ds, o - 1)
    BY <2>1
  <2> QED  BY <1>2, <2>2, MidBegins
<1>9. ASSUME NEW n \in 1..Len(d), n - 1 \in T PROVE n \in T
  <2>1. n \in 0..Len(d) /\ n - 1 \in 0..Len(d) /\ n \in 1..Len(d)
    BY <1>1
  <2> SUFFICES ASSUME Good(K[n]) PROVE MidOK(K[n], ds, o, n)
    BY <2>1
  <2>2. K[n - 1] \in Underway /\ K[n] \in Underway /\ d[n] \in AggItem
        /\ K[n] = Aggregate!CopyItem(K[n - 1], d[n], Aggregate!Analyse(d).implicit)
    BY <1>1, <1>2, <2>1
  <2>3. K[n].error = "None"
    BY DEF Good
  <2>4. K[n - 1].error = "None" /\ Does(K[n - 1], d[n], Aggregate!Analyse(d).implicit, K[n])
    BY <2>2, <2>3, CopyActs, Zenon
  <2>5. Aggregate!Analyse(K[n - 1].items).error = "None"
    <3>1. Aggregate!Analyse(K[n].items).error = "None"
      BY DEF Good
    <3> QED  BY <2>2, <2>4, <3>1, DoesNotRefuse, Zenon
  <2>6. Good(K[n - 1])
    BY <2>4, <2>5, Zenon DEF Good
  <2>7. MidOK(K[n - 1], ds, o, n - 1)
    BY <1>9, <2>6
  <2>8. /\ n \in 1..Len(ds[o]) /\ Does(K[n - 1], ds[o][n], Aggregate!Analyse(ds[o]).implicit, K[n])
    BY <2>1, <2>4 DEF d
  <2> QED  BY <2>2, <2>7, <2>8, MidStep, Zenon
<1>10. Len(d) \in T
  <2> HIDE DEF T
  <2>1. \A i \in 0..Len(d) : i \in T
    BY <1>1, <1>8, <1>9, Upwards
  <2> QED  BY <2>1, <1>6
<1>11. MidOK(K[Len(d)], ds, o, Len(ds[o])) /\ K[Len(d)] \in Underway
  BY <1>2, <1>6, <1>7, <1>10 DEF d
<1>12. DoneOK(e, ds, o)
  BY <1>3, <1>5, <1>11, MidEnds, Zenon
<1> QED  BY <1>12 DEF e, d

\* All of them.
LEMMA MergeDone ==
    ASSUME NEW ds \in Accepted, Good(Aggregate!Combine(ds))
    PROVE  DoneOK(Aggregate!Combine(ds), ds, HidDevices) /\ Aggregate!Combine(ds) \in Merges
<1> DEFINE C == Aggregate!Combined(ds)
           T == {o \in 0..HidDevices : Good(C[o]) => DoneOK(C[o], ds, o)}
<1>1. /\ C[0] = Aggregate!Merge0
      /\ \A o \in 1..HidDevices : C[o] = Aggregate!MergeDevice(C[o - 1], ds[o])
      /\ \A o \in 0..HidDevices : C[o] \in Merges
  <2>1. ds \in Declared
    BY DEF Accepted
  <2> QED  BY <2>1, CombinedGo, Zenon
<1>2. HidDevices \in Nat
  BY AggregateAssumption
<1>3. Aggregate!Combine(ds) = C[HidDevices]
  BY Zenon DEF Aggregate!Combine
<1> HIDE DEF C
<1>4. 0 \in T
  BY <1>1, <1>2, DoneAtFirst
<1>5. ASSUME NEW o \in 1..HidDevices, o - 1 \in T PROVE o \in T
  <2>1. o \in 0..HidDevices /\ o - 1 \in 0..HidDevices
    BY <1>2
  <2>2. C[o - 1] \in Merges /\ C[o] = Aggregate!MergeDevice(C[o - 1], ds[o])
    BY <1>1, <2>1
  <2>3. Good(C[o - 1]) => DoneOK(C[o - 1], ds, o - 1)
    BY <1>5
  <2>4. ASSUME Good(C[o]) PROVE DoneOK(C[o], ds, o)
    <3>1. Good(Aggregate!MergeDevice(C[o - 1], ds[o]))
      BY <2>2, <2>4
    <3> QED  BY <2>2, <2>3, <3>1, MergeStep
  <2> QED  BY <2>1, <2>4
<1>6. HidDevices \in T
  <2> HIDE DEF T
  <2>1. \A i \in 0..HidDevices : i \in T
    BY <1>2, <1>4, <1>5, Upwards
  <2> QED  BY <2>1, <1>2
<1>7. HidDevices \in 0..HidDevices
  BY <1>2
<1> QED  BY <1>1, <1>3, <1>6, <1>7

\* The merged descriptor, once every device is done.
Merged(m, ds) == m \in Merges /\ DoneOK(m, ds, HidDevices)

LEMMA MergedIs ==
    ASSUME NEW ds, NEW m, Merged(m, ds)
    PROVE  /\ m \in Merges /\ LaidOut(m) /\ Len(m.starts) = HidDevices
           /\ HidDevices \in Nat /\ HidDevices > 0 /\ Len(m.remaps) \in Nat
           /\ \A p \in 1..HidDevices : m.starts[p] \in Nat /\ BlockEnd(m, p) \in Nat
           /\ \A p \in 1..HidDevices : \A h \in BlockOf(m, p) : h \in 1..Len(m.remaps) /\ m.remaps[h] \in Nat
<1>1. m \in Merges /\ LaidOut(m) /\ Len(m.starts) = HidDevices
  BY Zenon DEF Merged, DoneOK
<1>2. HidDevices \in Nat /\ HidDevices > 0
  BY AggregateAssumption
<1>3. Len(m.remaps) \in Nat
  BY <1>1, MergeParts, Zenon
<1>4. \A p \in 1..Len(m.starts) : m.starts[p] \in Nat /\ BlockEnd(m, p) \in Nat
  BY <1>1, BlockIs
<1>5. \A p \in 1..Len(m.starts) : \A h \in BlockOf(m, p) : h \in 1..Len(m.remaps) /\ m.remaps[h] \in Nat
  BY <1>1, BlockIs
<1> QED  BY <1>1, <1>2, <1>3, <1>4, <1>5

\* The owner of a host id is the device whose block it is in.
LEMMA OwnerIs ==
    ASSUME NEW ds, NEW m, Merged(m, ds), NEW p \in 1..HidDevices, NEW h \in BlockOf(m, p)
    PROVE  Aggregate!OwnerOf(m, h - 1) = p
<1>1. /\ m \in Merges /\ LaidOut(m) /\ Len(m.starts) = HidDevices
      /\ HidDevices \in Nat /\ h \in 1..Len(m.remaps) /\ Len(m.remaps) \in Nat
      /\ \A q \in 1..HidDevices : m.starts[q] \in Nat /\ BlockEnd(m, q) \in Nat
  BY MergedIs
<1>2. m.starts[p] <= h - 1 /\ h <= BlockEnd(m, p)
  BY <1>1 DEF BlockOf
<1>3. ASSUME NEW q \in 1..HidDevices, q > p PROVE m.starts[q] > h - 1
  <2>1. p # Len(m.starts) /\ p + 1 \in 1..HidDevices /\ p + 1 <= q
    BY <1>1, <1>3
  <2>2. h <= m.starts[p + 1]
    BY <1>2, <2>1 DEF BlockEnd
  <2>3. m.starts[p + 1] <= m.starts[q]
    BY <1>1, <1>3, <2>1 DEF LaidOut
  <2>4. PICK n, t : n = m.starts[p + 1] /\ t = m.starts[q]
    OBVIOUS
  <2>5. n \in Nat /\ t \in Nat /\ h \in Nat /\ h <= n /\ n <= t
    BY <1>1, <2>1, <2>2, <2>3, <2>4
  <2>6. t > h - 1
    BY ONLY <2>5
  <2> QED  BY <2>4, <2>6
<1> DEFINE Owns(o) == /\ m.starts[o] <= h - 1
                      /\ \A q \in Aggregate!Owners : q > o => m.starts[q] > h - 1
<1>4. p \in Aggregate!Owners /\ Owns(p)
  BY <1>2, <1>3 DEF Aggregate!Owners
<1>5. ASSUME NEW o \in Aggregate!Owners, Owns(o) PROVE o = p
  <2>1. o \in 1..HidDevices
    BY DEF Aggregate!Owners
  <2>2. CASE o > p
    BY <1>1, <1>3, <1>5, <2>1, <2>2
  <2>3. CASE o < p
    BY <1>1, <1>2, <1>4, <1>5, <2>1, <2>3
  <2> QED  BY <1>1, <2>1, <2>2, <2>3
<1>6. Aggregate!OwnerOf(m, h - 1) = CHOOSE o \in Aggregate!Owners : Owns(o)
  BY DEF Aggregate!OwnerOf
<1> HIDE DEF Owns
<1> QED  BY <1>4, <1>5, <1>6

\* Every host id is in a device's block.
LEMMA BlockFound ==
    ASSUME NEW ds, NEW m, Merged(m, ds), NEW h \in 1..Len(m.remaps)
    PROVE  \E p \in 1..HidDevices : h \in BlockOf(m, p)
<1>1. /\ m \in Merges /\ LaidOut(m) /\ Len(m.starts) = HidDevices
      /\ HidDevices \in Nat /\ HidDevices > 0 /\ Len(m.remaps) \in Nat
      /\ \A q \in 1..HidDevices : m.starts[q] \in Nat /\ BlockEnd(m, q) \in Nat
  BY MergedIs
<1> DEFINE T == {n \in 0..HidDevices - 1 : m.starts[HidDevices - n] <= h - 1}
<1>2. HidDevices - 1 \in T
  <2>1. m.starts # <<>>
    BY <1>1
  <2>2. m.starts[1] = 0
    BY <1>1, <2>1 DEF LaidOut
  <2>3. HidDevices - (HidDevices - 1) = 1 /\ HidDevices - 1 \in 0..HidDevices - 1 /\ 0 <= h - 1
    BY <1>1
  <2> QED  BY <2>2, <2>3
<1>3. T \in SUBSET Nat /\ T # {}
  <2>1. T # {}
    <3> HIDE DEF T
    <3> QED  BY <1>2
  <2>2. T \subseteq 0..HidDevices - 1 /\ 0..HidDevices - 1 \subseteq Nat
    BY <1>1
  <2> HIDE DEF T
  <2> QED  BY <2>1, <2>2
<1>4. PICK n \in T : \A y \in T : n <= y
  <2> HIDE DEF T
  <2> QED  BY <1>3, LeastOf
<1> DEFINE p == HidDevices - n
<1>5. n \in 0..HidDevices - 1 /\ p \in 1..HidDevices /\ m.starts[p] <= h - 1
  BY <1>1, <1>4
<1>6. h <= BlockEnd(m, p)
  <2>1. CASE p = HidDevices
    BY <1>1, <2>1 DEF BlockEnd
  <2>2. CASE p # HidDevices
    <3>1. n - 1 \in 0..HidDevices - 1 /\ HidDevices - (n - 1) = p + 1 /\ p + 1 \in 1..HidDevices /\ ~(n <= n - 1)
      BY <1>1, <1>5, <2>2
    <3>2. n - 1 \notin T
      BY <1>4, <3>1
    <3>3. m.starts[p + 1] > h - 1
      BY <1>1, <3>1, <3>2
    <3>4. BlockEnd(m, p) = m.starts[p + 1]
      BY <1>1, <2>2 DEF BlockEnd
    <3> QED  BY <1>1, <3>1, <3>3, <3>4
  <2> QED  BY <2>1, <2>2
<1> HIDE DEF p
<1>7. h \in BlockOf(m, p)
  BY <1>1, <1>5, <1>6 DEF BlockOf
<1> QED  BY <1>5, <1>7

\* The two maps, at an id of a device.
LEMMA RouteIs ==
    ASSUME NEW ds, NEW m, Merged(m, ds), NEW p \in 1..HidDevices, NEW h \in BlockOf(m, p)
    PROVE  /\ Aggregate!Route(m, h) = [owner |-> p, native |-> m.remaps[h]]
           /\ Aggregate!HostId(m, p, m.remaps[h]) = h
<1>1. /\ m \in Merges /\ LaidOut(m) /\ Len(m.starts) = HidDevices /\ h \in 1..Len(m.remaps)
      /\ \A g \in BlockOf(m, p) : g \in 1..Len(m.remaps)
  BY MergedIs
<1>2. Aggregate!Route(m, h) = [owner |-> p, native |-> m.remaps[h]]
  <2>1. Aggregate!OwnerOf(m, h - 1) = p
    BY OwnerIs
  <2> QED  BY <1>1, <2>1 DEF Aggregate!Route
<1> DEFINE found == {g \in BlockOf(m, p) : m.remaps[g] = m.remaps[h]}
<1>3. found = {h}
  BY <1>1 DEF LaidOut
<1>4. Aggregate!HostId(m, p, m.remaps[h]) = IF found = {} THEN None ELSE CHOOSE g \in found : \A i \in found : g <= i
  BY <1>1 DEF Aggregate!HostId, BlockOf, BlockEnd
<1>5. Aggregate!HostId(m, p, m.remaps[h]) = CHOOSE g \in {h} : \A i \in {h} : g <= i
  <2> HIDE DEF found
  <2>1. found # {}
    BY <1>3
  <2> QED  BY <1>3, <1>4, <2>1
<1>6. h <= h
  BY <1>1
<1> QED  BY <1>2, <1>5, <1>6

\* An id a device has got leads to a host id of its block; one it has not, nowhere.
LEMMA HostIdOf ==
    ASSUME NEW ds, NEW m, Merged(m, ds), NEW p \in 1..HidDevices, NEW i
    PROVE  IF Has(m, p, i)
           THEN \E h \in BlockOf(m, p) : m.remaps[h] = i /\ Aggregate!HostId(m, p, i) = h
           ELSE Aggregate!HostId(m, p, i) = None
<1>1. CASE Has(m, p, i)
  <2>1. PICK h \in BlockOf(m, p) : m.remaps[h] = i
    BY <1>1 DEF Has
  <2>2. Aggregate!HostId(m, p, m.remaps[h]) = h
    BY RouteIs
  <2> QED  BY <1>1, <2>1, <2>2
<1>2. CASE ~Has(m, p, i)
  <2>1. Len(m.starts) = HidDevices
    BY MergedIs
  <2>2. {g \in BlockOf(m, p) : m.remaps[g] = i} = {}
    BY <1>2 DEF Has
  <2>3. Aggregate!HostId(m, p, i) = None
    BY <2>1, <2>2 DEF Aggregate!HostId, BlockOf, BlockEnd
  <2> QED  BY <1>2, <2>3
<1> QED  BY <1>1, <1>2

\* Routing there and back.
LEMMA RoutesHold ==
    ASSUME Merged(map, descs)
    PROVE  Aggregate!RoutesInverse
<1>1. ASSUME NEW h \in 1..Len(map.remaps)
      PROVE  Aggregate!HostId(map, Aggregate!Route(map, h).owner, Aggregate!Route(map, h).native) = h
  <2>1. PICK p \in 1..HidDevices : h \in BlockOf(map, p)
    BY BlockFound
  <2>2. Aggregate!Route(map, h) = [owner |-> p, native |-> map.remaps[h]]
        /\ Aggregate!HostId(map, p, map.remaps[h]) = h
    BY <2>1, RouteIs
  <2> QED  BY <2>2
<1>2. ASSUME NEW o \in Aggregate!Owners, Aggregate!Addressed(descs[o]),
             NEW id \in Aggregate!NativeIds(descs[o])
      PROVE  Aggregate!Route(map, Aggregate!HostId(map, o, id)) = [owner |-> o, native |-> id]
  <2>1. o \in 1..HidDevices
    BY DEF Aggregate!Owners
  <2>2. Given(map, descs, o)
    BY <2>1, Zenon DEF Merged, DoneOK
  <2>3. Has(map, o, id)
    BY <1>2, <2>2, Zenon DEF Given
  <2>4. PICK h \in BlockOf(map, o) : map.remaps[h] = id /\ Aggregate!HostId(map, o, id) = h
    BY <2>1, <2>3, HostIdOf
  <2>5. Aggregate!Route(map, h) = [owner |-> o, native |-> map.remaps[h]]
    BY <2>1, RouteIs
  <2> QED  BY <2>4, <2>5
<1> QED  BY <1>1, <1>2, Zenon DEF Aggregate!RoutesInverse

LEMMA FitsHold ==
    ASSUME Merged(map, descs)
    PROVE  Aggregate!FitsExpected
<1>1. Aggregate!Bytes(map.items) <= Aggregate!ExpectedUpto(descs)[HidDevices]
  BY Zenon DEF Merged, DoneOK
<1> QED  BY <1>1 DEF Aggregate!FitsExpected, Aggregate!Expected

\* The largest report of an analysis.
SizesOf(a, k) == {Aggregate!BitsOf(a.bits, k, i) : i \in DOMAIN a.bits[k]} \cup {0}

Largest(a, k, n) == n \in SizesOf(a, k) /\ \A s \in SizesOf(a, k) : s <= n

LEMMA GreatestOf ==
    ASSUME NEW N \in Nat, NEW T \in SUBSET (0..N), T # {}
    PROVE  \E n \in T : \A s \in T : s <= n
<1> DEFINE U == {n \in 0..N : N - n \in T}
<1>1. PICK t : t \in T
  OBVIOUS
<1>2. N - t \in U
  BY <1>1
<1>3. U \in SUBSET Nat
  OBVIOUS
<1>4. PICK u \in U : \A y \in U : u <= y
  <2> HIDE DEF U
  <2> QED  BY <1>2, <1>3, LeastOf
<1>5. N - u \in T
  BY <1>4
<1>6. ASSUME NEW s \in T PROVE s <= N - u
  <2>1. s \in 0..N /\ N - s \in 0..N /\ N - (N - s) = s /\ u \in 0..N
    BY <1>4
  <2>2. N - s \in U
    BY <2>1
  <2>3. u <= N - s
    BY <1>4, <2>2
  <2> QED  BY <2>1, <2>3
<1> QED  BY <1>5, <1>6

LEMMA SizesBound ==
    ASSUME NEW a \in AggAnalysis, NEW k \in Aggregate!Kinds
    PROVE  SizesOf(a, k) \in SUBSET (0..MaxBits) /\ 0 \in SizesOf(a, k)
<1>1. \A i : Aggregate!BitsOf(a.bits, k, i) \in 0..MaxBits
  BY BitsWhere, Zenon
<1>2. 0 \in 0..MaxBits
  BY AggregateAssumption
<1> QED  BY <1>1, <1>2 DEF SizesOf

LEMMA LargestIs ==
    ASSUME NEW a \in AggAnalysis, NEW k \in Aggregate!Kinds
    PROVE  \E n \in 0..MaxBits : Largest(a, k, n) /\ Aggregate!MaxReportBytes(a, k) = (n + 7) \div 8
<1> DEFINE S == SizesOf(a, k)
<1>1. S \in SUBSET (0..MaxBits) /\ 0 \in S /\ MaxBits \in Nat
  BY SizesBound, AggregateAssumption
<1>2. \E n \in S : \A s \in S : s <= n
  <2> HIDE DEF S
  <2>1. S # {}
    BY <1>1
  <2> QED  BY <1>1, <2>1, GreatestOf, Zenon
<1>3. Aggregate!MaxReportBytes(a, k) = ((CHOOSE n \in S : \A s \in S : s <= n) + 7) \div 8
  BY Zenon DEF Aggregate!MaxReportBytes, SizesOf
<1> DEFINE n == CHOOSE n \in S : \A s \in S : s <= n
<1>4. n \in S /\ \A s \in S : s <= n
  <2> HIDE DEF S
  <2> QED  BY <1>2
<1>5. Largest(a, k, n)
  BY <1>4 DEF Largest
<1>6. n \in 0..MaxBits
  <2> HIDE DEF n, S
  <2> QED  BY <1>1, <1>4
<1>7. Aggregate!MaxReportBytes(a, k) = (n + 7) \div 8
  BY <1>3
<1> HIDE DEF n, S
<1> QED  BY <1>5, <1>6, <1>7

\* Where a report has a size, it has an entry.
LEMMA SizeHeld ==
    ASSUME NEW a, NEW k, NEW i
    PROVE  Aggregate!BitsOf(a.bits, k, i) \in SizesOf(a, k)
<1>1. CASE i \in DOMAIN a.bits[k]
  BY <1>1 DEF SizesOf
<1>2. CASE i \notin DOMAIN a.bits[k]
  BY <1>2 DEF SizesOf, Aggregate!BitsOf
<1> QED  BY <1>1, <1>2

\* The merged descriptor's sizes are the devices'.
LEMMA SizesMerged ==
    ASSUME Merged(map, descs), descs \in Accepted, AllWell(descs), NEW k \in Aggregate!Kinds
    PROVE  /\ \A o \in 1..HidDevices :
                 SizesOf(Aggregate!Analyse(descs[o]), k) \subseteq SizesOf(Aggregate!Analyse(map.items), k)
           /\ \A s \in SizesOf(Aggregate!Analyse(map.items), k) :
                 \E o \in 1..HidDevices : s \in SizesOf(Aggregate!Analyse(descs[o]), k)
<1> DEFINE M == Aggregate!Analyse(map.items)
           an == Whole(descs, HidDevices)
<1>1. Agree(map, an, M)
  BY Zenon DEF Merged, DoneOK, SimDone
<1>2. Len(map.starts) = HidDevices /\ HidDevices \in Nat /\ HidDevices > 0
  BY MergedIs
<1>3. \A o \in 1..HidDevices : an[o] = Aggregate!Analyse(descs[o])
  BY DEF Whole
<1> HIDE DEF M, an
<1>4. \A h \in DOMAIN M.bits[k] : h \in 1..Len(map.remaps)
  BY <1>1, Zenon DEF Agree
<1>5. \A p \in 1..HidDevices : \A h \in BlockOf(map, p) :
         Aggregate!BitsOf(M.bits, k, h) = Aggregate!BitsOf(an[p].bits, k, map.remaps[h])
  BY <1>1, <1>2, Zenon DEF Agree
<1>6. \A p \in 1..HidDevices : \A i \in DOMAIN an[p].bits[k] : Has(map, p, i)
  BY <1>1, <1>2, Zenon DEF Agree
<1>7. ASSUME NEW o \in 1..HidDevices, NEW s \in SizesOf(an[o], k) PROVE s \in SizesOf(M, k)
  <2>1. CASE s = 0
    BY <2>1 DEF SizesOf
  <2>2. CASE s # 0
    <3>1. PICK i \in DOMAIN an[o].bits[k] : s = Aggregate!BitsOf(an[o].bits, k, i)
      BY <1>7, <2>2 DEF SizesOf
    <3>2. PICK h \in BlockOf(map, o) : map.remaps[h] = i
      BY <1>6, <3>1 DEF Has
    <3>3. s = Aggregate!BitsOf(M.bits, k, h)
      BY <1>5, <3>1, <3>2
    <3> QED  BY <3>3, SizeHeld
  <2> QED  BY <2>1, <2>2
<1>8. ASSUME NEW s \in SizesOf(M, k) PROVE \E o \in 1..HidDevices : s \in SizesOf(an[o], k)
  <2>1. CASE s = 0
    <3>1. 1 \in 1..HidDevices /\ s \in SizesOf(an[1], k)
      BY <1>2, <2>1 DEF SizesOf
    <3> QED  BY <3>1
  <2>2. CASE s # 0
    <3>1. PICK h \in DOMAIN M.bits[k] : s = Aggregate!BitsOf(M.bits, k, h)
      BY <1>8, <2>2 DEF SizesOf
    <3>2. PICK p \in 1..HidDevices : h \in BlockOf(map, p)
      BY <1>4, <3>1, BlockFound
    <3>3. s = Aggregate!BitsOf(an[p].bits, k, map.remaps[h])
      BY <1>5, <3>1, <3>2
    <3> QED  BY <3>3, SizeHeld
  <2> QED  BY <2>1, <2>2
<1>9. \A o \in 1..HidDevices : SizesOf(an[o], k) \subseteq SizesOf(M, k)
  BY <1>7
<1>10. \A s \in SizesOf(M, k) : \E o \in 1..HidDevices : s \in SizesOf(an[o], k)
  BY <1>8
<1> QED  BY <1>3, <1>9, <1>10 DEF M

LEMMA SizesHold ==
    ASSUME Merged(map, descs), descs \in Accepted
    PROVE  Aggregate!SizesKept
<1> SUFFICES ASSUME AllWell(descs), NEW k \in Aggregate!Kinds
             PROVE  LET sizes == {Aggregate!MaxReportBytes(Aggregate!Analyse(descs[o]), k) : o \in Aggregate!Owners}
                    IN  /\ \A n \in sizes : n <= Aggregate!MaxReportBytes(Aggregate!Analyse(map.items), k)
                        /\ Aggregate!MaxReportBytes(Aggregate!Analyse(map.items), k) \in sizes
  BY Zenon DEF Aggregate!SizesKept, AllWell
<1> DEFINE M == Aggregate!Analyse(map.items)
           an(o) == Aggregate!Analyse(descs[o])
<1>1. M \in AggAnalysis
  <2>1. map.items \in Seq(AggItem)
    BY MergedIs, MergeParts
  <2> QED  BY <2>1, AnalyseOf
<1>2. \A o \in 1..HidDevices : an(o) \in AggAnalysis
  <2> TAKE o \in 1..HidDevices
  <2>1. descs[o] \in Seq(AggItem)
    BY AcceptedIs
  <2> QED  BY <2>1, AnalyseOf
<1>3. \A o \in 1..HidDevices : SizesOf(an(o), k) \subseteq SizesOf(M, k)
  BY SizesMerged
<1>4. \A s \in SizesOf(M, k) : \E o \in 1..HidDevices : s \in SizesOf(an(o), k)
  BY SizesMerged
<1> HIDE DEF M, an
<1>5. PICK n \in 0..MaxBits : Largest(M, k, n) /\ Aggregate!MaxReportBytes(M, k) = (n + 7) \div 8
  BY <1>1, LargestIs
<1>6. MaxBits \in Nat
  BY AggregateAssumption
<1>7. ASSUME NEW o \in 1..HidDevices PROVE Aggregate!MaxReportBytes(an(o), k) <= Aggregate!MaxReportBytes(M, k)
  <2>1. PICK s \in 0..MaxBits : Largest(an(o), k, s) /\ Aggregate!MaxReportBytes(an(o), k) = (s + 7) \div 8
    BY <1>2, LargestIs
  <2>2. s <= n
    BY <1>3, <1>5, <2>1 DEF Largest
  <2>3. s \in Nat /\ n \in Nat
    BY <1>6
  <2>4. (s + 7) \div 8 <= (n + 7) \div 8
    BY ONLY <2>2, <2>3
  <2> QED  BY <1>5, <2>1, <2>4
<1>8. PICK p \in 1..HidDevices : n \in SizesOf(an(p), k)
  BY <1>4, <1>5 DEF Largest
<1>9. Aggregate!MaxReportBytes(M, k) = Aggregate!MaxReportBytes(an(p), k)
  <2>1. PICK s \in 0..MaxBits : Largest(an(p), k, s) /\ Aggregate!MaxReportBytes(an(p), k) = (s + 7) \div 8
    BY <1>2, LargestIs
  <2>2. s <= n /\ n <= s
    BY <1>3, <1>5, <1>8, <2>1 DEF Largest
  <2>3. s = n
    BY <1>6, <2>2
  <2> QED  BY <1>5, <2>1, <2>3
<1> DEFINE sizes == {Aggregate!MaxReportBytes(an(o), k) : o \in Aggregate!Owners}
<1>10. \A s \in sizes : s <= Aggregate!MaxReportBytes(M, k)
  BY <1>7 DEF Aggregate!Owners
<1>11. Aggregate!MaxReportBytes(M, k) \in sizes
  BY <1>9 DEF Aggregate!Owners
<1> QED  BY <1>10, <1>11 DEF M, an

\* The aggregate: its map is the merge of what was accepted, and what waits in it
\* and what came out of it stands under ids of its devices.
Receipts == [id : Nat, owner : Aggregate!Owners, native : Nat]

AggInv ==
    /\ descs \in Accepted /\ map = Aggregate!Combine(descs)
    /\ steps \in 0..MaxSteps
    /\ Aggregate!Built =>
          /\ aPending = [o \in Aggregate!Owners |-> aPending[o]]
          /\ \A o \in Aggregate!Owners : aPending[o] \in Seq(Aggregate!NativeIds(descs[o]))
          /\ received \in Seq(Receipts) /\ Aggregate!Attributed /\ Aggregate!AccessesRight

LEMMA MergedBuilt ==
    ASSUME AggInv
    PROVE  Aggregate!Built => Merged(map, descs)
<1>1. descs \in Accepted /\ map = Aggregate!Combine(descs)
  BY DEF AggInv
<1> SUFFICES ASSUME Aggregate!Built PROVE Merged(map, descs)
  OBVIOUS
<1>2. Good(map)
  BY Zenon DEF Aggregate!Built, Good
<1>3. DoneOK(Aggregate!Combine(descs), descs, HidDevices) /\ Aggregate!Combine(descs) \in Merges
  <2>1. Good(Aggregate!Combine(descs))
    BY <1>1, <1>2
  <2> QED  BY <1>1, <2>1, MergeDone
<1> QED  BY <1>1, <1>3 DEF Merged

LEMMA NativeTyped ==
    ASSUME NEW d \in Seq(AggItem), NEW i \in Aggregate!NativeIds(d)
    PROVE  i \in Nat
<1>1. CASE Aggregate!Analyse(d).implicit
  BY <1>1 DEF Aggregate!NativeIds
<1>2. CASE ~Aggregate!Analyse(d).implicit
  <2>1. Aggregate!NativeIds(d) = {d[j].value : j \in {j \in 1..Len(d) : d[j].tag = "ReportId"}}
    BY <1>2, Zenon DEF Aggregate!NativeIds
  <2>2. PICK j \in 1..Len(d) : d[j].value = i
    BY <2>1
  <2>3. d[j] \in AggItem
    OBVIOUS
  <2> QED  BY <2>2, <2>3 DEF AggItem
<1> QED  BY <1>1, <1>2

LEMMA AggInit == Aggregate!Init => AggInv
<1> SUFFICES ASSUME Aggregate!Init PROVE AggInv
  OBVIOUS
<1>1. /\ descs \in [Aggregate!Owners -> {d \in Descriptors : Aggregate!Analyse(d).error = "None"}]
      /\ map = Aggregate!Combine(descs) /\ steps = 0 /\ received = <<>> /\ aAsked = None
      /\ aPending = [o \in Aggregate!Owners |-> <<>>]
  BY DEF Aggregate!Init
<1>2. Descriptors \subseteq Seq(AggItem) /\ MaxSteps \in Nat
  BY AggregateAssumption DEF AggItem
<1>3. descs \in Accepted
  BY <1>1, <1>2 DEF Accepted, Declared
<1>4. Aggregate!Attributed /\ Aggregate!AccessesRight
  BY <1>1 DEF Aggregate!Attributed, Aggregate!AccessesRight
<1>5. received \in Seq(Receipts) /\ \A o \in Aggregate!Owners : aPending[o] \in Seq(Aggregate!NativeIds(descs[o]))
  BY <1>1
<1>6. aPending = [o \in Aggregate!Owners |-> aPending[o]]
  BY <1>1
<1>7. steps \in 0..MaxSteps
  BY <1>1, <1>2
<1> QED  BY <1>1, <1>3, <1>4, <1>5, <1>6, <1>7, Zenon DEF AggInv

\* The host asks for a report.
LEMMA AccessKeeps ==
    ASSUME AggInv, NEW h \in 0..ReportCount + 1, Aggregate!Access(h)
    PROVE  AggInv'
<1>1. /\ Aggregate!Built /\ aAsked' = h /\ reached' = Aggregate!Route(map, h)
      /\ UNCHANGED <<descs, map, aPending, received>>
      /\ steps < MaxSteps /\ steps' = steps + 1
  BY DEF Aggregate!Access, Aggregate!Step
<1>2. Merged(map, descs)
  BY <1>1, MergedBuilt
<1>3. IF Aggregate!Route(map, h) = Aggregate!Nowhere THEN h \notin 1..Len(map.remaps)
      ELSE Aggregate!HostId(map, Aggregate!Route(map, h).owner, Aggregate!Route(map, h).native) = h
  <2>1. CASE h \in 1..Len(map.remaps)
    <3>1. PICK p \in 1..HidDevices : h \in BlockOf(map, p)
      BY <1>2, <2>1, BlockFound
    <3>2. /\ Aggregate!Route(map, h) = [owner |-> p, native |-> map.remaps[h]]
          /\ Aggregate!HostId(map, p, map.remaps[h]) = h
      BY <1>2, <3>1, RouteIs
    <3>3. p # None
      BY NoneAssumption
    <3>4. Aggregate!Route(map, h) # Aggregate!Nowhere
      BY <3>2, <3>3 DEF Aggregate!Nowhere
    <3> QED  BY <3>2, <3>4
  <2>2. CASE h \notin 1..Len(map.remaps)
    BY <2>2 DEF Aggregate!Route, Aggregate!Nowhere
  <2> QED  BY <2>1, <2>2
<1>4. Aggregate!AccessesRight'
  BY <1>1, <1>3 DEF Aggregate!AccessesRight, Aggregate!Nowhere, Aggregate!HostId
<1>5. Aggregate!Attributed'
  <2>1. Aggregate!Attributed' = Aggregate!Attributed
    BY <1>1 DEF Aggregate!Attributed
  <2> QED  BY <1>1, <2>1 DEF AggInv
<1>6. steps' \in 0..MaxSteps
  BY <1>1, AggregateAssumption DEF AggInv
<1> QED  BY <1>1, <1>4, <1>5, <1>6 DEF AggInv

\* What the next report has nothing to do with.
LEMMA RestKept ==
    ASSUME AggInv, UNCHANGED <<descs, map, received, reached, aAsked>>
    PROVE  /\ descs' \in Accepted /\ map' = Aggregate!Combine(descs')
           /\ Aggregate!Built' = Aggregate!Built
           /\ Aggregate!Built => received' \in Seq(Receipts) /\ Aggregate!Attributed' /\ Aggregate!AccessesRight'
<1>1. Aggregate!Attributed' = Aggregate!Attributed
  BY DEF Aggregate!Attributed
<1>2. Aggregate!AccessesRight' = Aggregate!AccessesRight
  BY DEF Aggregate!AccessesRight
<1> QED  BY <1>1, <1>2 DEF AggInv, Aggregate!Built

LEMMA DeviceReportsKeeps ==
    ASSUME AggInv, NEW o \in Aggregate!Owners, NEW id \in Aggregate!NativeIds(descs[o]),
           Aggregate!DeviceReports(o, id)
    PROVE  AggInv'
<1>1. /\ Aggregate!Built /\ aPending' = [aPending EXCEPT ![o] = Append(@, id)]
      /\ UNCHANGED <<descs, map, received, reached, aAsked>>
      /\ steps < MaxSteps /\ steps' = steps + 1
  BY DEF Aggregate!DeviceReports, Aggregate!Step
<1>2. /\ aPending = [p \in Aggregate!Owners |-> aPending[p]]
      /\ \A p \in Aggregate!Owners : aPending[p] \in Seq(Aggregate!NativeIds(descs[p]))
      /\ steps \in 0..MaxSteps
  BY <1>1 DEF AggInv
<1>3. /\ aPending' = [p \in Aggregate!Owners |-> aPending'[p]]
      /\ \A p \in Aggregate!Owners : aPending'[p] \in Seq(Aggregate!NativeIds(descs'[p]))
  <2>1. Append(aPending[o], id) \in Seq(Aggregate!NativeIds(descs[o]))
    BY <1>2
  <2>2. \A p \in Aggregate!Owners : aPending'[p] = IF p = o THEN Append(aPending[o], id) ELSE aPending[p]
    BY <1>1, <1>2
  <2>3. aPending' = [p \in Aggregate!Owners |-> aPending'[p]]
    BY <1>1, <1>2
  <2> QED  BY <1>1, <1>2, <2>1, <2>2, <2>3
<1>4. steps' \in 0..MaxSteps
  BY <1>1, <1>2, AggregateAssumption
<1> QED  BY <1>1, <1>3, <1>4, RestKept DEF AggInv

\* The report of a device goes out under the host's id for it.
LEMMA ProcessNextKeeps ==
    ASSUME AggInv, Aggregate!ProcessNext
    PROVE  AggInv'
<1> DEFINE native(o) == Head(aPending[o])
           id(o) == IF Aggregate!HostId(map, o, native(o)) = None THEN native(o)
                    ELSE Aggregate!HostId(map, o, native(o))
           receipt(o) == [id |-> id(o), owner |-> o, native |-> native(o)]
<1>1. PICK o \in Aggregate!Owners :
         /\ aPending[o] # <<>>
         /\ aPending' = [aPending EXCEPT ![o] = Tail(@)]
         /\ received' = Append(received, receipt(o))
         /\ UNCHANGED <<descs, map, reached, aAsked, steps>>
  BY Zenon DEF Aggregate!ProcessNext, Aggregate!HasPending
<1>2. descs' \in Accepted /\ map' = Aggregate!Combine(descs') /\ steps' \in 0..MaxSteps
  BY <1>1 DEF AggInv
<1>3. Aggregate!Built' = Aggregate!Built
  BY <1>1 DEF Aggregate!Built
<1>4. ASSUME Aggregate!Built
      PROVE  /\ aPending' = [p \in Aggregate!Owners |-> aPending'[p]]
             /\ \A p \in Aggregate!Owners : aPending'[p] \in Seq(Aggregate!NativeIds(descs'[p]))
             /\ received' \in Seq(Receipts) /\ Aggregate!Attributed' /\ Aggregate!AccessesRight'
  <2>1. /\ aPending = [p \in Aggregate!Owners |-> aPending[p]]
        /\ \A p \in Aggregate!Owners : aPending[p] \in Seq(Aggregate!NativeIds(descs[p]))
        /\ received \in Seq(Receipts) /\ Aggregate!Attributed /\ Aggregate!AccessesRight
        /\ descs \in Accepted
    BY <1>4 DEF AggInv
  <2>2. /\ native(o) \in Aggregate!NativeIds(descs[o])
        /\ Tail(aPending[o]) \in Seq(Aggregate!NativeIds(descs[o]))
    BY <1>1, <2>1
  <2>3. Merged(map, descs) /\ o \in 1..HidDevices
    BY <1>4, MergedBuilt DEF Aggregate!Owners
  <2>4. native(o) \in Nat
    <3>1. descs[o] \in Seq(AggItem)
      BY <2>1, <2>3, AcceptedIs
    <3> QED  BY <2>2, <3>1, NativeTyped
  <2>5. /\ receipt(o) \in Receipts
        /\ Aggregate!Addressed(descs[o]) =>
              Aggregate!Route(map, receipt(o).id) = [owner |-> o, native |-> native(o)]
    <3>1. CASE Has(map, o, native(o))
      <4>1. PICK h \in BlockOf(map, o) :
               map.remaps[h] = native(o) /\ Aggregate!HostId(map, o, native(o)) = h
        BY <2>3, <3>1, HostIdOf
      <4>2. h \in Nat /\ h # None
        BY <2>3, MergedIs, NoneAssumption
      <4>3. Aggregate!Route(map, h) = [owner |-> o, native |-> map.remaps[h]]
        BY <2>3, RouteIs
      <4>4. id(o) = h
        BY <4>1, <4>2
      <4> HIDE DEF id, native
      <4> QED  BY <2>4, <4>1, <4>2, <4>3, <4>4 DEF Receipts
    <3>2. CASE ~Has(map, o, native(o))
      <4>1. Aggregate!HostId(map, o, native(o)) = None
        BY <2>3, <3>2, HostIdOf
      <4>2. id(o) = native(o)
        BY <4>1
      <4>3. ~Aggregate!Addressed(descs[o])
        <5>1. Given(map, descs, o)
          BY <2>3, Zenon DEF Merged, DoneOK
        <5> QED  BY <2>2, <3>2, <5>1, Zenon DEF Given
      <4> HIDE DEF id, native
      <4> QED  BY <2>4, <4>2, <4>3 DEF Receipts
    <3> QED  BY <3>1, <3>2
  <2> HIDE DEF receipt, id
  <2>6. /\ received' \in Seq(Receipts) /\ Len(received') = Len(received) + 1
        /\ received'[Len(received) + 1] = receipt(o)
        /\ \A i \in 1..Len(received) : received'[i] = received[i]
    BY <1>1, <2>1, <2>5
  <2>7. receipt(o).owner = o /\ receipt(o).native = native(o)
    BY DEF receipt
  <2>8. Aggregate!Attributed'
    <3> SUFFICES ASSUME NEW i \in 1..Len(received'), Aggregate!Addressed(descs[received'[i].owner])
                 PROVE  Aggregate!Route(map, received'[i].id)
                           = [owner |-> received'[i].owner, native |-> received'[i].native]
      BY <1>1, Zenon DEF Aggregate!Attributed
    <3>1. i \in 1..Len(received) \/ i = Len(received) + 1
      BY <2>1, <2>6
    <3>2. CASE i \in 1..Len(received)
      BY <2>1, <2>6, <3>2, Zenon DEF Aggregate!Attributed
    <3>3. CASE i = Len(received) + 1
      <4>1. received'[i] = receipt(o)
        BY <2>6, <3>3
      <4> QED  BY <2>5, <2>7, <4>1
    <3> QED  BY <3>1, <3>2, <3>3
  <2>9. Aggregate!AccessesRight'
    <3>1. Aggregate!AccessesRight' = Aggregate!AccessesRight
      BY <1>1 DEF Aggregate!AccessesRight
    <3> QED  BY <2>1, <3>1
  <2>10. /\ aPending' = [p \in Aggregate!Owners |-> aPending'[p]]
         /\ \A p \in Aggregate!Owners : aPending'[p] \in Seq(Aggregate!NativeIds(descs'[p]))
    <3>1. \A p \in Aggregate!Owners : aPending'[p] = IF p = o THEN Tail(aPending[o]) ELSE aPending[p]
      BY <1>1, <2>1
    <3>2. aPending' = [p \in Aggregate!Owners |-> aPending'[p]]
      BY <1>1, <2>1
    <3> QED  BY <1>1, <2>1, <2>2, <3>1, <3>2
  <2> QED  BY <2>6, <2>8, <2>9, <2>10
<1> QED  BY <1>2, <1>3, <1>4, Zenon DEF AggInv

\* Devices are told their power state, in order.
LEMMA SetPowerKeeps ==
    ASSUME AggInv, NEW p, NEW l, Aggregate!SetPowerState(p, l)
    PROVE  AggInv'
<1>1. /\ UNCHANGED <<descs, map, aPending, received, reached, aAsked>>
      /\ steps < MaxSteps /\ steps' = steps + 1
  BY DEF Aggregate!SetPowerState, Aggregate!Step
<1>2. steps' \in 0..MaxSteps
  BY <1>1, AggregateAssumption DEF AggInv
<1> QED  BY <1>1, <1>2, RestKept DEF AggInv

LEMMA ResetKeeps ==
    ASSUME AggInv, Aggregate!Reset
    PROVE  AggInv'
<1>1. /\ UNCHANGED <<descs, map, received, reached, aAsked>>
      /\ aPending' = [o \in Aggregate!Owners |-> <<>>]
      /\ steps < MaxSteps /\ steps' = steps + 1
  BY DEF Aggregate!Reset, Aggregate!Step
<1>2. steps' \in 0..MaxSteps
  BY <1>1, AggregateAssumption DEF AggInv
<1>3. /\ aPending' = [p \in Aggregate!Owners |-> aPending'[p]]
      /\ \A p \in Aggregate!Owners : aPending'[p] \in Seq(Aggregate!NativeIds(descs'[p]))
  BY <1>1
<1> QED  BY <1>1, <1>2, <1>3, RestKept DEF AggInv

LEMMA AggNext == AggInv /\ [Aggregate!Next]_aVars => AggInv'
<1> SUFFICES ASSUME AggInv, [Aggregate!Next]_aVars PROVE AggInv'
  OBVIOUS
<1>1. ASSUME NEW h \in 0..ReportCount + 1, Aggregate!Access(h) PROVE AggInv'
  BY <1>1, AccessKeeps
<1>2. ASSUME NEW o \in Aggregate!Owners, NEW id \in Aggregate!NativeIds(descs[o]),
             Aggregate!DeviceReports(o, id)
      PROVE  AggInv'
  BY <1>2, DeviceReportsKeeps
<1>3. CASE Aggregate!ProcessNext
  BY <1>3, ProcessNextKeeps
<1>4. ASSUME NEW l \in Aggregate!Owners, Aggregate!SetPowerState("Sleep", l) PROVE AggInv'
  BY <1>4, SetPowerKeeps
<1>5. CASE Aggregate!Reset
  BY <1>5, ResetKeeps
<1>6. CASE UNCHANGED aVars
  <2>1. UNCHANGED <<descs, map, aPending, received, reached, aAsked, steps>>
    BY <1>6 DEF aVars
  <2> QED  BY <2>1, RestKept DEF AggInv
<1> QED  BY <1>1, <1>2, <1>3, <1>4, <1>5, <1>6, Zenon DEF Aggregate!Next

LEMMA ResettingTyped ==
    ASSUME resetting \in BOOLEAN, [Aggregate!Next]_aVars
    PROVE  resetting' \in BOOLEAN
<1>1. ASSUME NEW h, Aggregate!Access(h) PROVE resetting' \in BOOLEAN
  <2>1. resetting' = (Aggregate!Route(map, h) = Aggregate!Nowhere)
    BY <1>1, Zenon DEF Aggregate!Access
  <2> QED  BY <2>1, Zenon
<1>2. ASSUME NEW o, NEW id, Aggregate!DeviceReports(o, id) PROVE resetting' \in BOOLEAN
  BY <1>2, Zenon DEF Aggregate!DeviceReports
<1>3. CASE Aggregate!ProcessNext
  BY <1>3, Zenon DEF Aggregate!ProcessNext
<1>4. ASSUME NEW p, NEW l, Aggregate!SetPowerState(p, l) PROVE resetting' \in BOOLEAN
  BY <1>4, Zenon DEF Aggregate!SetPowerState
<1>5. CASE Aggregate!Reset
  BY <1>5, Zenon DEF Aggregate!Reset
<1>6. CASE UNCHANGED aVars
  BY <1>6, Zenon DEF aVars
<1> QED  BY <1>1, <1>2, <1>3, <1>4, <1>5, <1>6, Zenon DEF Aggregate!Next

AggAll == AggInv /\ resetting \in BOOLEAN

LEMMA AggAllImplies == AggAll => Aggregate!AggregateHonest
<1> SUFFICES ASSUME AggInv, resetting \in BOOLEAN PROVE Aggregate!AggregateHonest
  BY Zenon DEF AggAll
<1>1. descs \in Accepted /\ map = Aggregate!Combine(descs) /\ steps \in 0..MaxSteps
  BY DEF AggInv
<1>2. Len(map.remaps) <= ReportCount
  <2>1. descs \in Declared /\ HidDevices \in 0..HidDevices
    BY <1>1, AggregateAssumption DEF Accepted
  <2>2. Aggregate!Combine(descs) \in Merges
    BY <2>1, CombinedGo DEF Aggregate!Combine
  <2> QED  BY <1>1, <2>2 DEF Merges
<1>3. Aggregate!TypeOK
  BY <1>1, <1>2, Zenon DEF Aggregate!TypeOK
<1>4. Aggregate!Built => Aggregate!RoutesInverse /\ Aggregate!SizesKept /\ Aggregate!FitsExpected
  BY <1>1, MergedBuilt, RoutesHold, SizesHold, FitsHold, Zenon
<1>5. Aggregate!Built => Aggregate!Attributed /\ Aggregate!AccessesRight
  BY Zenon DEF AggInv
<1> QED  BY <1>3, <1>4, <1>5, Zenon DEF Aggregate!AggregateHonest

\* A step of the suite is a step of the aggregate or leaves it alone.
LEMMA SuiteAggregate == [SuiteNext]_allVars => [Aggregate!Next]_aVars /\ UNCHANGED unit
BY Zenon DEF SuiteNext, allVars

\* The merged descriptor and the two maps of report ids agree with the devices'
\* descriptors: every id a device can be addressed by has one host id that leads
\* back to it, the merge fits the bytes asked for, and where the descriptors can be
\* taken apart its largest reports are the devices'; gets, sets and input reports go
\* by the maps.  For any number of devices, any descriptors, and any limits on ids,
\* nesting and sizes (embedded-service/src/relay/hid.rs).
THEOREM AggregateHonestHolds == SuiteSpec => []AggregateHonest
<1>1. SuiteInit => (unit = "aggregate" => AggAll)
  <2>1. Aggregate!Init => resetting \in BOOLEAN
    BY Zenon DEF Aggregate!Init
  <2> QED  BY <2>1, AggInit, Zenon DEF SuiteInit, AggAll
<1>2. (unit = "aggregate" => AggAll) /\ [SuiteNext]_allVars => (unit = "aggregate" => AggAll)'
  <2>1. AggAll /\ [Aggregate!Next]_aVars => AggAll'
    BY AggNext, ResettingTyped, Zenon DEF AggAll
  <2> QED  BY <2>1, SuiteAggregate, Zenon
<1>3. (unit = "aggregate" => AggAll) => AggregateHonest
  BY AggAllImplies, Zenon DEF AggregateHonest
<1> QED  BY <1>1, <1>2, <1>3, PTL DEF SuiteSpec

=============================================================================
