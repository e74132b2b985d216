------------------------- MODULE TypeCServiceProofs -------------------------
(***************************************************************************)
(* Proofs about TypeCService, for every number of ports, every set of      *)
(* thresholds and every capacity of the channels.                          *)
(***************************************************************************)
EXTENDS TypeCService, FiniteSetTheorems, TLAPS

-----------------------------------------------------------------------------
(* Queues.                                                                  *)

LEMMA AppendFacts ==
    ASSUME NEW S, NEW s \in Seq(S), NEW e \in S
    PROVE  /\ Append(s, e) \in Seq(S) /\ Append(s, e) # << >>
           /\ Len(Append(s, e)) = Len(s) + 1
           /\ \A i \in 1 .. Len(s) : Append(s, e)[i] = s[i]
           /\ Append(s, e)[Len(s) + 1] = e
           /\ Head(Append(s, e)) = IF s = << >> THEN e ELSE Head(s)
OBVIOUS

LEMMA TailFacts ==
    ASSUME NEW S, NEW s \in Seq(S), s # << >>
    PROVE  /\ Tail(s) \in Seq(S) /\ Head(s) \in S /\ Head(s) = s[1]
           /\ Len(s) \in Nat \ {0} /\ Len(Tail(s)) = Len(s) - 1
           /\ \A i \in 1 .. Len(s) - 1 : Tail(s)[i] = s[i + 1]
OBVIOUS

\* What is queued behind a new entry, or behind the one taken.
LEMMA AppendMembers ==
    ASSUME NEW S, NEW s \in Seq(S), NEW e \in S, NEW x
    PROVE  (\E i \in DOMAIN Append(s, e) : Append(s, e)[i] = x)
           <=> (\E i \in DOMAIN s : s[i] = x) \/ x = e
<1>1. DOMAIN s = 1 .. Len(s) /\ DOMAIN Append(s, e) = 1 .. Len(s) + 1 /\ Len(s) \in Nat
    BY AppendFacts
<1> QED BY <1>1, AppendFacts

LEMMA TailMembers ==
    ASSUME NEW S, NEW s \in Seq(S), s # << >>, NEW x
    PROVE  (\E i \in DOMAIN s : s[i] = x)
           <=> (\E i \in DOMAIN Tail(s) : Tail(s)[i] = x) \/ x = Head(s)
<1>1. DOMAIN s = 1 .. Len(s) /\ DOMAIN Tail(s) = 1 .. Len(s) - 1 /\ Len(s) \in Nat \ {0}
    BY TailFacts
<1>2. ASSUME NEW i \in DOMAIN s, s[i] = x, x # Head(s)
      PROVE  \E j \in DOMAIN Tail(s) : Tail(s)[j] = x
  <2>1. i - 1 \in DOMAIN Tail(s) /\ Tail(s)[i - 1] = x
    BY <1>1, <1>2, TailFacts
  <2> QED BY <2>1
<1>3. ASSUME NEW j \in DOMAIN Tail(s) PROVE j + 1 \in DOMAIN s /\ Tail(s)[j] = s[j + 1]
    BY <1>1, TailFacts
<1>4. 1 \in DOMAIN s /\ Head(s) = s[1]
    BY <1>1, TailFacts
<1> QED BY <1>2, <1>3, <1>4

-----------------------------------------------------------------------------
(* Types.                                                                   *)

Note == [port : Ports, opm : BOOLEAN]

LEMMA PortsFacts ==
    /\ NumPorts \in Nat /\ MaxPorts \in Nat /\ Ports \subseteq Nat
    /\ NumPorts \notin Ports /\ \A p \in Ports : p < NumPorts /\ p + 1 \in 0 .. NumPorts
    /\ None \notin Ports
BY TypeCServiceAssumption DEF Ports

LEMMA NoStatusType == NoStatus \in PortStatus /\ \A c \in {"Attached", "Debug"} :
                          [NoStatus EXCEPT !.conn = c] \in PortStatus
BY DEF NoStatus, PortStatus

LEMMA ConnectorStatusType ==
    ASSUME port \in [Ports -> PortStatus], NEW p \in Ports
    PROVE  ConnectorStatus(p) \in OpmView
<1>1. port[p] \in PortStatus
    OBVIOUS
<1>2. BatteryChargingStatus(p) \in {None, "NotCharging", "VerySlow", "Slow", "Nominal"}
    BY DEF BatteryChargingStatus, StatusOf
<1>3. port[p].mw \in SinkPowers \cup {0}
    BY <1>1 DEF PortStatus
<1> QED BY <1>2, <1>3 DEF ConnectorStatus, OpmView

\* A port's reported change.
LEMMA ChangeTypes ==
    ASSUME TypeOK, NEW p \in Ports, Changed(p)
    PROVE  \E new \in PortStatus, bits \in SUBSET EventBits, kind \in PortKinds :
              bits # {} /\ PortChange(p, kind, new, bits)
<1>1. port[p] \in PortStatus
    BY DEF TypeOK
<1>2. \A mw \in SinkPowers : [port[p] EXCEPT !.mw = mw] \in PortStatus
    BY <1>1 DEF PortStatus
<1>3. [port[p] EXCEPT !.sink = ~@, !.mw = 0] \in PortStatus
    BY <1>1 DEF PortStatus
<1>4. [port[p] EXCEPT !.mw = 0] \in PortStatus
    BY <1>1 DEF PortStatus
<1>5. ASSUME NEW kind, NEW new \in PortStatus, NEW bits \in SUBSET EventBits,
             bits # {}, PortChange(p, kind, new, bits)
      PROVE  kind \in PortKinds
    BY <1>5 DEF PortChange
<1>6. \A b \in EventBits : {b} \in SUBSET EventBits /\ {b} # {}
    OBVIOUS
<1>7. /\ "plug" \in EventBits /\ "contract" \in EventBits /\ "power_swap" \in EventBits
      /\ "hard_reset" \in EventBits /\ "partner" \in EventBits
    BY DEF EventBits
<1>8. CASE PortChange(p, "plug", IF IsConnected(port[p]) THEN NoStatus
                             ELSE [NoStatus EXCEPT !.conn = "Attached"], {"plug"})
    BY <1>5, <1>6, <1>7, <1>8, NoStatusType
<1>9. CASE PortChange(p, "debug", IF IsConnected(port[p]) THEN NoStatus
                              ELSE [NoStatus EXCEPT !.conn = "Debug"], {"plug"})
    BY <1>5, <1>6, <1>7, <1>9, NoStatusType
<1>10. CASE \E mw \in SinkPowers :
              PortChange(p, "contract", [port[p] EXCEPT !.mw = mw], {"contract"})
    BY <1>2, <1>5, <1>6, <1>7, <1>10
<1>11. CASE PortChange(p, "swap", [port[p] EXCEPT !.sink = ~@, !.mw = 0], {"power_swap"})
    BY <1>3, <1>5, <1>6, <1>7, <1>11
<1>12. CASE PortChange(p, "reset", [port[p] EXCEPT !.mw = 0], {"hard_reset"})
    BY <1>4, <1>5, <1>6, <1>7, <1>12
<1>13. CASE PortChange(p, "partner", port[p], {"partner"})
    BY <1>1, <1>5, <1>6, <1>7, <1>13
<1> QED BY <1>8, <1>9, <1>10, <1>11, <1>12, <1>13 DEF Changed

-----------------------------------------------------------------------------
(* The connector at the front of the queue is announced.                    *)

\* The OPM is being notified of a connector.
Noted(p) == \E i \in DOMAIN notes : notes[i] = [port |-> p, opm |-> TRUE]

Announced ==
    pending # << >> /\ ~noteLost => Head(pending) \in told \/ Noted(Head(pending))

\* The queue of pending connector changes.  It has no connector twice, which is
\* why it never overflows.
PendInv ==
    /\ pending \in Seq(Ports) /\ notes \in Seq(Note) /\ told \subseteq Ports
    /\ overflow \in BOOLEAN /\ noteLost \in BOOLEAN
    /\ \A i, j \in DOMAIN pending : pending[i] = pending[j] => i = j
    /\ NumPorts <= MaxPorts => ~overflow
    /\ Announced

\* An event that is reported is about something.
PortsInv ==
    /\ port \in [Ports -> PortStatus] /\ cached \in [Ports -> PortStatus]
    /\ raised \in [Ports -> SUBSET EventBits]
    /\ queue \in [Ports -> Seq(PortEvent)]
    /\ \A p \in Ports : \A i \in DOMAIN queue[p] : queue[p][i].bits # {}

RestInv ==
    /\ policy \in Seq(BOOLEAN)
    /\ ppm \in {"Disabled", "Idle", "WaitAck"}
    /\ enabled \subseteq Changes \cup {"cmd_complete"}
    /\ valid \subseteq Ports
    /\ psuConnected \in BOOLEAN /\ scan \in 0 .. NumPorts
    /\ debugTold \in [Ports -> BOOLEAN]
    /\ seen \in [Ports -> OpmView \cup {None}]
    /\ reading \in Ports \cup {None} /\ raced \subseteq Ports
    /\ lost \in BOOLEAN

ServiceInv == PendInv /\ PortsInv /\ RestInv

LEMMA ServiceInvImplies == ServiceInv => TypeOK /\ PendingAnnounced
BY DEF ServiceInv, PendInv, PortsInv, RestInv, TypeOK, PendingAnnounced, Announced, Noted, Note

LEMMA ServiceInit == Init => ServiceInv
<1> SUFFICES ASSUME Init PROVE ServiceInv
    OBVIOUS
<1>1. PendInv
  <2>1. << >> \in Seq(Ports) /\ << >> \in Seq(Note) /\ DOMAIN << >> = {}
    OBVIOUS
  <2>2. pending = << >> /\ notes = << >> /\ told = {} /\ overflow = FALSE /\ noteLost = FALSE
    BY DEF Init
  <2> QED BY <2>1, <2>2 DEF PendInv, Announced
<1>2. PortsInv
    BY NoStatusType DEF Init, PortsInv
<1>3. RestInv
  <2>1. << >> \in Seq(BOOLEAN) /\ NumPorts \in 0 .. NumPorts
    BY PortsFacts
  <2>2. /\ policy = << >> /\ ppm = "Disabled" /\ enabled = {} /\ valid = {} /\ raced = {}
        /\ psuConnected = FALSE /\ scan = NumPorts /\ lost = FALSE /\ reading = None
        /\ debugTold = [p \in Ports |-> FALSE] /\ seen = [p \in Ports |-> None]
    BY DEF Init
  <2> QED BY <2>1, <2>2 DEF RestInv
<1> QED BY <1>1, <1>2, <1>3 DEF ServiceInv

\* As long as no connector is queued twice, one that is not queued finds a slot.
LEMMA SlotFree ==
    ASSUME PendInv, NEW p \in Ports, ~IsPending(p), NumPorts <= MaxPorts
    PROVE  Len(pending) < MaxPorts
<1> DEFINE S == 1 .. Len(pending)
           T == Ports \ {p}
<1>1. DOMAIN pending = S /\ Len(pending) \in Nat
    BY DEF PendInv
<1>2. IsFiniteSet(Ports) /\ Cardinality(Ports) = NumPorts
  <2>1. NumPorts \in Nat /\ 0 \in Int /\ NumPorts - 1 \in Int
    BY PortsFacts
  <2>2. /\ IsFiniteSet(0 .. NumPorts - 1)
        /\ Cardinality(0 .. NumPorts - 1) = IF 0 > NumPorts - 1 THEN 0 ELSE (NumPorts - 1) - 0 + 1
    BY <2>1, FS_Interval, Zenon
  <2> QED BY <2>1, <2>2 DEF Ports
<1>3. IsFiniteSet(T) /\ Cardinality(T) = NumPorts - 1
    BY <1>2, FS_RemoveElement
<1>4. IsFiniteSet(S) /\ Cardinality(S) = Len(pending)
  <2>1. 1 \in Int /\ Len(pending) \in Int
    BY <1>1
  <2>2. IsFiniteSet(S) /\ Cardinality(S) = IF 1 > Len(pending) THEN 0 ELSE Len(pending) - 1 + 1
    BY <2>1, FS_Interval, Zenon
  <2> QED BY <1>1, <2>2
<1>5. pending \in [S -> T]
    BY <1>1 DEF PendInv, IsPending
<1>6. ~(Cardinality(T) < Cardinality(S))
    BY <1>1, <1>3, <1>4, <1>5, FS_PigeonHole DEF PendInv
<1> QED BY <1>1, <1>3, <1>4, <1>6, PortsFacts

\* A change indicator is queued or dropped.
LEMMA NotifyFacts ==
    ASSUME PendInv, NEW p \in Ports, NEW b \in BOOLEAN, Notify(p, b)
    PROVE  /\ notes' \in Seq(Note) /\ noteLost' \in BOOLEAN /\ (noteLost => noteLost')
           /\ \A q : Noted(q) => Noted(q)'
           /\ b /\ ~noteLost' => Noted(p)'
<1> DEFINE n == [port |-> p, opm |-> b]
<1>1. n \in Note /\ notes \in Seq(Note) /\ noteLost \in BOOLEAN
    BY DEF Note, PendInv
<1>2. CASE Len(notes) < NoteSize
  <2>1. notes' = Append(notes, n) /\ noteLost' = noteLost
    BY <1>2 DEF Notify
  <2>2. \A x : (\E i \in DOMAIN notes : notes[i] = x) \/ x = n
               => \E i \in DOMAIN notes' : notes'[i] = x
    BY <1>1, <2>1, AppendMembers
  <2>3. notes' \in Seq(Note)
    BY <1>1, <2>1, AppendFacts
  <2> QED BY <1>1, <2>1, <2>2, <2>3 DEF Noted
<1>3. CASE ~(Len(notes) < NoteSize)
    BY <1>1, <1>3 DEF Notify, Noted
<1> QED BY <1>2, <1>3

\* Mentioned is what the OPM will come to look at by itself.
Mentioned(p) == IsPending(p) \/ p \in told \/ Noted(p)

LEMMA PendUcsiPortFacts ==
    ASSUME PendInv, NEW p \in Ports, PendUcsiPort(p), told' = told
    PROVE  /\ PendInv'
           /\ noteLost => noteLost'
           /\ \A q : Mentioned(q) => Mentioned(q)'
           /\ NumPorts <= MaxPorts => Mentioned(p)'
           /\ raced' = IF p = reading THEN raced \cup {p} ELSE raced
<1>1. raced' = IF p = reading THEN raced \cup {p} ELSE raced
    BY DEF PendUcsiPort
<1>2. CASE IsPending(p) \/ Len(pending) >= MaxPorts
  <2>1. overflow' = (overflow \/ ~IsPending(p)) /\ UNCHANGED <<pending, notes, noteLost>>
    BY <1>2 DEF PendUcsiPort
  <2>2. Len(pending) \in Nat /\ MaxPorts \in Nat
    BY PortsFacts DEF PendInv
  <2>3. NumPorts <= MaxPorts => IsPending(p)
    BY <1>2, <2>2, SlotFree
  <2>4. PendInv'
    BY <2>1, <2>3 DEF PendInv, Announced, Noted
  <2>5. \A q : (Mentioned(q) <=> Mentioned(q)')
    BY <2>1 DEF Mentioned, IsPending, Noted
  <2> QED BY <1>1, <2>1, <2>3, <2>4, <2>5 DEF Mentioned
<1>3. CASE ~IsPending(p) /\ ~(Len(pending) >= MaxPorts)
  <2>1. pending' = Append(pending, p) /\ Notify(p, pending = << >>) /\ overflow' = overflow
    BY <1>3 DEF PendUcsiPort
  <2>2. pending \in Seq(Ports)
    BY DEF PendInv
  <2>3. /\ notes' \in Seq(Note) /\ noteLost' \in BOOLEAN /\ (noteLost => noteLost')
        /\ \A q : Noted(q) => Noted(q)'
        /\ pending = << >> /\ ~noteLost' => Noted(p)'
    BY <2>1, NotifyFacts
  <2>4. pending' \in Seq(Ports) /\ Head(pending') = IF pending = << >> THEN p ELSE Head(pending)
    BY <2>1, <2>2, AppendFacts
  <2>5. \A q : IsPending(q)' <=> IsPending(q) \/ q = p
    BY <2>1, <2>2, AppendMembers DEF IsPending
  <2>6. \A i, j \in DOMAIN pending' : pending'[i] = pending'[j] => i = j
    <3>1. /\ DOMAIN pending = 1 .. Len(pending) /\ Len(pending) \in Nat
          /\ DOMAIN pending' = 1 .. Len(pending) + 1
          /\ \A i \in 1 .. Len(pending) : pending'[i] = pending[i] /\ pending[i] # p
          /\ pending'[Len(pending) + 1] = p
      BY <1>3, <2>1, <2>2, AppendFacts DEF IsPending
    <3>2. \A i, j \in 1 .. Len(pending) : pending[i] = pending[j] => i = j
      BY <3>1 DEF PendInv
    <3> QED BY <3>1, <3>2
  <2>7. Announced'
    BY <2>3, <2>4 DEF PendInv, Announced
  <2>8. PendInv'
    BY <2>1, <2>3, <2>4, <2>6, <2>7 DEF PendInv
  <2> QED BY <1>1, <2>3, <2>5, <2>8 DEF Mentioned
<1> QED BY <1>2, <1>3

\* A step that leaves the queues alone and lets the OPM forget nothing.
LEMMA PendSame ==
    ASSUME PendInv, UNCHANGED <<pending, notes, overflow, noteLost>>,
           told \subseteq told', told' \subseteq Ports
    PROVE  PendInv' /\ \A q : Mentioned(q) => Mentioned(q)'
<1>1. \A q : (Noted(q)' <=> Noted(q)) /\ (IsPending(q)' <=> IsPending(q))
    BY DEF Noted, IsPending
<1>2. Announced'
    BY <1>1 DEF PendInv, Announced
<1> QED BY <1>1, <1>2 DEF PendInv, Mentioned

LEMMA BackAgain ==
    ASSUME NEW p \in Ports, NEW c, c = p + 1
    PROVE  c - 1 = p /\ c # 0
<1>1. p \in Nat
    BY PortsFacts
<1> QED BY <1>1

\* A response names the first pending connector, or none.
LEMMA RespondFacts ==
    ASSUME PendInv, NEW c \in {0, ConnectorChange(pending)}, Respond(c, told)
    PROVE  told \subseteq told' /\ told' \subseteq Ports
<1>1. CASE c = 0
    BY <1>1 DEF Respond, PendInv
<1>2. CASE c # 0
  <2>1. pending # << >> /\ c = Head(pending) + 1 /\ Head(pending) \in Ports
    BY <1>2, TailFacts DEF ConnectorChange, PendInv
  <2>2. c - 1 = Head(pending)
    BY <2>1, BackAgain
  <2> QED BY <1>2, <2>1, <2>2 DEF Respond, PendInv
<1> QED BY <1>1, <1>2

\* Acknowledging a connector change makes the OPM forget what it was reading
\* only; the next pending connector is in the response.
LEMMA AckConnectorChangeFacts ==
    ASSUME PendInv, AckConnectorChange, overflow' = overflow
    PROVE  /\ PendInv' /\ (noteLost => noteLost')
           /\ ~noteLost => \A q : Mentioned(q) => Mentioned(q)' \/ q = reading
<1>1. CASE pending = << >>
  <2>1. told' = told \ {reading} /\ UNCHANGED <<pending, notes, noteLost>>
    BY <1>1 DEF AckConnectorChange, Respond
  <2>2. PendInv'
    BY <1>1, <2>1 DEF PendInv, Announced
  <2>3. \A q : (Noted(q)' <=> Noted(q)) /\ (IsPending(q)' <=> IsPending(q))
    BY <2>1 DEF Noted, IsPending
  <2> QED BY <2>1, <2>2, <2>3 DEF Mentioned
<1>2. CASE pending # << >>
  <2> DEFINE c == ConnectorChange(Tail(pending))
  <2>1. /\ pending' = Tail(pending)
        /\ told' = (told \ {reading}) \cup (IF c = 0 THEN {} ELSE {c - 1})
        /\ IF Len(pending) = 1 THEN UNCHANGED <<notes, noteLost>> ELSE Notify(pending[2], FALSE)
    BY <1>2 DEF AckConnectorChange, Respond
  <2>2. /\ pending \in Seq(Ports) /\ Tail(pending) \in Seq(Ports) /\ Head(pending) \in Ports
        /\ Len(pending) \in Nat \ {0} /\ Len(Tail(pending)) = Len(pending) - 1
        /\ \A i \in 1 .. Len(pending) - 1 : Tail(pending)[i] = pending[i + 1]
    BY <1>2, TailFacts DEF PendInv
  <2>3. /\ notes' \in Seq(Note) /\ noteLost' \in BOOLEAN /\ (noteLost => noteLost')
        /\ \A q : Noted(q) => Noted(q)'
    <3>1. CASE Len(pending) = 1
      BY <2>1, <3>1 DEF PendInv, Noted
    <3>2. CASE Len(pending) # 1
      <4>1. pending[2] \in Ports
        BY <2>2, <3>2
      <4> QED BY <2>1, <3>2, <4>1, NotifyFacts
    <3> QED BY <3>1, <3>2
  <2>4. Tail(pending) # << >> => Head(Tail(pending)) \in Ports /\ c - 1 = Head(Tail(pending)) /\ c # 0
    <3>1. Tail(pending) # << >> => Head(Tail(pending)) \in Ports /\ c = Head(Tail(pending)) + 1
      BY <2>2, TailFacts DEF ConnectorChange
    <3> QED BY <3>1, BackAgain
  <2>5. Tail(pending) = << >> => c = 0
    BY DEF ConnectorChange
  <2> HIDE DEF c
  <2>6. told' \subseteq Ports /\ (Tail(pending) # << >> => Head(Tail(pending)) \in told')
        /\ \A q \in told : q \in told' \/ q = reading
    BY <2>1, <2>4, <2>5 DEF PendInv
  <2>7. \A i, j \in DOMAIN pending' : pending'[i] = pending'[j] => i = j
    <3>1. /\ DOMAIN pending = 1 .. Len(pending) /\ DOMAIN pending' = 1 .. Len(pending) - 1
      BY <2>1, <2>2
    <3>2. \A i, j \in 1 .. Len(pending) : pending[i] = pending[j] => i = j
      BY <3>1 DEF PendInv
    <3> QED BY <2>1, <2>2, <3>1, <3>2
  <2>8. PendInv'
    BY <2>1, <2>2, <2>3, <2>6, <2>7 DEF PendInv, Announced
  <2>9. ASSUME ~noteLost, NEW q, Mentioned(q), q # reading PROVE Mentioned(q)'
    <3>1. CASE q \in told \/ Noted(q)
      BY <2>3, <2>6, <2>9, <3>1 DEF Mentioned
    <3>2. CASE IsPending(q)
      <4>1. q = Head(pending) \/ \E i \in DOMAIN Tail(pending) : Tail(pending)[i] = q
        BY <1>2, <2>2, <3>2, TailMembers DEF IsPending
      <4>2. CASE q = Head(pending)
        <5>1. q \in told \/ Noted(q)
          BY <1>2, <2>9, <4>2 DEF PendInv, Announced
        <5> QED BY <2>3, <2>6, <2>9, <5>1 DEF Mentioned
      <4>3. CASE \E i \in DOMAIN Tail(pending) : Tail(pending)[i] = q
        BY <2>1, <4>3 DEF Mentioned, IsPending
      <4> QED BY <4>1, <4>2, <4>3
    <3> QED BY <2>9, <3>1, <3>2 DEF Mentioned
  <2> QED BY <2>3, <2>8, <2>9
<1> QED BY <1>1, <1>2

\* An indicator that is passed on is known to the OPM.
LEMMA TakeNoteFacts ==
    ASSUME PendInv, TakeNote
    PROVE  PendInv' /\ noteLost' = noteLost /\ \A q : Mentioned(q) => Mentioned(q)'
<1>1. /\ notes # << >> /\ notes' = Tail(notes)
      /\ told' = IF Head(notes).opm THEN told \cup {Head(notes).port} ELSE told
      /\ UNCHANGED <<pending, overflow, noteLost>>
    BY DEF TakeNote, ucsi, drops
<1>2. notes \in Seq(Note) /\ notes' \in Seq(Note) /\ Head(notes) \in Note
    BY <1>1, TailFacts DEF PendInv
<1>3. Head(notes).port \in Ports
    BY <1>2 DEF Note
<1>4. told \subseteq told' /\ told' \subseteq Ports
    BY <1>1, <1>3 DEF PendInv
<1>5. \A q : Noted(q) => Noted(q)' \/ q \in told'
  <2> SUFFICES ASSUME NEW q, Noted(q) PROVE Noted(q)' \/ q \in told'
    OBVIOUS
  <2> DEFINE n == [port |-> q, opm |-> TRUE]
  <2>1. n = Head(notes) \/ \E i \in DOMAIN Tail(notes) : Tail(notes)[i] = n
    BY <1>1, <1>2, TailMembers DEF Noted
  <2>2. n = Head(notes) => q \in told'
    BY <1>1
  <2> QED BY <1>1, <2>1, <2>2 DEF Noted
<1>6. Announced'
    BY <1>1, <1>4, <1>5 DEF PendInv, Announced
<1>7. \A q : IsPending(q)' <=> IsPending(q)
    BY <1>1 DEF IsPending
<1> QED BY <1>1, <1>2, <1>4, <1>5, <1>6, <1>7 DEF PendInv, Mentioned

-----------------------------------------------------------------------------
(* What the OPM read goes stale only by a race.                             *)

\* ConnectorStatus(p), if the power policy's consumer were connected or not.
StatusWith(p, psu) ==
    IF IsConnected(port[p])
    THEN [connected |-> TRUE, mw |-> port[p].mw,
          battery |-> IF ~port[p].sink THEN None
                      ELSE IF p \in valid /\ ~psu THEN StatusOf(port[p].mw) ELSE "Nominal"]
    ELSE [connected |-> FALSE, mw |-> 0, battery |-> None]

\* What the OPM read of a connector is up to date, or the service is yet to
\* come across the change: it is not reported, not processed, or a change of
\* the consumer that the scan is yet to bring to this port.
Settled(p) ==
    \/ p \in raced
    \/ seen[p] \in {None, ConnectorStatus(p)}
    \/ raised[p] # {} \/ queue[p] # << >>
    \/ scan <= p /\ \E psu \in BOOLEAN : seen[p] = StatusWith(p, psu)

\* Otherwise the OPM will look at the connector again.  One it has just read it
\* will not look at again, so there only the first excuse counts.
RaceInv(p) ==
    (enabled = Changes /\ ~lost /\ ~noteLost) =>
        /\ Settled(p) \/ Mentioned(p)
        /\ reading = p => Settled(p)

FullInv == ServiceInv /\ (NumPorts <= MaxPorts => \A p \in Ports : RaceInv(p))

LEMMA FullInvImplies == FullInv /\ NumPorts <= MaxPorts => OnlyRacesLost
<1> SUFFICES ASSUME FullInv, NumPorts <= MaxPorts, Quiet, NEW p \in Ports
             PROVE  p \in raced \/ seen[p] \in {None, ConnectorStatus(p)}
    BY DEF OnlyRacesLost
<1>1. RaceInv(p)
    BY DEF FullInv
<1>2. ~Mentioned(p)
    BY DEF Quiet, Mentioned, IsPending, Noted
<1>3. ~(scan <= p)
    BY PortsFacts DEF Quiet
<1> QED BY <1>1, <1>2, <1>3 DEF RaceInv, Settled, Quiet

\* Every event is among the changes.
LEMMA ChangesFacts ==
    /\ "battery" \in Changes
    /\ \A bits \in SUBSET EventBits : bits # {} => UcsiEvent(bits) \cap Changes # {}
<1>1. \A bits \in SUBSET EventBits : UcsiEvent(bits) \subseteq Changes
    BY DEF Changes
<1>2. \A bits \in SUBSET EventBits : bits # {} => UcsiEvent(bits) # {}
  <2> SUFFICES ASSUME NEW bits \in SUBSET EventBits, bits # {} PROVE \E x : x \in UcsiEvent(bits)
    OBVIOUS
  <2>1. PICK b \in EventBits : b \in bits
    OBVIOUS
  <2>2. CASE b = "plug"
    BY <2>1, <2>2 DEF UcsiEvent
  <2>3. CASE b = "power_swap"
    BY <2>1, <2>3 DEF UcsiEvent
  <2>4. CASE b = "hard_reset"
    BY <2>1, <2>4 DEF UcsiEvent
  <2>5. CASE b = "partner"
    BY <2>1, <2>5 DEF UcsiEvent
  <2>6. CASE b = "contract"
    BY <2>1, <2>6 DEF UcsiEvent
  <2> QED BY <2>1, <2>2, <2>3, <2>4, <2>5, <2>6 DEF EventBits
<1>3. {"contract"} \in SUBSET EventBits /\ "battery" \in UcsiEvent({"contract"})
    BY DEF UcsiEvent, EventBits
<1> QED BY <1>1, <1>2, <1>3

\* A step that does not concern a port.
LEMMA SettledSame ==
    ASSUME NEW q \in Ports, port'[q] = port[q], raised'[q] = raised[q], queue'[q] = queue[q],
           seen'[q] = seen[q], psuConnected' = psuConnected, q \in valid' <=> q \in valid,
           q \in raced => q \in raced', scan <= q => scan' <= q
    PROVE  Settled(q) => Settled(q)'
<1>1. ConnectorStatus(q)' = ConnectorStatus(q)
    BY DEF ConnectorStatus, BatteryChargingStatus
<1>2. \A psu \in BOOLEAN : StatusWith(q, psu)' = StatusWith(q, psu)
    BY DEF StatusWith
<1> QED BY <1>1, <1>2 DEF Settled

LEMMA Undisturbed ==
    ASSUME NEW q \in Ports, RaceInv(q), enabled' = enabled,
           lost => lost', noteLost => noteLost', reading' = q => reading = q,
           ~lost' /\ enabled = Changes => (Settled(q) => Settled(q)'),
           ~lost /\ ~noteLost /\ enabled = Changes
               => (Mentioned(q) => Mentioned(q)' \/ Settled(q)')
    PROVE  RaceInv(q)'
BY DEF RaceInv

-----------------------------------------------------------------------------
(* Every action keeps the invariant.                                        *)

\* The queues of pending changes and indicators, the OPM and the flags.
pendVars == <<pending, notes, told, overflow, noteLost>>
restVars == <<policy, ppm, enabled, valid, psuConnected, scan, debugTold, seen, reading,
              raced, lost>>

LEMMA PendUnchanged ==
    ASSUME PendInv, UNCHANGED pendVars
    PROVE  PendInv' /\ \A q : Mentioned(q) => Mentioned(q)'
<1>1. UNCHANGED <<pending, notes, overflow, noteLost>> /\ told' = told /\ told \subseteq Ports
    BY DEF pendVars, PendInv
<1> QED BY <1>1, PendSame

LEMMA ChangedKeeps ==
    ASSUME FullInv, NEW p \in Ports, Changed(p)
    PROVE  FullInv'
<1>1. PICK new \in PortStatus, bits \in SUBSET EventBits, kind \in PortKinds :
          bits # {} /\ PortChange(p, kind, new, bits)
    BY ChangeTypes, ServiceInvImplies DEF FullInv
<1>2. /\ port' = [port EXCEPT ![p] = new] /\ raised' = [raised EXCEPT ![p] = @ \cup bits]
      /\ UNCHANGED <<cached, queue>> /\ UNCHANGED pendVars /\ UNCHANGED restVars
    BY <1>1 DEF PortChange, ucsi, opm, drops, pendVars, restVars
<1>3. PortsInv /\ RestInv /\ PendInv
    BY DEF FullInv, ServiceInv
<1>4. PortsInv' /\ RestInv'
    BY <1>1, <1>2, <1>3 DEF PortsInv, RestInv, restVars
<1>5. PendInv' /\ \A q : Mentioned(q) => Mentioned(q)'
    BY <1>2, <1>3, PendUnchanged
<1>6. ASSUME NEW q \in Ports, RaceInv(q) PROVE RaceInv(q)'
  <2>1. Settled(q) => Settled(q)'
    <3>1. CASE q = p
      <4>1. raised'[p] # {}
        BY <1>1, <1>2, <1>3 DEF PortsInv
      <4> QED BY <3>1, <4>1 DEF Settled
    <3>2. CASE q # p
      <4>1. port'[q] = port[q] /\ raised'[q] = raised[q] /\ UNCHANGED restVars
        BY <1>2, <1>3, <3>2 DEF PortsInv
      <4> QED BY <1>2, <4>1, SettledSame DEF restVars
    <3> QED BY <3>1, <3>2
  <2>2. enabled' = enabled /\ lost' = lost /\ noteLost' = noteLost /\ reading' = reading
    BY <1>2 DEF restVars, pendVars
  <2> QED BY <1>5, <1>6, <2>1, <2>2, Undisturbed
<1> QED BY <1>4, <1>5, <1>6 DEF FullInv, ServiceInv

LEMMA ReportKeeps ==
    ASSUME FullInv, NEW p \in Ports, Report(p)
    PROVE  FullInv'
<1> DEFINE e == [bits |-> raised[p], status |-> port[p], previous |-> cached[p]]
<1>1. /\ raised[p] # {} /\ raised' = [raised EXCEPT ![p] = {}]
      /\ cached' = [cached EXCEPT ![p] = port[p]] /\ port' = port
      /\ UNCHANGED pendVars
      /\ UNCHANGED <<policy, ppm, enabled, valid, psuConnected, scan, debugTold, seen, reading,
                     raced>>
    BY DEF Report, ucsi, opm, pendVars
<1>2. \/ queue' = [queue EXCEPT ![p] = Append(@, e)] /\ lost' = lost
      \/ queue' = queue /\ lost' = TRUE
    BY DEF Report
<1>3. PortsInv /\ RestInv /\ PendInv
    BY DEF FullInv, ServiceInv
<1>4. e \in PortEvent /\ e.bits # {} /\ queue[p] \in Seq(PortEvent)
    BY <1>1, <1>3 DEF PortsInv, PortEvent
<1> HIDE DEF e
<1>5. RestInv'
    BY <1>1, <1>2, <1>3 DEF RestInv
<1>6. /\ queue' \in [Ports -> Seq(PortEvent)]
      /\ \A q \in Ports : \A i \in DOMAIN queue'[q] : queue'[q][i].bits # {}
  <2>1. CASE queue' = queue
    BY <1>3, <2>1 DEF PortsInv
  <2>2. CASE queue' = [queue EXCEPT ![p] = Append(@, e)]
    <3>1. queue'[p] = Append(queue[p], e) /\ \A q \in Ports : q # p => queue'[q] = queue[q]
      BY <1>3, <2>2 DEF PortsInv
    <3>2. \A i \in DOMAIN queue'[p] : queue'[p][i].bits # {}
      <4>1. /\ DOMAIN queue[p] = 1 .. Len(queue[p]) /\ Len(queue[p]) \in Nat
            /\ DOMAIN queue'[p] = 1 .. Len(queue[p]) + 1
        BY <1>4, <3>1, AppendFacts
      <4>2. \A i \in 1 .. Len(queue[p]) : queue'[p][i] = queue[p][i]
        BY <1>4, <3>1, AppendFacts
      <4>3. queue'[p][Len(queue[p]) + 1] = e
        BY <1>4, <3>1, AppendFacts
      <4>4. \A i \in 1 .. Len(queue[p]) : queue[p][i].bits # {}
        BY <1>3, <4>1 DEF PortsInv
      <4> QED BY <1>4, <4>1, <4>2, <4>3, <4>4
    <3>3. Append(queue[p], e) \in Seq(PortEvent)
      BY <1>4, AppendFacts
    <3> QED BY <1>3, <2>2, <3>1, <3>2, <3>3 DEF PortsInv
  <2> QED BY <1>2, <2>1, <2>2
<1>7. PortsInv'
    BY <1>1, <1>3, <1>6 DEF PortsInv
<1>8. PendInv' /\ \A q : Mentioned(q) => Mentioned(q)'
    BY <1>1, <1>3, PendUnchanged
<1>9. ASSUME NEW q \in Ports, RaceInv(q) PROVE RaceInv(q)'
  <2>1. ~lost' => (Settled(q) => Settled(q)')
    <3>1. CASE q = p
      <4>1. ~lost' => queue'[p] # << >>
        BY <1>2, <1>3, <1>4, AppendFacts DEF PortsInv
      <4> QED BY <3>1, <4>1 DEF Settled
    <3>2. CASE q # p
      <4>1. port'[q] = port[q] /\ raised'[q] = raised[q] /\ queue'[q] = queue[q]
        BY <1>1, <1>2, <1>3, <3>2 DEF PortsInv
      <4> QED BY <1>1, <4>1, SettledSame
    <3> QED BY <3>1, <3>2
  <2>2. enabled' = enabled /\ (lost => lost') /\ noteLost' = noteLost /\ reading' = reading
    BY <1>1, <1>2 DEF pendVars
  <2> QED BY <1>8, <1>9, <2>1, <2>2, Undisturbed
<1> QED BY <1>5, <1>7, <1>8, <1>9 DEF FullInv, ServiceInv

LEMMA PolicyEventKeeps ==
    ASSUME FullInv, NEW connected \in BOOLEAN, PolicyEvent(connected)
    PROVE  FullInv'
<1>1. /\ policy' = Append(policy, connected) /\ UNCHANGED pendVars
      /\ UNCHANGED <<port, raised, cached, queue>>
      /\ UNCHANGED <<ppm, enabled, valid, psuConnected, scan, debugTold, seen, reading,
                     raced, lost>>
    BY DEF PolicyEvent, ports, ucsi, opm, drops, pendVars
<1>2. PortsInv /\ RestInv /\ PendInv
    BY DEF FullInv, ServiceInv
<1>3. policy' \in Seq(BOOLEAN)
    BY <1>1, <1>2, AppendFacts DEF RestInv
<1>4. PortsInv' /\ RestInv'
    BY <1>1, <1>2, <1>3 DEF PortsInv, RestInv
<1>5. PendInv' /\ \A q : Mentioned(q) => Mentioned(q)'
    BY <1>1, <1>2, PendUnchanged
<1>6. ASSUME NEW q \in Ports, RaceInv(q) PROVE RaceInv(q)'
  <2>1. Settled(q) => Settled(q)'
    BY <1>1, SettledSame
  <2> QED BY <1>1, <1>5, <1>6, <2>1, Undisturbed DEF pendVars
<1> QED BY <1>4, <1>5, <1>6 DEF FullInv, ServiceInv

\* Pending a port is noticed by the OPM, or is a race with what it reads.
LEMMA PendUcsiPortRace ==
    ASSUME PendInv, NEW p \in Ports, PendUcsiPort(p), told' = told, reading' = reading,
           NumPorts <= MaxPorts
    PROVE  RaceInv(p)'
<1>1. Mentioned(p)' /\ (reading = p => p \in raced')
    BY PendUcsiPortFacts
<1> QED BY <1>1 DEF RaceInv, Settled

LEMMA ProcessPortEventKeeps ==
    ASSUME FullInv, NEW p \in Ports, ProcessPortEvent(p)
    PROVE  FullInv'
<1> DEFINE e == Head(queue[p])
           enables == UcsiEvent(e.bits) \cap enabled # {}
<1>1. /\ queue[p] # << >> /\ valid' = AfterPortEvent(valid, p, e)
      /\ queue' = [queue EXCEPT ![p] = Tail(@)]
      /\ debugTold' = debugTold \/ debugTold' = [debugTold EXCEPT ![p] = IsConnected(e.status)]
      /\ ~enables => UNCHANGED <<pending, notes, raced, overflow, noteLost>>
      /\ enables => PendUcsiPort(p)
      /\ UNCHANGED <<port, raised, cached, policy, ppm, enabled, psuConnected, scan, told,
                     seen, reading, lost>>
    BY DEF ProcessPortEvent, ports, opm
<1>2. PortsInv /\ RestInv /\ PendInv
    BY DEF FullInv, ServiceInv
<1>3. /\ queue[p] \in Seq(PortEvent) /\ e \in PortEvent /\ Tail(queue[p]) \in Seq(PortEvent)
      /\ e = queue[p][1] /\ 1 \in DOMAIN queue[p]
      /\ \A i \in DOMAIN Tail(queue[p]) : i + 1 \in DOMAIN queue[p] /\ Tail(queue[p])[i] = queue[p][i + 1]
  <2>1. queue[p] \in Seq(PortEvent)
    BY <1>2 DEF PortsInv
  <2>2. /\ DOMAIN queue[p] = 1 .. Len(queue[p]) /\ Len(queue[p]) \in Nat \ {0}
        /\ DOMAIN Tail(queue[p]) = 1 .. Len(queue[p]) - 1
    BY <1>1, <2>1, TailFacts
  <2> QED BY <1>1, <2>1, <2>2, TailFacts
<1>4. e.bits \in SUBSET EventBits /\ e.bits # {}
    BY <1>2, <1>3 DEF PortsInv, PortEvent
<1>5. valid' \subseteq Ports /\ \A q \in Ports : q # p => (q \in valid' <=> q \in valid)
    BY <1>1, <1>2 DEF AfterPortEvent, RestInv
<1>6. debugTold' \in [Ports -> BOOLEAN]
    BY <1>1, <1>2 DEF RestInv, IsConnected
<1>7. PortsInv'
  <2>1. queue'[p] = Tail(queue[p]) /\ \A q \in Ports : q # p => queue'[q] = queue[q]
    BY <1>1, <1>2 DEF PortsInv
  <2>2. \A i \in DOMAIN queue[p] : queue[p][i].bits # {}
    BY <1>2 DEF PortsInv
  <2>3. \A i \in DOMAIN Tail(queue[p]) : Tail(queue[p])[i].bits # {}
    BY <1>3, <2>2
  <2>4. \A q \in Ports : \A i \in DOMAIN queue'[q] : queue'[q][i].bits # {}
    BY <1>2, <2>1, <2>3 DEF PortsInv
  <2>5. queue' \in [Ports -> Seq(PortEvent)]
    BY <1>1, <1>2, <1>3 DEF PortsInv
  <2> QED BY <1>1, <1>2, <2>4, <2>5 DEF PortsInv
<1>8. /\ PendInv' /\ raced' \subseteq Ports /\ raced \subseteq raced' /\ (noteLost => noteLost')
      /\ \A q : Mentioned(q) => Mentioned(q)'
  <2>1. CASE enables
    BY <1>1, <1>2, <2>1, PendUcsiPortFacts DEF RestInv
  <2>2. CASE ~enables
    BY <1>1, <1>2, <2>2, PendUnchanged DEF RestInv, pendVars
  <2> QED BY <2>1, <2>2
<1>9. RestInv'
    BY <1>1, <1>2, <1>5, <1>6, <1>8 DEF RestInv
<1>10. ASSUME NEW q \in Ports, RaceInv(q), NumPorts <= MaxPorts PROVE RaceInv(q)'
  <2>1. CASE q = p
    <3>1. CASE enabled = Changes
      <4>1. enables
        BY <1>4, <3>1, ChangesFacts
      <4> QED BY <1>1, <1>2, <1>10, <2>1, <4>1, PendUcsiPortRace
    <3>2. CASE enabled # Changes
      BY <1>1, <3>2 DEF RaceInv
    <3> QED BY <3>1, <3>2
  <2>2. CASE q # p
    <3>1. queue'[q] = queue[q]
      BY <1>1, <1>2, <2>2 DEF PortsInv
    <3>2. Settled(q) => Settled(q)'
      BY <1>1, <1>5, <1>8, <2>2, <3>1, SettledSame
    <3> QED BY <1>1, <1>8, <1>10, <3>2, Undisturbed
  <2> QED BY <2>1, <2>2
<1> QED BY <1>7, <1>8, <1>9, <1>10 DEF FullInv, ServiceInv

\* The scan makes up for what the new consumer may have changed.
LEMMA ProcessPolicyEventKeeps ==
    ASSUME FullInv, ProcessPolicyEvent
    PROVE  FullInv'
<1>1. /\ scan = NumPorts /\ policy # << >> /\ psuConnected' = Head(policy)
      /\ policy' = Tail(policy)
      /\ scan' = IF "battery" \in enabled THEN 0 ELSE NumPorts
      /\ UNCHANGED <<port, raised, cached, queue>> /\ UNCHANGED pendVars
      /\ UNCHANGED <<ppm, enabled, valid, debugTold, seen, reading, raced, lost>>
    BY DEF ProcessPolicyEvent, ports, opm, drops, pendVars
<1>2. PortsInv /\ RestInv /\ PendInv
    BY DEF FullInv, ServiceInv
<1>3. psuConnected' \in BOOLEAN /\ policy' \in Seq(BOOLEAN)
    BY <1>1, <1>2, TailFacts DEF RestInv
<1>4. scan' \in 0 .. NumPorts
    BY <1>1, PortsFacts
<1>5. PortsInv' /\ RestInv'
    BY <1>1, <1>2, <1>3, <1>4 DEF PortsInv, RestInv
<1>6. PendInv' /\ \A q : Mentioned(q) => Mentioned(q)'
    BY <1>1, <1>2, PendUnchanged
<1>7. ASSUME NEW q \in Ports, RaceInv(q) PROVE RaceInv(q)'
  <2>1. ASSUME enabled = Changes, Settled(q) PROVE Settled(q)'
    <3>1. scan' <= q /\ ~(scan <= q)
      BY <1>1, <2>1, ChangesFacts, PortsFacts
    <3>2. ConnectorStatus(q) = StatusWith(q, psuConnected)
      BY DEF ConnectorStatus, BatteryChargingStatus, StatusWith
    <3>3. \A psu \in BOOLEAN : StatusWith(q, psu)' = StatusWith(q, psu)
      BY <1>1 DEF StatusWith
    <3>4. psuConnected \in BOOLEAN
      BY <1>2 DEF RestInv
    <3> QED BY <1>1, <2>1, <3>1, <3>2, <3>3, <3>4 DEF Settled
  <2> QED BY <1>1, <1>6, <1>7, <2>1, Undisturbed DEF pendVars
<1> QED BY <1>5, <1>6, <1>7 DEF FullInv, ServiceInv

\* A port that is not connected reads the same with any consumer.
LEMMA PendConnectedPortKeeps ==
    ASSUME FullInv, PendConnectedPort
    PROVE  FullInv'
<1> DEFINE p == scan
<1>1. /\ p \in Ports /\ scan' = p + 1
      /\ UNCHANGED <<port, raised, cached, queue, policy, ppm, enabled, valid, psuConnected,
                     debugTold, told, seen, reading>>
    BY DEF PendConnectedPort, ports, opm
<1>2. \/ /\ IF IsConnected(port[p]) THEN PendUcsiPort(p)
            ELSE UNCHANGED <<pending, notes, raced, overflow, noteLost>>
         /\ lost' = lost
      \/ lost' = TRUE /\ UNCHANGED <<pending, notes, raced, overflow, noteLost>>
    BY DEF PendConnectedPort
<1>3. PortsInv /\ RestInv /\ PendInv
    BY DEF FullInv, ServiceInv
<1>4. PortsInv'
    BY <1>1, <1>3 DEF PortsInv
<1>5. /\ PendInv' /\ raced' \subseteq Ports /\ raced \subseteq raced' /\ (noteLost => noteLost')
      /\ \A q : Mentioned(q) => Mentioned(q)'
  <2>1. CASE PendUcsiPort(p)
    BY <1>1, <1>3, <2>1, PendUcsiPortFacts DEF RestInv
  <2>2. CASE UNCHANGED <<pending, notes, raced, overflow, noteLost>>
    BY <1>1, <1>3, <2>2, PendUnchanged DEF RestInv, pendVars
  <2> QED BY <1>2, <2>1, <2>2
<1>6. scan' \in 0 .. NumPorts /\ lost' \in BOOLEAN /\ (lost => lost')
    BY <1>1, <1>2, <1>3, PortsFacts DEF RestInv
<1>7. RestInv'
    BY <1>1, <1>3, <1>5, <1>6 DEF RestInv
<1>8. ASSUME NEW q \in Ports, RaceInv(q), NumPorts <= MaxPorts PROVE RaceInv(q)'
  <2>1. CASE q # p
    <3>1. scan <= q => scan' <= q
      BY <1>1, <2>1, PortsFacts
    <3>2. Settled(q) => Settled(q)'
      BY <1>1, <1>5, <3>1, SettledSame
    <3> QED BY <1>1, <1>5, <1>6, <1>8, <3>2, Undisturbed
  <2>2. CASE q = p /\ IsConnected(port[p]) /\ PendUcsiPort(p)
    BY <1>1, <1>3, <1>8, <2>2, PendUcsiPortRace
  <2>3. CASE q = p /\ ~IsConnected(port[p])
    <3>1. ASSUME Settled(q) PROVE Settled(q)'
      <4>1. /\ ConnectorStatus(q)' = ConnectorStatus(q)
            /\ \A psu : StatusWith(q, psu) = ConnectorStatus(q)
        BY <1>1, <2>3 DEF ConnectorStatus, BatteryChargingStatus, StatusWith
      <4> QED BY <1>1, <1>5, <3>1, <4>1 DEF Settled
    <3> QED BY <1>1, <1>5, <1>6, <1>8, <3>1, Undisturbed
  <2>4. CASE lost'
    BY <2>4 DEF RaceInv
  <2> QED BY <1>2, <2>1, <2>2, <2>3, <2>4
<1> QED BY <1>4, <1>5, <1>7, <1>8 DEF FullInv, ServiceInv

\* After a reset or a new choice of notifications what the OPM read counts no
\* more.
LEMMA PpmResetKeeps ==
    ASSUME FullInv, PpmReset
    PROVE  FullInv'
<1>1. /\ ppm' = "Disabled" /\ enabled' = {} /\ pending' = << >> /\ valid' = {} /\ told' = {}
      /\ seen' = [p \in Ports |-> None] /\ reading' = None /\ raced' = {}
      /\ UNCHANGED <<port, raised, cached, queue, policy, psuConnected, scan, notes, debugTold,
                     overflow, lost, noteLost>>
    BY DEF PpmReset, Respond, ConnectorChange, ports, drops
<1>2. PortsInv /\ RestInv /\ PendInv
    BY DEF FullInv, ServiceInv
<1>3. PortsInv' /\ RestInv'
    BY <1>1, <1>2 DEF PortsInv, RestInv
<1>4. PendInv'
  <2>1. << >> \in Seq(Ports) /\ DOMAIN << >> = {}
    OBVIOUS
  <2> QED BY <1>1, <1>2, <2>1 DEF PendInv, Announced
<1>5. \A q \in Ports : RaceInv(q)'
    BY <1>1, ChangesFacts DEF RaceInv
<1> QED BY <1>3, <1>4, <1>5 DEF FullInv, ServiceInv

LEMMA SetNotificationEnableKeeps ==
    ASSUME FullInv, NEW e \in EnableSets, SetNotificationEnable(e)
    PROVE  FullInv'
<1>1. /\ ppm' = "WaitAck" /\ enabled' = e /\ Respond(ConnectorChange(pending), told)
      /\ seen' = [p \in Ports |-> None] /\ reading' = None
      /\ UNCHANGED <<port, raised, cached, queue, policy, pending, valid, psuConnected, scan,
                     notes, debugTold, raced, overflow, lost, noteLost>>
    BY DEF SetNotificationEnable, ports, drops
<1>2. PortsInv /\ RestInv /\ PendInv
    BY DEF FullInv, ServiceInv
<1>3. e \subseteq Changes \cup {"cmd_complete"}
    BY TypeCServiceAssumption
<1>4. PortsInv' /\ RestInv'
    BY <1>1, <1>2, <1>3 DEF PortsInv, RestInv
<1>5. told \subseteq told' /\ told' \subseteq Ports
    BY <1>1, <1>2, RespondFacts
<1>6. PendInv'
    BY <1>1, <1>2, <1>5, PendSame
<1>7. \A q \in Ports : RaceInv(q)'
    BY <1>1 DEF RaceInv, Settled
<1> QED BY <1>4, <1>6, <1>7 DEF FullInv, ServiceInv

LEMMA OtherCommandKeeps ==
    ASSUME FullInv, OtherCommand \/ IgnoredCommand
    PROVE  FullInv'
<1>1. /\ ppm' \in {ppm, "WaitAck"}
      /\ Respond(ConnectorChange(pending), told) \/ Respond(0, told)
      /\ UNCHANGED <<port, raised, cached, queue, policy, enabled, pending, valid, psuConnected,
                     scan, notes, debugTold, seen, reading, raced, overflow, lost, noteLost>>
    BY DEF OtherCommand, IgnoredCommand, ports, ucsi, drops
<1>2. PortsInv /\ RestInv /\ PendInv
    BY DEF FullInv, ServiceInv
<1>3. PortsInv' /\ RestInv'
    BY <1>1, <1>2 DEF PortsInv, RestInv
<1>4. told \subseteq told' /\ told' \subseteq Ports
    BY <1>1, <1>2, RespondFacts
<1>5. PendInv' /\ \A q : Mentioned(q) => Mentioned(q)'
    BY <1>1, <1>2, <1>4, PendSame
<1>6. ASSUME NEW q \in Ports, RaceInv(q) PROVE RaceInv(q)'
  <2>1. Settled(q) => Settled(q)'
    BY <1>1, SettledSame
  <2> QED BY <1>1, <1>5, <1>6, <2>1, Undisturbed
<1> QED BY <1>3, <1>5, <1>6 DEF FullInv, ServiceInv

\* What the OPM has just read is up to date.
LEMMA GetConnectorStatusKeeps ==
    ASSUME FullInv, NEW p \in Ports, GetConnectorStatus(p)
    PROVE  FullInv'
<1>1. /\ ppm' = "WaitAck" /\ Respond(ConnectorChange(pending), told)
      /\ \/ /\ seen' = [seen EXCEPT ![p] = ConnectorStatus(p)]
            /\ reading' \in {p, None} /\ raced' = raced \ {p}
         \/ reading' = None /\ UNCHANGED <<seen, raced>>
      /\ UNCHANGED <<port, raised, cached, queue, policy, enabled, pending, valid, psuConnected,
                     scan, notes, debugTold, overflow, lost, noteLost>>
    BY DEF GetConnectorStatus, ports, drops
<1>2. PortsInv /\ RestInv /\ PendInv
    BY DEF FullInv, ServiceInv
<1>3. ConnectorStatus(p) \in OpmView
    BY <1>2, ConnectorStatusType DEF PortsInv
<1>4. PortsInv'
    BY <1>1, <1>2 DEF PortsInv
<1>5. seen' \in [Ports -> OpmView \cup {None}] /\ reading' \in Ports \cup {None} /\ raced' \subseteq Ports
    BY <1>1, <1>2, <1>3 DEF RestInv
<1>6. RestInv'
    BY <1>1, <1>2, <1>5 DEF RestInv
<1>7. told \subseteq told' /\ told' \subseteq Ports
    BY <1>1, <1>2, RespondFacts
<1>8. PendInv' /\ \A q : Mentioned(q) => Mentioned(q)'
    BY <1>1, <1>2, <1>7, PendSame
<1>9. ASSUME NEW q \in Ports, RaceInv(q) PROVE RaceInv(q)'
  <2>1. CASE seen' = seen /\ raced' = raced /\ reading' = None
    <3>1. Settled(q) => Settled(q)'
      BY <1>1, <2>1, SettledSame
    <3> QED BY <1>1, <1>8, <1>9, <2>1, <3>1, PortsFacts, Undisturbed
  <2>2. CASE seen' = [seen EXCEPT ![p] = ConnectorStatus(p)] /\ reading' \in {p, None}
             /\ raced' = raced \ {p} /\ q = p
    <3>1. seen'[p] = ConnectorStatus(p)
      BY <1>2, <2>2 DEF RestInv
    <3>2. ConnectorStatus(p)' = ConnectorStatus(p)
      BY <1>1 DEF ConnectorStatus, BatteryChargingStatus
    <3>3. Settled(q)'
      BY <2>2, <3>1, <3>2 DEF Settled
    <3> QED BY <3>3 DEF RaceInv
  <2>3. CASE seen' = [seen EXCEPT ![p] = ConnectorStatus(p)] /\ reading' \in {p, None}
             /\ raced' = raced \ {p} /\ q # p
    <3>1. seen'[q] = seen[q] /\ (q \in raced => q \in raced')
      BY <1>2, <2>3 DEF RestInv
    <3>2. Settled(q) => Settled(q)'
      BY <1>1, <3>1, SettledSame
    <3>3. reading' # q
      BY <2>3, PortsFacts
    <3> QED BY <1>1, <1>8, <1>9, <3>2, <3>3, Undisturbed
  <2> QED BY <1>1, <2>1, <2>2, <2>3
<1> QED BY <1>4, <1>6, <1>8, <1>9 DEF FullInv, ServiceInv

LEMMA AckCcCiKeeps ==
    ASSUME FullInv, NEW a \in BOOLEAN, NEW b \in BOOLEAN, AckCcCi(a, b)
    PROVE  FullInv'
<1>1. /\ ppm' \in {"Disabled", "Idle"}
      /\ \/ AckConnectorChange /\ reading' = None
         \/ Respond(0, told) /\ UNCHANGED <<pending, notes, noteLost, reading>>
      /\ UNCHANGED <<port, raised, cached, queue, policy, enabled, valid, psuConnected, scan,
                     debugTold, seen, raced, overflow, lost>>
    BY DEF AckCcCi, ports
<1>2. PortsInv /\ RestInv /\ PendInv
    BY DEF FullInv, ServiceInv
<1>3. PortsInv'
    BY <1>1, <1>2 DEF PortsInv
<1>4. RestInv'
    BY <1>1, <1>2 DEF RestInv
<1>5. /\ PendInv' /\ (noteLost => noteLost')
      /\ ~noteLost => \A q : Mentioned(q) => Mentioned(q)' \/ q = reading
  <2>1. CASE AckConnectorChange
    BY <1>1, <1>2, <2>1, AckConnectorChangeFacts
  <2>2. CASE Respond(0, told) /\ UNCHANGED <<pending, notes, noteLost, reading>>
    <3>1. told \subseteq told' /\ told' \subseteq Ports
      BY <1>2, <2>2, RespondFacts
    <3> QED BY <1>1, <1>2, <2>2, <3>1, PendSame
  <2> QED BY <1>1, <2>1, <2>2
<1>6. ASSUME NEW q \in Ports, RaceInv(q) PROVE RaceInv(q)'
  <2>1. Settled(q) => Settled(q)'
    BY <1>1, SettledSame
  <2>2. ~lost /\ ~noteLost /\ enabled = Changes
            => (Mentioned(q) => Mentioned(q)' \/ Settled(q)')
    BY <1>5, <1>6, <2>1 DEF RaceInv
  <2>3. reading' = q => reading = q
    BY <1>1, PortsFacts
  <2> QED BY <1>1, <1>5, <1>6, <2>1, <2>2, <2>3, Undisturbed
<1> QED BY <1>3, <1>4, <1>5, <1>6 DEF FullInv, ServiceInv

LEMMA TakeNoteKeeps ==
    ASSUME FullInv, TakeNote
    PROVE  FullInv'
<1>1. UNCHANGED <<port, raised, cached, queue>> /\ UNCHANGED restVars
    BY DEF TakeNote, ports, ucsi, drops, restVars
<1>2. PortsInv /\ RestInv /\ PendInv
    BY DEF FullInv, ServiceInv
<1>3. PortsInv' /\ RestInv'
    BY <1>1, <1>2 DEF PortsInv, RestInv, restVars
<1>4. PendInv' /\ noteLost' = noteLost /\ \A q : Mentioned(q) => Mentioned(q)'
    BY <1>2, TakeNoteFacts
<1>5. ASSUME NEW q \in Ports, RaceInv(q) PROVE RaceInv(q)'
  <2>1. Settled(q) => Settled(q)'
    BY <1>1, SettledSame DEF restVars
  <2> QED BY <1>1, <1>4, <1>5, <2>1, Undisturbed DEF restVars
<1> QED BY <1>3, <1>4, <1>5 DEF FullInv, ServiceInv

LEMMA FullStep == FullInv /\ [Next]_vars => FullInv'
<1> SUFFICES ASSUME FullInv, [Next]_vars PROVE FullInv'
    OBVIOUS
<1>1. ASSUME NEW p \in Ports, Changed(p) \/ Report(p) \/ GetConnectorStatus(p) \/ ProcessPortEvent(p)
      PROVE  FullInv'
    BY <1>1, ChangedKeeps, ReportKeeps, GetConnectorStatusKeeps, ProcessPortEventKeeps
<1>2. ASSUME NEW connected \in BOOLEAN, PolicyEvent(connected) PROVE FullInv'
    BY <1>2, PolicyEventKeeps
<1>3. CASE ProcessPolicyEvent \/ PendConnectedPort \/ TakeNote
    BY <1>3, ProcessPolicyEventKeeps, PendConnectedPortKeeps, TakeNoteKeeps
<1>4. CASE PpmReset \/ OtherCommand \/ IgnoredCommand
    BY <1>4, PpmResetKeeps, OtherCommandKeeps
<1>5. ASSUME NEW e \in EnableSets, SetNotificationEnable(e) PROVE FullInv'
    BY <1>5, SetNotificationEnableKeeps
<1>6. ASSUME NEW a \in BOOLEAN, NEW b \in BOOLEAN, AckCcCi(a, b) PROVE FullInv'
    BY <1>6, AckCcCiKeeps
<1>7. CASE UNCHANGED vars
  <2>1. UNCHANGED <<port, raised, cached, queue>> /\ UNCHANGED restVars /\ UNCHANGED pendVars
    BY <1>7 DEF vars, ports, ucsi, opm, drops, restVars, pendVars
  <2>2. PortsInv /\ RestInv /\ PendInv
    BY DEF FullInv, ServiceInv
  <2>3. PortsInv' /\ RestInv'
    BY <2>1, <2>2 DEF PortsInv, RestInv, restVars
  <2>4. PendInv' /\ \A q : Mentioned(q) => Mentioned(q)'
    BY <2>1, <2>2, PendUnchanged
  <2>5. ASSUME NEW q \in Ports, RaceInv(q) PROVE RaceInv(q)'
    <3>1. Settled(q) => Settled(q)'
      BY <2>1, SettledSame DEF restVars
    <3> QED BY <2>1, <2>4, <2>5, <3>1, Undisturbed DEF restVars, pendVars
  <2> QED BY <2>3, <2>4, <2>5 DEF FullInv, ServiceInv
<1> QED BY <1>1, <1>2, <1>3, <1>4, <1>5, <1>6, <1>7 DEF Next, ServiceStep

LEMMA FullInvariant == Spec => []FullInv
<1>1. Init => FullInv
  <2> SUFFICES ASSUME Init PROVE FullInv
    OBVIOUS
  <2>1. \A p \in Ports : RaceInv(p)
    BY ChangesFacts DEF Init, RaceInv
  <2> QED BY <2>1, ServiceInit DEF FullInv
<1> QED BY <1>1, FullStep, PTL DEF Spec

\* For any number of ports and any order of port events, policy events, scans
\* and commands, pend_ucsi_port never runs out of slots, and the pending
\* connector at the front is one the OPM knows of or is being notified of.
THEOREM PendingAnnouncedHolds == Spec => []PendingAnnounced
<1>1. FullInv => PendingAnnounced
    BY ServiceInvImplies DEF FullInv
<1> QED BY <1>1, FullInvariant, PTL

\* With as many slots as ports (MAX_SUPPORTED_PORTS), once everything is quiet
\* the OPM's view of a connector is what GET_CONNECTOR_STATUS would return now,
\* unless the connector changed between the OPM's read and its acknowledgement.
THEOREM OnlyRacesLostHolds ==
    ASSUME NumPorts <= MaxPorts
    PROVE  Spec => []OnlyRacesLost
<1>1. FullInv => OnlyRacesLost
    BY FullInvImplies
<1> QED BY <1>1, FullInvariant, PTL
=============================================================================
