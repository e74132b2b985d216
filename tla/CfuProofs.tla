----------------------------- MODULE CfuProofs ------------------------------
(***************************************************************************)
(* What the tasks between the host and the CFU devices guarantee: the      *)
(* splitter for any set of devices, registered or not, the content buffer  *)
(* for any capacity, and the updater for every tick interval, every        *)
(* timeout and any number of requests.  What they promise is not           *)
(* inductive.  The splitter's invariant says where the one request of the  *)
(* host is, where the copy of it for each device is, and what the answers  *)
(* on their way stand for; the buffer's says, for each await of its task,  *)
(* how many answers the component owes and which blocks stand where.  The  *)
(* updater's is the conjunction of its types, of TickArmed and of          *)
(* IdleIsNormal: a write to a device in the middle of an update is         *)
(* possible only in InProgress because of IdleIsNormal, and a tick that    *)
(* expires belongs to a state that armed it because of TickArmed.  A last  *)
(* result, about the steps that give an update up, needs an invariant on   *)
(* the clock.                                                              *)
(***************************************************************************)
EXTENDS MCCfu, SequenceTheorems, TLAPS

(* The splitter.                                                           *)

\* The host's request is in the splitter's channel, in the join, or answered.
HostInv ==
    \/ sHost = None /\ sSreq = <<>> /\ sCur = None /\ sSresp = <<>>
    \/ sHost \in Splitter!Request /\ sSreq = <<sHost>> /\ sCur = None /\ sSresp = <<>>
    \/ /\ sHost \in Splitter!Request /\ sSreq = <<>> /\ sCur = sHost /\ sSresp = <<>>
       /\ sHost.kind \in Splitter!Broadcast
    \/ /\ sHost \in Splitter!Request /\ sSreq = <<>> /\ sCur = None
       /\ \E a \in Splitter!Answer :
             /\ sSresp = <<a>>
             /\ a.ok /\ sHost.kind \in Splitter!Broadcast => \A d \in Devices : sHost.id \in sTook[d]

\* A route_request that waits has its request in the device's channel, in the
\* device, or answered; no other leaves anything behind in the device.
Waiting(d) ==
    \/ sDreq[d] = <<sCur>> /\ sWork[d] = None /\ sDresp[d] = <<>>
    \/ sDreq[d] = <<>> /\ sWork[d] = sCur /\ sDresp[d] = <<>>
    \/ /\ sDreq[d] = <<>> /\ sWork[d] = None
       /\ \E a \in Splitter!Answer : sDresp[d] = <<a>> /\ (a.ok => sCur.id \in sTook[d])
Silent(d) == sDreq[d] = <<>> /\ sWork[d] = None /\ sDresp[d] = <<>>

DeviceInv(d) ==
    /\ sFut[d].at = "none" <=> sCur = None
    /\ sFut[d].at = "answered" /\ sFut[d].ok => sCur.id \in sTook[d]
    /\ IF sFut[d].at = "wait" THEN Waiting(d) ELSE Silent(d)

SplitterInv == Splitter!TypeOK /\ HostInv /\ \A d \in Devices : DeviceInv(d)

\* The bound on requests is a number, and None is no request.
Params == MaxSplit \in Nat /\ None \notin Splitter!Request

LEMMA SplitterInvImplies == SplitterInv => SplitterHonest
<1> SUFFICES ASSUME SplitterInv PROVE SplitterHonest
    OBVIOUS
<1>1. Splitter!NoLeftover
    BY DEF Splitter!NoLeftover, SplitterInv, DeviceInv, Silent
<1>2. Splitter!SuccessMeansAll
  <2> SUFFICES ASSUME sSresp # <<>>, sHost.kind \in Splitter!Broadcast, Head(sSresp).ok
               PROVE  \A d \in Devices : sHost.id \in sTook[d]
    BY DEF Splitter!SuccessMeansAll, Splitter!HasMessage
  <2>1. PICK a \in Splitter!Answer :
            /\ sSresp = <<a>>
            /\ a.ok /\ sHost.kind \in Splitter!Broadcast => \A d \in Devices : sHost.id \in sTook[d]
    BY DEF SplitterInv, HostInv
  <2>2. Head(sSresp) = a
    BY <2>1
  <2> QED BY <2>1, <2>2
<1> QED BY <1>1, <1>2 DEF SplitterInv, SplitterHonest, Splitter!SplitterHonest

-----------------------------------------------------------------------------
(* Channels one message deep.                                               *)

LEMMA OneDeep ==
    ASSUME NEW S, NEW x \in S
    PROVE  /\ <<>> \in Seq(S) /\ <<x>> \in Seq(S) /\ <<x>> # <<>>
           /\ Len(<<>>) = 0 /\ Len(<<x>>) = 1
           /\ Append(<<>>, x) = <<x>> /\ Head(<<x>>) = x /\ Tail(<<x>>) = <<>>
OBVIOUS

LEMMA AnswersTypes ==
    /\ \A kind : Splitter!Answers(kind) \subseteq Splitter!ResponseKind /\ Splitter!Answers(kind) # {}
    /\ "FwVersionResponse" \in Splitter!ResponseKind /\ "ContentResponse" \in Splitter!ResponseKind
    /\ "OfferResponse" \in Splitter!ResponseKind /\ "ComponentPrepared" \in Splitter!ResponseKind
BY DEF Splitter!Answers, Splitter!ResponseKind

LEMMA SplitterInit ==
    ASSUME Params, Splitter!Init
    PROVE  SplitterInv
<1>1. <<>> \in Seq(Splitter!Request) /\ <<>> \in Seq(Splitter!Answer) /\ Len(<<>>) = 0
    OBVIOUS
<1>2. Splitter!TypeOK
    BY <1>1 DEF Params, Splitter!Init, Splitter!TypeOK, Splitter!At, Splitter!DEVICE_CHANNEL_SIZE
<1>3. HostInv
    BY DEF Splitter!Init, HostInv
<1>4. \A d \in Devices : DeviceInv(d)
    BY DEF Splitter!Init, DeviceInv, Splitter!At, Silent
<1> QED BY <1>2, <1>3, <1>4 DEF SplitterInv

-----------------------------------------------------------------------------
(* The host.                                                                *)

LEMMA SendRequestKeeps ==
    ASSUME Params, SplitterInv, NEW kind \in Splitter!RequestKind, Splitter!SendRequest(kind)
    PROVE  SplitterInv'
<1> DEFINE r == [kind |-> kind, id |-> sN + 1]
<1>1. /\ sHost = None /\ sN < MaxSplit /\ sN' = sN + 1 /\ sHost' = r /\ sSreq' = Append(sSreq, r)
      /\ UNCHANGED <<sSresp, sCur, sFut, sDreq, sDresp, sWork, sTook, sRegistered>>
    BY DEF Splitter!SendRequest, Splitter!deviceVars
<1>2. sN' \in 0..MaxSplit /\ r \in Splitter!Request
    BY <1>1 DEF Params, SplitterInv, Splitter!TypeOK, Splitter!Request
<1> HIDE DEF r
<1>3. sSreq = <<>> /\ sCur = None /\ sSresp = <<>>
    BY <1>1 DEF Params, SplitterInv, HostInv
<1>4. sSreq' = <<r>> /\ sSreq' \in Seq(Splitter!Request)
    BY <1>1, <1>2, <1>3, OneDeep
<1>5. Splitter!TypeOK'
    BY <1>1, <1>2, <1>4 DEF SplitterInv, Splitter!TypeOK
<1>6. HostInv'
    BY <1>1, <1>2, <1>3, <1>4 DEF HostInv
<1>7. \A d \in Devices : DeviceInv(d)'
    BY <1>1 DEF SplitterInv, DeviceInv, Waiting, Silent
<1> QED BY <1>5, <1>6, <1>7 DEF SplitterInv

LEMMA ReceiveResponseKeeps ==
    ASSUME Params, SplitterInv, Splitter!ReceiveResponse
    PROVE  SplitterInv'
<1>1. /\ sSresp # <<>> /\ sSresp' = Tail(sSresp) /\ sHost' = None
      /\ UNCHANGED <<sN, sSreq, sCur, sFut, sDreq, sDresp, sWork, sTook, sRegistered>>
    BY DEF Splitter!ReceiveResponse, Splitter!HasMessage, Splitter!deviceVars
<1>2. sSreq = <<>> /\ sCur = None /\ \E a \in Splitter!Answer : sSresp = <<a>>
    BY <1>1 DEF SplitterInv, HostInv
<1>3. sSresp' = <<>> /\ sSresp' \in Seq(Splitter!Answer) /\ Len(sSresp') = 0
    BY <1>1, <1>2, OneDeep
<1>4. Splitter!TypeOK'
    BY <1>1, <1>3 DEF SplitterInv, Splitter!TypeOK, Splitter!DEVICE_CHANNEL_SIZE
<1>5. HostInv'
    BY <1>1, <1>2, <1>3 DEF HostInv
<1>6. \A d \in Devices : DeviceInv(d)'
    BY <1>1 DEF SplitterInv, DeviceInv, Waiting, Silent
<1> QED BY <1>4, <1>5, <1>6 DEF SplitterInv

-----------------------------------------------------------------------------
(* The splitter.                                                            *)

LEMMA ProcessLocallyKeeps ==
    ASSUME Params, SplitterInv, Splitter!ProcessLocally
    PROVE  SplitterInv'
<1> DEFINE a == Splitter!Local(Head(sSreq).kind)
<1>1. /\ sSreq # <<>> /\ Head(sSreq).kind \notin Splitter!Broadcast /\ sSreq' = Tail(sSreq)
      /\ sSresp' = Append(sSresp, a)
      /\ UNCHANGED <<sHost, sN, sCur, sFut, sDreq, sDresp, sWork, sTook, sRegistered>>
    BY DEF Splitter!ProcessLocally, Splitter!HasMessage, Splitter!hostVars, Splitter!deviceVars
<1>2. a \in Splitter!Answer
    BY AnswersTypes DEF Splitter!Local, Splitter!Answer
<1> HIDE DEF a
<1>3. sHost \in Splitter!Request /\ sSreq = <<sHost>> /\ sCur = None /\ sSresp = <<>>
    BY <1>1 DEF SplitterInv, HostInv
<1>4. /\ sHost.kind \notin Splitter!Broadcast /\ sSreq' = <<>> /\ sSreq' \in Seq(Splitter!Request)
      /\ sSresp' = <<a>> /\ sSresp' \in Seq(Splitter!Answer) /\ Len(sSresp') = 1
    BY <1>1, <1>2, <1>3, OneDeep
<1>5. Splitter!TypeOK'
    BY <1>1, <1>4 DEF SplitterInv, Splitter!TypeOK, Splitter!DEVICE_CHANNEL_SIZE
<1>6. HostInv'
    BY <1>1, <1>2, <1>3, <1>4 DEF HostInv
<1>7. \A d \in Devices : DeviceInv(d)'
    BY <1>1 DEF SplitterInv, DeviceInv, Waiting, Silent
<1> QED BY <1>5, <1>6, <1>7 DEF SplitterInv

LEMMA StartJoinKeeps ==
    ASSUME Params, SplitterInv, Splitter!StartJoin
    PROVE  SplitterInv'
<1>1. /\ sCur = None /\ sSreq # <<>> /\ Head(sSreq).kind \in Splitter!Broadcast /\ sCur' = Head(sSreq)
      /\ sSreq' = Tail(sSreq)
      /\ sFut' = [d \in Devices |-> Splitter!At(IF d \in sRegistered THEN "send" ELSE "failed")]
      /\ UNCHANGED <<sHost, sN, sSresp, sDreq, sDresp, sWork, sTook, sRegistered>>
    BY DEF Splitter!StartJoin, Splitter!HasMessage, Splitter!hostVars, Splitter!deviceVars
<1>2. sHost \in Splitter!Request /\ sSreq = <<sHost>> /\ sSresp = <<>>
    BY <1>1 DEF SplitterInv, HostInv
<1>3. sCur' = sHost /\ sHost.kind \in Splitter!Broadcast /\ sSreq' = <<>> /\ sSreq' \in Seq(Splitter!Request)
    BY <1>1, <1>2, OneDeep
<1>4. \A d \in Devices : sFut'[d].at \in {"send", "failed"} /\ sFut'[d] \in
          [at : {"none", "send", "wait", "failed", "answered"}, ok : BOOLEAN]
    BY <1>1 DEF Splitter!At
<1>5. Splitter!TypeOK'
  <2>1. sFut' \in [Devices -> [at : {"none", "send", "wait", "failed", "answered"}, ok : BOOLEAN]]
    BY <1>1, <1>4
  <2> QED BY <1>1, <1>2, <1>3, <2>1 DEF SplitterInv, Splitter!TypeOK
<1>6. HostInv'
    BY <1>1, <1>2, <1>3 DEF HostInv
<1>7. ASSUME NEW d \in Devices PROVE DeviceInv(d)'
  <2>1. Silent(d)
    BY <1>1 DEF SplitterInv, DeviceInv
  <2>2. Silent(d)'
    BY <1>1, <2>1 DEF Silent
  <2>3. sCur' # None
    BY <1>2, <1>3 DEF Params
  <2> QED BY <1>4, <2>2, <2>3 DEF DeviceInv
<1> QED BY <1>5, <1>6, <1>7 DEF SplitterInv

LEMMA RouteSendKeeps ==
    ASSUME Params, SplitterInv, NEW d \in Devices, Splitter!RouteSend(d)
    PROVE  SplitterInv'
<1>1. /\ sFut[d].at = "send" /\ sDreq' = [sDreq EXCEPT ![d] = Append(@, sCur)]
      /\ sFut' = [sFut EXCEPT ![d].at = "wait"]
      /\ UNCHANGED <<sHost, sN, sSreq, sSresp, sCur, sDresp, sWork, sTook, sRegistered>>
    BY DEF Splitter!RouteSend, Splitter!hostVars
<1>2. /\ sFut \in [Devices -> [at : {"none", "send", "wait", "failed", "answered"}, ok : BOOLEAN]]
      /\ sDreq \in [Devices -> Seq(Splitter!Request)]
    BY DEF SplitterInv, Splitter!TypeOK
<1>3. sCur \in Splitter!Request /\ Silent(d)
    BY <1>1 DEF SplitterInv, Splitter!TypeOK, DeviceInv
<1>4. sDreq'[d] = <<sCur>> /\ sDreq'[d] \in Seq(Splitter!Request) /\ Len(sDreq'[d]) = 1
    BY <1>1, <1>2, <1>3, OneDeep DEF Silent
<1>5. \A e \in Devices \ {d} : sDreq'[e] = sDreq[e] /\ sFut'[e] = sFut[e]
    BY <1>1, <1>2
<1>6. sFut'[d].at = "wait" /\ sFut'[d].ok = sFut[d].ok
    BY <1>1, <1>2
<1>7. Splitter!TypeOK'
  <2>1. sDreq' \in [Devices -> Seq(Splitter!Request)]
    BY <1>1, <1>2, <1>4, <1>5
  <2>2. sFut' \in [Devices -> [at : {"none", "send", "wait", "failed", "answered"}, ok : BOOLEAN]]
    BY <1>1, <1>2
  <2>3. ASSUME NEW e \in Devices PROVE Len(sDreq'[e]) <= Splitter!DEVICE_CHANNEL_SIZE
    <3>1. CASE e = d
      <4>1. Len(sDreq'[e]) = 1
        BY <1>4, <3>1, Zenon
      <4> QED BY <4>1 DEF Splitter!DEVICE_CHANNEL_SIZE
    <3>2. CASE e # d
      BY <1>5, <3>2 DEF SplitterInv, Splitter!TypeOK
    <3> QED BY <3>1, <3>2
  <2> QED BY <1>1, <2>1, <2>2, <2>3 DEF SplitterInv, Splitter!TypeOK
<1>8. HostInv'
    BY <1>1 DEF SplitterInv, HostInv
<1>9. DeviceInv(d)'
  <2>1. Waiting(d)'
    BY <1>1, <1>3, <1>4 DEF Silent, Waiting
  <2> QED BY <1>1, <1>3, <1>6, <2>1 DEF DeviceInv, Params
<1>10. \A e \in Devices \ {d} : DeviceInv(e)'
    BY <1>1, <1>5 DEF SplitterInv, DeviceInv, Waiting, Silent
<1> QED BY <1>7, <1>8, <1>9, <1>10 DEF SplitterInv

LEMMA RouteAnsweredKeeps ==
    ASSUME Params, SplitterInv, NEW d \in Devices, Splitter!RouteAnswered(d)
    PROVE  SplitterInv'
<1> DEFINE place == IF Head(sDresp[d]).kind \in Splitter!Answers(sCur.kind) THEN "answered" ELSE "failed"
<1>1. /\ sFut[d].at = "wait" /\ sDresp[d] # <<>> /\ sDresp' = [sDresp EXCEPT ![d] = Tail(@)]
      /\ sFut' = [sFut EXCEPT ![d] = [at |-> place, ok |-> Head(sDresp[d]).ok]]
      /\ UNCHANGED <<sHost, sN, sSreq, sSresp, sCur, sDreq, sWork, sTook, sRegistered>>
    BY DEF Splitter!RouteAnswered, Splitter!HasMessage, Splitter!hostVars
<1>2. place \in {"answered", "failed"}
    OBVIOUS
<1> HIDE DEF place
<1>3. /\ sFut \in [Devices -> [at : {"none", "send", "wait", "failed", "answered"}, ok : BOOLEAN]]
      /\ sDresp \in [Devices -> Seq(Splitter!Answer)]
    BY DEF SplitterInv, Splitter!TypeOK
<1>4. sCur # None /\ Waiting(d)
    BY <1>1 DEF SplitterInv, DeviceInv
<1>5. PICK a \in Splitter!Answer : sDresp[d] = <<a>> /\ (a.ok => sCur.id \in sTook[d])
    BY <1>1, <1>4 DEF Waiting
<1>6. sDreq[d] = <<>> /\ sWork[d] = None
    BY <1>1, <1>4 DEF Waiting
<1>7. sDresp'[d] = <<>> /\ sDresp'[d] \in Seq(Splitter!Answer) /\ Len(sDresp'[d]) = 0
    BY <1>1, <1>3, <1>5, OneDeep
<1>8. \A e \in Devices \ {d} : sDresp'[e] = sDresp[e] /\ sFut'[e] = sFut[e]
    BY <1>1, <1>3
<1>9. sFut'[d].at = place /\ sFut'[d].ok = a.ok /\ a.ok \in BOOLEAN
  <2>1. Head(sDresp[d]) = a
    BY <1>5, OneDeep
  <2> QED BY <1>1, <1>3, <2>1 DEF Splitter!Answer
<1>10. Splitter!TypeOK'
  <2>1. sDresp' \in [Devices -> Seq(Splitter!Answer)]
    BY <1>1, <1>3, <1>7, <1>8
  <2>2. sFut' \in [Devices -> [at : {"none", "send", "wait", "failed", "answered"}, ok : BOOLEAN]]
    <3>1. Head(sDresp[d]).ok \in BOOLEAN
      BY <1>5, OneDeep DEF Splitter!Answer
    <3> QED BY <1>1, <1>2, <1>3, <3>1
  <2>3. \A e \in Devices : Len(sDresp'[e]) <= Splitter!DEVICE_CHANNEL_SIZE
    BY <1>7, <1>8 DEF SplitterInv, Splitter!TypeOK, Splitter!DEVICE_CHANNEL_SIZE
  <2> QED BY <1>1, <2>1, <2>2, <2>3 DEF SplitterInv, Splitter!TypeOK
<1>11. HostInv'
    BY <1>1 DEF SplitterInv, HostInv
<1>12. DeviceInv(d)'
    BY <1>1, <1>2, <1>4, <1>5, <1>6, <1>7, <1>9 DEF DeviceInv, Silent
<1>13. \A e \in Devices \ {d} : DeviceInv(e)'
    BY <1>1, <1>8 DEF SplitterInv, DeviceInv, Waiting, Silent
<1> QED BY <1>10, <1>11, <1>12, <1>13 DEF SplitterInv

\* The join answers with success only when every future did, each for a device
\* that has carried the request out.
LEMMA FinishJoinKeeps ==
    ASSUME Params, SplitterInv, Splitter!FinishJoin
    PROVE  SplitterInv'
<1> DEFINE a == Splitter!Resolved
<1>1. /\ sCur # None /\ Splitter!JoinDone /\ sSresp' = Append(sSresp, a) /\ sCur' = None
      /\ sFut' = [d \in Devices |-> Splitter!At("none")]
      /\ UNCHANGED <<sHost, sN, sSreq, sDreq, sDresp, sWork, sTook, sRegistered>>
    BY DEF Splitter!FinishJoin, Splitter!hostVars, Splitter!deviceVars
<1>2. a \in Splitter!Answer
  <2>1. (CHOOSE k \in Splitter!Answers(sCur.kind) : TRUE) \in Splitter!ResponseKind
    BY AnswersTypes
  <2>2. Splitter!ResolvedOk \in BOOLEAN
    BY DEF Splitter!ResolvedOk
  <2> QED BY <2>1, <2>2, AnswersTypes DEF Splitter!Resolved, Splitter!Answer
<1>3. a.ok => \A d \in Devices : sCur.id \in sTook[d]
  <2>1. ASSUME a.ok PROVE Splitter!AllAnswered /\ Splitter!ResolvedOk
    BY <2>1 DEF Splitter!Resolved
  <2>2. ASSUME Splitter!AllAnswered, Splitter!ResolvedOk, NEW d \in Devices PROVE sCur.id \in sTook[d]
    <3>1. sFut[d].at \in {"none", "send", "wait", "failed", "answered"} /\ DeviceInv(d)
      BY DEF SplitterInv, Splitter!TypeOK
    <3>2. sFut[d].at = "answered"
      BY <1>1, <2>2, <3>1 DEF Splitter!JoinDone, Splitter!AllAnswered, DeviceInv
    <3> QED BY <2>2, <3>1, <3>2 DEF Splitter!ResolvedOk, DeviceInv
  <2> QED BY <2>1, <2>2
<1> HIDE DEF a
<1>4. sHost \in Splitter!Request /\ sCur = sHost /\ sSreq = <<>> /\ sSresp = <<>>
    BY <1>1 DEF SplitterInv, HostInv
<1>5. sSresp' = <<a>> /\ sSresp' \in Seq(Splitter!Answer) /\ Len(sSresp') = 1
    BY <1>1, <1>2, <1>4, OneDeep
<1>6. \A d \in Devices : sFut'[d].at = "none"
    BY <1>1 DEF Splitter!At
<1>7. Splitter!TypeOK'
    BY <1>1, <1>4, <1>5 DEF SplitterInv, Splitter!TypeOK, Splitter!At, Splitter!DEVICE_CHANNEL_SIZE
<1>8. HostInv'
    BY <1>1, <1>2, <1>3, <1>4, <1>5 DEF HostInv
<1>9. ASSUME NEW d \in Devices PROVE DeviceInv(d)'
  <2>1. Silent(d)
    BY <1>1 DEF SplitterInv, DeviceInv, Splitter!JoinDone
  <2>2. Silent(d)'
    BY <1>1, <2>1 DEF Silent
  <2> QED BY <1>1, <1>6, <2>2 DEF DeviceInv
<1> QED BY <1>7, <1>8, <1>9 DEF SplitterInv

-----------------------------------------------------------------------------
(* The devices.                                                             *)

LEMMA DeviceTakesKeeps ==
    ASSUME Params, SplitterInv, NEW d \in Devices, Splitter!DeviceTakes(d)
    PROVE  SplitterInv'
<1>1. /\ sWork[d] = None /\ sDreq[d] # <<>> /\ sWork' = [sWork EXCEPT ![d] = Head(sDreq[d])]
      /\ sDreq' = [sDreq EXCEPT ![d] = Tail(@)]
      /\ UNCHANGED <<sHost, sN, sSreq, sSresp, sCur, sFut, sDresp, sTook, sRegistered>>
    BY DEF Splitter!DeviceTakes, Splitter!HasMessage, Splitter!hostVars
<1>2. sDreq \in [Devices -> Seq(Splitter!Request)] /\ sWork \in [Devices -> Splitter!Request \cup {None}]
    BY DEF SplitterInv, Splitter!TypeOK
<1>3. sFut[d].at = "wait" /\ sDreq[d] = <<sCur>> /\ sDresp[d] = <<>>
    BY <1>1 DEF SplitterInv, DeviceInv, Waiting, Silent
<1>4. sCur \in Splitter!Request
    BY <1>3 DEF SplitterInv, DeviceInv, Splitter!TypeOK
<1>5. sWork'[d] = sCur /\ sDreq'[d] = <<>> /\ sDreq'[d] \in Seq(Splitter!Request) /\ Len(sDreq'[d]) = 0
    BY <1>1, <1>2, <1>3, <1>4, OneDeep
<1>6. \A e \in Devices \ {d} : sWork'[e] = sWork[e] /\ sDreq'[e] = sDreq[e]
    BY <1>1, <1>2
<1>7. Splitter!TypeOK'
  <2>1. sDreq' \in [Devices -> Seq(Splitter!Request)] /\ sWork' \in [Devices -> Splitter!Request \cup {None}]
    BY <1>1, <1>2, <1>4, <1>5, <1>6
  <2>2. \A e \in Devices : Len(sDreq'[e]) <= Splitter!DEVICE_CHANNEL_SIZE
    BY <1>5, <1>6 DEF SplitterInv, Splitter!TypeOK, Splitter!DEVICE_CHANNEL_SIZE
  <2> QED BY <1>1, <2>1, <2>2 DEF SplitterInv, Splitter!TypeOK
<1>8. HostInv'
    BY <1>1 DEF SplitterInv, HostInv
<1>9. DeviceInv(d)'
  <2>1. Waiting(d)'
    BY <1>1, <1>3, <1>5 DEF Waiting
  <2> QED BY <1>1, <1>3, <2>1 DEF SplitterInv, DeviceInv
<1>10. \A e \in Devices \ {d} : DeviceInv(e)'
    BY <1>1, <1>6 DEF SplitterInv, DeviceInv, Waiting, Silent
<1> QED BY <1>7, <1>8, <1>9, <1>10 DEF SplitterInv

LEMMA DeviceAnswersKeeps ==
    ASSUME Params, SplitterInv, NEW d \in Devices, NEW a \in Splitter!Answer, Splitter!DeviceAnswers(d, a)
    PROVE  SplitterInv'
<1>1. /\ sWork[d] # None /\ sDresp' = [sDresp EXCEPT ![d] = Append(@, a)]
      /\ sTook' = [sTook EXCEPT ![d] = IF a.ok THEN @ \cup {sWork[d].id} ELSE @]
      /\ sWork' = [sWork EXCEPT ![d] = None]
      /\ UNCHANGED <<sHost, sN, sSreq, sSresp, sCur, sFut, sDreq, sRegistered>>
    BY DEF Splitter!DeviceAnswers, Splitter!hostVars
<1>2. /\ sDresp \in [Devices -> Seq(Splitter!Answer)] /\ sWork \in [Devices -> Splitter!Request \cup {None}]
      /\ sTook \in [Devices -> SUBSET (1..MaxSplit)]
    BY DEF SplitterInv, Splitter!TypeOK
<1>3. sFut[d].at = "wait" /\ sDreq[d] = <<>> /\ sWork[d] = sCur /\ sDresp[d] = <<>>
    BY <1>1 DEF SplitterInv, DeviceInv, Waiting, Silent
<1>4. sCur \in Splitter!Request /\ sCur.id \in 1..MaxSplit
  <2>1. sCur \in Splitter!Request
    BY <1>3 DEF SplitterInv, DeviceInv, Splitter!TypeOK
  <2> QED BY <2>1 DEF Splitter!Request
<1>5. sDresp'[d] = <<a>> /\ sDresp'[d] \in Seq(Splitter!Answer) /\ Len(sDresp'[d]) = 1
    BY <1>1, <1>2, <1>3, OneDeep
<1>6. sWork'[d] = None /\ (a.ok => sCur.id \in sTook'[d])
    BY <1>1, <1>2, <1>3
<1>7. \A e \in Devices \ {d} : sWork'[e] = sWork[e] /\ sDresp'[e] = sDresp[e] /\ sTook'[e] = sTook[e]
    BY <1>1, <1>2
<1>8. \A e \in Devices : sTook[e] \subseteq sTook'[e]
    BY <1>1, <1>2
<1>9. Splitter!TypeOK'
  <2>1. sDresp' \in [Devices -> Seq(Splitter!Answer)] /\ sWork' \in [Devices -> Splitter!Request \cup {None}]
    BY <1>1, <1>2, <1>5, <1>7
  <2>2. sTook' \in [Devices -> SUBSET (1..MaxSplit)]
    BY <1>1, <1>2, <1>3, <1>4
  <2>3. ASSUME NEW e \in Devices PROVE Len(sDresp'[e]) <= Splitter!DEVICE_CHANNEL_SIZE
    <3>1. CASE e = d
      <4>1. Len(sDresp'[e]) = 1
        BY <1>5, <3>1, Zenon
      <4> QED BY <4>1 DEF Splitter!DEVICE_CHANNEL_SIZE
    <3>2. CASE e # d
      BY <1>7, <3>2 DEF SplitterInv, Splitter!TypeOK
    <3> QED BY <3>1, <3>2
  <2> QED BY <1>1, <2>1, <2>2, <2>3 DEF SplitterInv, Splitter!TypeOK
<1>10. HostInv'
    BY <1>1, <1>8 DEF SplitterInv, HostInv
<1>11. DeviceInv(d)'
  <2>1. Waiting(d)'
    BY <1>1, <1>3, <1>5, <1>6 DEF Waiting
  <2> QED BY <1>1, <1>3, <2>1 DEF SplitterInv, DeviceInv
<1>12. \A e \in Devices \ {d} : DeviceInv(e)'
    BY <1>1, <1>7 DEF SplitterInv, DeviceInv, Waiting, Silent
<1> QED BY <1>9, <1>10, <1>11, <1>12 DEF SplitterInv

-----------------------------------------------------------------------------

LEMMA SplitterStep == Params /\ SplitterInv /\ [Splitter!Next]_(Splitter!vars) => SplitterInv'
<1> SUFFICES ASSUME Params, SplitterInv, [Splitter!Next]_(Splitter!vars) PROVE SplitterInv'
    OBVIOUS
<1>1. CASE Splitter!SplitterTask
    BY <1>1, ProcessLocallyKeeps, StartJoinKeeps, RouteSendKeeps, RouteAnsweredKeeps,
       FinishJoinKeeps DEF Splitter!SplitterTask
<1>2. ASSUME NEW d \in Devices, Splitter!DeviceTask(d) PROVE SplitterInv'
    BY <1>2, DeviceTakesKeeps, DeviceAnswersKeeps DEF Splitter!DeviceTask
<1>3. CASE UNCHANGED Splitter!vars
  <2>1. UNCHANGED <<sHost, sN, sSreq, sSresp, sCur, sFut, sDreq, sDresp, sWork, sTook, sRegistered>>
    BY <1>3 DEF Splitter!vars, Splitter!hostVars, Splitter!deviceVars
  <2> QED BY <2>1 DEF SplitterInv, Splitter!TypeOK, HostInv, DeviceInv, Waiting, Silent
<1> QED BY <1>1, <1>2, <1>3, SendRequestKeeps, ReceiveResponseKeeps DEF Splitter!Next

\* Between two requests no device owes the splitter an answer, and a host that
\* is told of success has every device with it, for any set of devices that
\* process_request joins, any of them missing, busy or failing.
THEOREM SplitterHonestHolds ==
    ASSUME MaxSplit \in Nat, None \notin Splitter!Request
    PROVE  Splitter!Spec => []SplitterHonest
<1>1. Params
    BY DEF Params
<1>2. Splitter!Init => SplitterInv
    BY <1>1, SplitterInit
<1>3. SplitterInv /\ [Splitter!Next]_(Splitter!vars) => SplitterInv'
    BY <1>1, SplitterStep
<1> QED BY <1>2, <1>3, SplitterInvImplies, PTL DEF Splitter!Spec

-----------------------------------------------------------------------------
(* The content buffer.                                                     *)

\* Where the buffer task holds a block for the component.
Sending == {"sendContent", "sendBuffered"}

\* Where the buffer task holds a request of the host.
Handling == Buffer!Pcs \ {"wait", "sendBuffered"}

\* The host waits for one request, which is in the channel, in the hands of the
\* buffer task, or answered.
HostWaitInv ==
    \/ bHost = None /\ bHreq = <<>> /\ bHresp = <<>> /\ bPc \notin Handling
    \/ /\ bHost # None
       /\ \/ bHreq = <<bHost>> /\ bHresp = <<>> /\ bPc \notin Handling
          \/ bHreq = <<>> /\ bHresp = <<>> /\ bPc \in Handling
          \/ bHreq = <<>> /\ Len(bHresp) = 1 /\ bPc \notin Handling

\* What the buffer task works on at each await.
CurrentInv ==
    /\ bPc \in Buffer!Pcs \ {"wait", "reply"} => bCur \in Buffer!Request
    /\ bPc \in Sending \cup {"buffer"} => bCur.kind = "GiveContent"
    /\ bPc \in {"route", "routed"} => bCur.kind \in {"FwVersionRequest", "GiveOffer", "AbortUpdate"}
    /\ bPc = "reply" => bCur \in Buffer!Response
    /\ bPending # None => bPending \in Buffer!Response

\* How many answers the component owes at each await.
BusyInv ==
    CASE bPc \in Sending -> Buffer!Outstanding = 0 /\ ~bBusy
      [] bPc = "buffer" -> Buffer!Outstanding = 1 /\ bBusy
      [] bPc = "await" -> Buffer!Outstanding = 1
      [] bPc = "routed" -> Buffer!Outstanding = IF bBusy THEN 2 ELSE 1
      [] OTHER -> Buffer!Outstanding = IF bBusy THEN 1 ELSE 0

\* The blocks in the hands of the buffer task, and those that the component has
\* or gets before the ones in the buffer.
InHand == IF bPc \in Sending \cup {"buffer"} THEN 1 ELSE 0
Ahead == Len(bGot) + Buffer!Contents(bCreq) + (IF bPc \in Sending THEN 1 ELSE 0)

\* Received, on their way, in hand, buffered and just sent, the blocks stand one
\* behind the other in the order of the host.
PipeInv ==
    /\ \A i \in 1..Len(bGot) : bGot[i] = i
    /\ \A i \in 1..Len(bSent) : bSent[i] = i
    /\ Len(bSent) = Len(bGot) + Buffer!Contents(bCreq) + InHand + Len(bBuf) + Buffer!Contents(bHreq)
    /\ Buffer!Contents(bCreq) = 1 => bCreq[1].block = Len(bGot) + 1
    /\ bPc \in Sending => bCur.block = Ahead
    /\ \A i \in 1..Len(bBuf) : bBuf[i].kind = "GiveContent" /\ bBuf[i].block = Ahead + i
    /\ bPc = "sendContent" => bBuf = <<>>
    /\ bPc = "buffer" => bCur.block = Ahead + Len(bBuf) + 1
    /\ Buffer!Contents(bHreq) = 1 => bHreq[1].block = Len(bSent)
    /\ bUpdate <= Len(bSent)

BufferInv == Buffer!TypeOK /\ HostWaitInv /\ CurrentInv /\ BusyInv /\ PipeInv

-----------------------------------------------------------------------------
\* The capacity and the bounds are numbers, and None is no message.
BufferParams ==
    /\ BufferSize \in Nat /\ MaxBlocks \in Nat /\ MaxOthers \in Nat
    /\ BufferKinds \subseteq Buffer!RequestKind
    /\ None \notin Buffer!Request \cup Buffer!Response

LEMMA OneMessage ==
    ASSUME NEW S, NEW q \in Seq(S), Len(q) <= 1, q # <<>>
    PROVE  /\ Len(q) = 1 /\ Tail(q) = <<>> /\ Head(q) \in S /\ Head(q) = q[1] /\ q = <<q[1]>>
<1>0. Len(q) \in Nat \ {0}
    BY EmptySeq
<1>1. Len(q) = 1
    BY <1>0
<1>2. Tail(q) \in Seq(S) /\ Len(Tail(q)) = 0
    BY <1>1
<1>3. q[1] \in S /\ Head(q) = q[1]
    BY <1>1
<1>4. q = <<q[1]>>
    BY <1>1, <1>3
<1>5. Tail(q) = <<>>
    BY <1>2, EmptySeq
<1> QED BY <1>1, <1>3, <1>4, <1>5

LEMMA NoMessage ==
    ASSUME NEW S, NEW q \in Seq(S), Len(q) < 1, NEW e \in S
    PROVE  /\ q = <<>> /\ Append(q, e) \in Seq(S) /\ Len(Append(q, e)) = 1 /\ Append(q, e)[1] = e
           /\ Head(Append(q, e)) = e /\ Append(q, e) # <<>> /\ Append(q, e) = <<e>>
<1>1. q = <<>>
    BY EmptySeq
<1> QED BY <1>1

LEMMA BufferInit == BufferParams /\ Buffer!Init => BufferInv
<1> SUFFICES ASSUME BufferParams, Buffer!Init PROVE BufferInv
    OBVIOUS
<1> USE DEF BufferParams, Buffer!Init
<1>0. /\ <<>> \in Seq(Buffer!Request) /\ <<>> \in Seq(Buffer!Response) /\ <<>> \in Seq(1..MaxBlocks)
      /\ Len(<<>>) = 0
      /\ bPc \in Buffer!Pcs /\ 0 <= BufferSize /\ 0 <= 1 /\ 0 \in 0..MaxBlocks /\ 0 \in 0..MaxOthers
    BY DEF Buffer!Pcs
<1>1. Buffer!TypeOK
    BY <1>0, Zenon DEF Buffer!TypeOK, Buffer!DEVICE_CHANNEL_SIZE
<1>2. HostWaitInv /\ CurrentInv
    BY DEF HostWaitInv, CurrentInv, Buffer!Pcs, Handling, Sending
<1>3. Buffer!Contents(bCreq) = 0 /\ Buffer!Contents(bHreq) = 0
    BY DEF Buffer!Contents, Buffer!HasMessage
<1>4. Buffer!Outstanding = 0 /\ InHand = 0
    BY DEF Buffer!Outstanding, InHand, Sending
<1>5. BusyInv
    BY <1>4 DEF BusyInv, Sending
<1>6. PipeInv
    BY <1>3, <1>4 DEF PipeInv, Sending
<1> QED BY <1>1, <1>2, <1>5, <1>6 DEF BufferInv

LEMMA SendContentKeeps ==
    ASSUME BufferParams, BufferInv, NEW starts \in BOOLEAN, Buffer!SendContent(starts)
    PROVE  BufferInv'
<1> USE DEF BufferParams, BufferInv, Buffer!DEVICE_CHANNEL_SIZE
<1>1. /\ bHost = None /\ Len(bSent) < MaxBlocks
      /\ bUpdate' = IF starts THEN bUpdate + 1 ELSE bUpdate
      /\ bHost' = [kind |-> "GiveContent", block |-> Len(bSent) + 1, update |-> bUpdate', first |-> starts]
      /\ bHreq' = Append(bHreq, bHost')
      /\ bSent' = Append(bSent, Len(bSent) + 1)
      /\ UNCHANGED <<bOthers, bHresp, bPc, bCur, bBusy, bPending, bBuf, bCreq, bCresp, bComp, bGot>>
    BY DEF Buffer!SendContent, Buffer!compVars
<1>2. bHreq = <<>> /\ bHresp = <<>> /\ bPc \notin Handling
    BY <1>1 DEF HostWaitInv
<1>3. /\ bSent \in Seq(1..MaxBlocks) /\ Len(bSent) \in Nat
      /\ bUpdate \in Nat /\ bUpdate <= Len(bSent)
    BY DEF Buffer!TypeOK, PipeInv
<1>4. /\ bUpdate' \in 0..MaxBlocks /\ bUpdate' <= Len(bSent) + 1 /\ Len(bSent) + 1 \in 1..MaxBlocks
    BY <1>1, <1>3
<1>5. bHost' \in Buffer!Request /\ bHost'.kind = "GiveContent" /\ bHost'.block = Len(bSent) + 1
    BY <1>1, <1>4 DEF Buffer!Request, Buffer!RequestKind
<1>6. /\ bHreq' = <<bHost'>> /\ bHreq' \in Seq(Buffer!Request) /\ Len(bHreq') = 1
      /\ Head(bHreq') = bHost' /\ bHreq'[1] = bHost' /\ bHreq' # <<>>
    BY <1>1, <1>2, <1>5
<1>7. /\ bSent' \in Seq(1..MaxBlocks) /\ Len(bSent') = Len(bSent) + 1
      /\ \A i \in 1..Len(bSent') : bSent'[i] = IF i <= Len(bSent) THEN bSent[i] ELSE Len(bSent) + 1
    BY <1>1, <1>3, <1>4
<1>8. Buffer!Contents(bHreq') = 1 /\ Buffer!Contents(bHreq) = 0
    BY <1>2, <1>5, <1>6 DEF Buffer!Contents, Buffer!HasMessage
<1>9. /\ Buffer!Contents(bCreq') = Buffer!Contents(bCreq) /\ InHand' = InHand /\ Ahead' = Ahead
      /\ Buffer!Outstanding' = Buffer!Outstanding
    BY <1>1 DEF Buffer!Contents, Buffer!HasMessage, InHand, Ahead, Buffer!Outstanding
<1>10. Buffer!TypeOK'
    BY <1>1, <1>4, <1>5, <1>6, <1>7 DEF Buffer!TypeOK
<1>11. HostWaitInv'
    BY <1>1, <1>2, <1>5, <1>6 DEF HostWaitInv
<1>12. CurrentInv' /\ BusyInv'
    BY <1>1, <1>9 DEF CurrentInv, BusyInv
<1>13. PipeInv'
  <2>0. Len(bGot) \in Nat /\ Buffer!Contents(bCreq) \in {0, 1} /\ InHand \in {0, 1} /\ Len(bBuf) \in Nat
    BY DEF Buffer!TypeOK, Buffer!Contents, InHand
  <2>1. \A i \in 1..Len(bSent') : bSent'[i] = i
    <3> SUFFICES ASSUME NEW i \in 1..Len(bSent') PROVE bSent'[i] = i
      OBVIOUS
    <3>1. \A j \in 1..Len(bSent) : bSent[j] = j
      BY DEF PipeInv
    <3>2. CASE i \in 1..Len(bSent)
      BY <1>7, <3>1, <3>2
    <3>3. CASE i = Len(bSent) + 1
      BY <1>3, <1>7, <3>3
    <3> QED BY <1>7, <3>2, <3>3
  <2>2. Len(bSent') = Len(bGot') + Buffer!Contents(bCreq') + InHand' + Len(bBuf') + Buffer!Contents(bHreq')
    BY <1>1, <1>3, <1>7, <1>8, <1>9, <2>0 DEF PipeInv
  <2> QED BY <1>1, <1>3, <1>4, <1>5, <1>6, <1>7, <1>9, <2>1, <2>2 DEF PipeInv
<1> QED BY <1>10, <1>11, <1>12, <1>13

LEMMA SendOtherKeeps ==
    ASSUME BufferParams, BufferInv, NEW kind \in BufferKinds, Buffer!SendOther(kind)
    PROVE  BufferInv'
<1> USE DEF BufferParams, BufferInv, Buffer!DEVICE_CHANNEL_SIZE
<1>1. /\ bHost = None /\ kind # "GiveContent" /\ bOthers < MaxOthers /\ bOthers' = bOthers + 1
      /\ bHost' = [kind |-> kind, block |-> 0, update |-> bUpdate, first |-> FALSE]
      /\ bHreq' = Append(bHreq, bHost')
      /\ UNCHANGED <<bSent, bUpdate, bHresp, bPc, bCur, bBusy, bPending, bBuf, bCreq, bCresp, bComp, bGot>>
    BY DEF Buffer!SendOther, Buffer!compVars
<1>2. bHreq = <<>> /\ bHresp = <<>> /\ bPc \notin Handling
    BY <1>1 DEF HostWaitInv
<1>5. bHost' \in Buffer!Request /\ bHost'.kind # "GiveContent"
    BY <1>1 DEF Buffer!Request, Buffer!RequestKind, Buffer!TypeOK
<1>6. /\ bHreq' = <<bHost'>> /\ bHreq' \in Seq(Buffer!Request) /\ Len(bHreq') = 1
      /\ Head(bHreq') = bHost' /\ bHreq' # <<>>
    BY <1>1, <1>2, <1>5
<1>8. Buffer!Contents(bHreq') = 0 /\ Buffer!Contents(bHreq) = 0
    BY <1>2, <1>5, <1>6 DEF Buffer!Contents, Buffer!HasMessage
<1>9. /\ Buffer!Contents(bCreq') = Buffer!Contents(bCreq) /\ InHand' = InHand /\ Ahead' = Ahead
      /\ Buffer!Outstanding' = Buffer!Outstanding
    BY <1>1 DEF Buffer!Contents, Buffer!HasMessage, InHand, Ahead, Buffer!Outstanding
<1>10. Buffer!TypeOK'
    BY <1>1, <1>5, <1>6 DEF Buffer!TypeOK
<1>11. HostWaitInv'
    BY <1>1, <1>2, <1>5, <1>6 DEF HostWaitInv
<1>12. CurrentInv' /\ BusyInv' /\ PipeInv'
    BY <1>1, <1>8, <1>9 DEF CurrentInv, BusyInv, PipeInv
<1> QED BY <1>10, <1>11, <1>12

LEMMA HostReceivesKeeps ==
    ASSUME BufferParams, BufferInv, Buffer!ReceiveResponse
    PROVE  BufferInv'
<1> USE DEF BufferParams, BufferInv, Buffer!DEVICE_CHANNEL_SIZE
<1>1. /\ bHost # None /\ bHresp # <<>> /\ bHresp' = Tail(bHresp) /\ bHost' = None
      /\ UNCHANGED <<bSent, bOthers, bUpdate, bHreq, bPc, bCur, bBusy, bPending, bBuf, bCreq, bCresp, bComp, bGot>>
    BY DEF Buffer!ReceiveResponse, Buffer!compVars, Buffer!HasMessage
<1>2. bHreq = <<>> /\ bPc \notin Handling
    BY <1>1 DEF HostWaitInv
<1>3. bHresp' = <<>>
    BY <1>1, OneMessage DEF Buffer!TypeOK
<1>9. /\ Buffer!Contents(bCreq') = Buffer!Contents(bCreq)
      /\ Buffer!Contents(bHreq') = Buffer!Contents(bHreq)
      /\ InHand' = InHand /\ Ahead' = Ahead /\ Buffer!Outstanding' = Buffer!Outstanding
    BY <1>1 DEF Buffer!Contents, Buffer!HasMessage, InHand, Ahead, Buffer!Outstanding
<1>10. Buffer!TypeOK'
    BY <1>1, <1>3 DEF Buffer!TypeOK
<1>11. HostWaitInv'
    BY <1>1, <1>2, <1>3 DEF HostWaitInv
<1>12. CurrentInv' /\ BusyInv' /\ PipeInv'
    BY <1>1, <1>9 DEF CurrentInv, BusyInv, PipeInv
<1> QED BY <1>10, <1>11, <1>12

LEMMA WaitBufferedContentKeeps ==
    ASSUME BufferParams, BufferInv, Buffer!WaitBufferedContent
    PROVE  BufferInv'
<1> USE DEF BufferParams, BufferInv, Buffer!DEVICE_CHANNEL_SIZE
<1>1. /\ bPc = "wait" /\ bBusy # TRUE /\ bBuf # <<>> /\ bCur' = Head(bBuf) /\ bBuf' = Tail(bBuf)
      /\ bPc' = "sendBuffered"
      /\ UNCHANGED <<bHost, bSent, bOthers, bUpdate, bHreq, bHresp, bBusy, bPending, bCreq, bCresp, bComp, bGot>>
    BY DEF Buffer!WaitBufferedContent, Buffer!ContentReady, Buffer!hostVars, Buffer!compVars
<1>2. /\ bCur' = bBuf[1] /\ bCur' \in Buffer!Request /\ bBuf' \in Seq(Buffer!Request)
      /\ Len(bBuf') = Len(bBuf) - 1
      /\ Len(bBuf) \in Nat \ {0} /\ \A i \in 1..Len(bBuf') : bBuf'[i] = bBuf[i + 1]
    BY <1>1, HeadTailProperties, EmptySeq DEF Buffer!TypeOK
<1>3. /\ Buffer!Contents(bCreq') = Buffer!Contents(bCreq)
      /\ Buffer!Contents(bHreq') = Buffer!Contents(bHreq) /\ Buffer!Outstanding' = Buffer!Outstanding
      /\ Buffer!Contents(bCreq) \in {0, 1} /\ Buffer!Contents(bHreq) \in {0, 1} /\ Len(bGot) \in Nat
    BY <1>1 DEF Buffer!Contents, Buffer!HasMessage, Buffer!Outstanding, Buffer!TypeOK
<1>4. /\ InHand = 0 /\ InHand' = 1 /\ Ahead' = Ahead + 1 /\ Ahead \in Nat
    BY <1>1, <1>3 DEF InHand, Ahead, Sending
<1>5. Buffer!Outstanding = 0 /\ bBusy = FALSE
    BY <1>1 DEF BusyInv, Buffer!TypeOK, Sending
<1>6. bBuf[1].kind = "GiveContent" /\ bBuf[1].block = Ahead + 1
    BY <1>2 DEF PipeInv
<1>10. Buffer!TypeOK'
    BY <1>1, <1>2 DEF Buffer!TypeOK, Buffer!Pcs
<1>11. HostWaitInv'
    BY <1>1 DEF HostWaitInv, Handling, Buffer!Pcs
<1>12. CurrentInv'
    BY <1>1, <1>2, <1>6 DEF CurrentInv, Sending, Buffer!Pcs
<1>13. BusyInv'
    BY <1>1, <1>3, <1>5 DEF BusyInv, Sending
<1>14. PipeInv'
  <2>1. Len(bSent') = Len(bGot') + Buffer!Contents(bCreq') + InHand' + Len(bBuf') + Buffer!Contents(bHreq')
    BY <1>1, <1>2, <1>3, <1>4 DEF PipeInv
  <2>2. \A i \in 1..Len(bBuf') : bBuf'[i].kind = "GiveContent" /\ bBuf'[i].block = Ahead' + i
    <3> SUFFICES ASSUME NEW i \in 1..Len(bBuf') PROVE bBuf'[i].kind = "GiveContent" /\ bBuf'[i].block = Ahead' + i
      OBVIOUS
    <3>1. i + 1 \in 1..Len(bBuf) /\ bBuf'[i] = bBuf[i + 1]
      BY <1>2
    <3>2. bBuf[i + 1].kind = "GiveContent" /\ bBuf[i + 1].block = Ahead + (i + 1)
      BY <3>1 DEF PipeInv
    <3> QED BY <3>1, <3>2, <1>4
  <2>3. bCur'.block = Ahead'
    BY <1>2, <1>4, <1>6
  <2> QED BY <1>1, <1>3, <2>1, <2>2, <2>3 DEF PipeInv, Sending
<1> QED BY <1>10, <1>11, <1>12, <1>13, <1>14

LEMMA WaitRequestKeeps ==
    ASSUME BufferParams, BufferInv, Buffer!WaitRequest
    PROVE  BufferInv'
<1> USE DEF BufferParams, BufferInv, Buffer!DEVICE_CHANNEL_SIZE
<1> DEFINE r == Head(bHreq)
<1>1. /\ bPc = "wait" /\ (bBusy = TRUE \/ bBuf = <<>>) /\ bHreq # <<>> /\ bHreq' = Tail(bHreq)
      /\ bPc' = Buffer!Handler(r) /\ bCur' = (IF Buffer!Handler(r) = "reply" THEN Buffer!Local(r) ELSE r)
      /\ bPending' \in {None, bPending}
      /\ UNCHANGED <<bHost, bSent, bOthers, bUpdate, bHresp, bBusy, bBuf, bCreq, bCresp, bComp, bGot>>
    BY DEF Buffer!WaitRequest, Buffer!ContentReady, Buffer!hostVars, Buffer!compVars, Buffer!HasMessage, Buffer!TypeOK
<1>2. bHreq' = <<>> /\ r \in Buffer!Request /\ bHreq[1] = r /\ bHreq = <<r>>
    BY <1>1, OneMessage DEF Buffer!TypeOK
<1>3. bHost # None /\ bHresp = <<>>
    BY <1>1 DEF HostWaitInv
<1>4. /\ Buffer!Contents(bCreq') = Buffer!Contents(bCreq) /\ Buffer!Outstanding' = Buffer!Outstanding
      /\ Buffer!Contents(bCreq) \in {0, 1} /\ Buffer!Contents(bHreq') = 0 /\ Len(bGot) \in Nat /\ Len(bBuf) \in Nat
      /\ Buffer!Contents(bHreq) = IF r.kind = "GiveContent" THEN 1 ELSE 0
    BY <1>1, <1>2 DEF Buffer!Contents, Buffer!HasMessage, Buffer!Outstanding, Buffer!TypeOK
<1>5. r.kind \in Buffer!RequestKind
    BY <1>2 DEF Buffer!Request
<1>6. Buffer!Handler(r) \in {"buffer", "sendContent", "route", "reply"}
    BY DEF Buffer!Handler
<1>7. /\ r.kind = "GiveContent" <=> bPc' \in {"buffer", "sendContent"}
      /\ bPc' = "buffer" => bBusy = TRUE
      /\ bPc' = "sendContent" => bBusy = FALSE
      /\ bPc' = "route" => r.kind \in {"FwVersionRequest", "GiveOffer", "AbortUpdate"}
    BY <1>1, <1>5 DEF Buffer!Handler, Buffer!RequestKind, Buffer!TypeOK
<1>8. Buffer!Local(r) \in Buffer!Response
    BY <1>2 DEF Buffer!Local, Buffer!Response, Buffer!ResponseKind
<1>9. Buffer!Outstanding = (IF bBusy THEN 1 ELSE 0) /\ bBusy \in BOOLEAN
    BY <1>1 DEF BusyInv, Sending, Buffer!TypeOK
<1> HIDE DEF r
<1>10. Buffer!TypeOK'
  <2>1. bPc' \in Buffer!Pcs
    BY <1>1, <1>6 DEF Buffer!Pcs
  <2>2. bCur' \in Buffer!Request \cup Buffer!Response
    BY <1>1, <1>2, <1>8
  <2>3. bPending' \in Buffer!Response \cup {None}
    BY <1>1 DEF Buffer!TypeOK
  <2>4. bHreq' \in Seq(Buffer!Request) /\ Len(bHreq') <= 1
    BY <1>2
  <2> QED BY <1>1, <2>1, <2>2, <2>3, <2>4 DEF Buffer!TypeOK
<1>11. HostWaitInv'
    BY <1>1, <1>2, <1>3, <1>6 DEF HostWaitInv, Handling, Buffer!Pcs
<1>12. CurrentInv'
    BY <1>1, <1>2, <1>6, <1>7, <1>8 DEF CurrentInv, Sending, Buffer!Pcs
<1>13. BusyInv'
    BY <1>1, <1>4, <1>6, <1>7, <1>9 DEF BusyInv, Sending
<1>14. PipeInv'
  <2>0. bPc' = "sendContent" => bBuf = <<>> /\ Len(bBuf) = 0
    BY <1>1, <1>7
  <2>1. /\ InHand = 0 /\ InHand' = Buffer!Contents(bHreq)
        /\ Ahead = Len(bGot) + Buffer!Contents(bCreq)
        /\ Ahead' = Len(bGot) + Buffer!Contents(bCreq) + (IF bPc' = "sendContent" THEN 1 ELSE 0)
    BY <1>1, <1>4, <1>6, <1>7 DEF InHand, Ahead, Sending
  <2>2. Len(bSent') = Len(bGot') + Buffer!Contents(bCreq') + InHand' + Len(bBuf') + Buffer!Contents(bHreq')
    BY <1>1, <1>4, <2>1 DEF PipeInv
  <2>3. Len(bSent) = Len(bGot) + Buffer!Contents(bCreq) + Len(bBuf) + Buffer!Contents(bHreq)
    BY <1>4, <2>1 DEF PipeInv
  <2>4. r.kind = "GiveContent" => r.block = Len(bSent) /\ bCur' = r
    BY <1>1, <1>2, <1>4, <1>6, <1>7 DEF PipeInv
  <2>5. bPc' \in Sending => bCur'.block = Ahead'
    <3> SUFFICES ASSUME bPc' = "sendContent" PROVE bCur'.block = Ahead'
      BY <1>1, <1>6 DEF Sending
    <3>1. r.kind = "GiveContent" /\ Len(bBuf) = 0 /\ Buffer!Contents(bHreq) = 1
      BY <1>4, <1>7, <2>0
    <3> QED BY <1>4, <3>1, <2>1, <2>3, <2>4
  <2>6. bPc' = "buffer" => bCur'.block = Ahead' + Len(bBuf') + 1
    BY <1>1, <1>4, <1>7, <2>1, <2>3, <2>4
  <2>7. \A i \in 1..Len(bBuf') : bBuf'[i].kind = "GiveContent" /\ bBuf'[i].block = Ahead' + i
    BY <1>1, <1>4, <2>0, <2>1 DEF PipeInv
  <2> QED BY <1>1, <1>4, <2>0, <2>2, <2>5, <2>6, <2>7 DEF PipeInv
<1> QED BY <1>10, <1>11, <1>12, <1>13, <1>14

LEMMA WaitDeviceResponseKeeps ==
    ASSUME BufferParams, BufferInv, Buffer!WaitDeviceResponse
    PROVE  BufferInv'
<1> USE DEF BufferParams, BufferInv, Buffer!DEVICE_CHANNEL_SIZE
<1>1. /\ bPc = "wait" /\ bCresp # <<>> /\ bCresp' = Tail(bCresp) /\ bPending' = Head(bCresp) /\ bBusy' = FALSE
      /\ UNCHANGED <<bHost, bSent, bOthers, bUpdate, bHreq, bHresp, bPc, bCur, bBuf, bCreq, bComp, bGot>>
    BY DEF Buffer!WaitDeviceResponse, Buffer!hostVars, Buffer!compVars, Buffer!HasMessage
<1>2. Len(bCresp) = 1 /\ bCresp' = <<>> /\ bPending' \in Buffer!Response
    BY <1>1, OneMessage DEF Buffer!TypeOK
<1>3. /\ Buffer!Contents(bCreq') = Buffer!Contents(bCreq)
      /\ Buffer!Contents(bHreq') = Buffer!Contents(bHreq) /\ InHand' = InHand /\ Ahead' = Ahead
    BY <1>1 DEF Buffer!Contents, Buffer!HasMessage, InHand, Ahead
<1>4. /\ Buffer!Outstanding \in {0, 1} /\ Buffer!Outstanding' = Buffer!Outstanding - 1
      /\ Buffer!Outstanding' >= 0
  <2>1. Buffer!Outstanding \in {0, 1}
    BY <1>1 DEF BusyInv, Sending
  <2>2. Len(bCreq) \in Nat /\ Len(bCreq') = Len(bCreq) /\ Len(bCresp') = 0 /\ bComp' = bComp
    BY <1>1, <1>2 DEF Buffer!TypeOK
  <2> QED BY <1>2, <2>1, <2>2 DEF Buffer!Outstanding
<1>10. Buffer!TypeOK'
  <2>1. bBusy' \in BOOLEAN
    BY <1>1, Zenon
  <2>2. bCresp' \in Seq(Buffer!Response) /\ Len(bCresp') <= 1
    BY <1>2
  <2> QED BY <1>1, <1>2, <2>1, <2>2 DEF Buffer!TypeOK
<1>11. HostWaitInv' /\ CurrentInv'
    BY <1>1, <1>2 DEF HostWaitInv, CurrentInv
<1>13. BusyInv'
    BY <1>1, <1>4 DEF BusyInv, Sending
<1>14. PipeInv'
    BY <1>1, <1>3 DEF PipeInv
<1> QED BY <1>10, <1>11, <1>13, <1>14

LEMMA SendBufferedKeeps ==
    ASSUME BufferParams, BufferInv, Buffer!SendBuffered
    PROVE  BufferInv'
<1> USE DEF BufferParams, BufferInv, Buffer!DEVICE_CHANNEL_SIZE
<1>1. /\ bPc = "sendBuffered" /\ Len(bCreq) < 1 /\ bCreq' = Append(bCreq, bCur) /\ bBusy' = TRUE
      /\ bPc' = "wait" /\ bCur' = None
      /\ UNCHANGED <<bHost, bSent, bOthers, bUpdate, bHreq, bHresp, bPending, bBuf, bCresp, bComp, bGot>>
    BY DEF Buffer!SendBuffered, Buffer!hostVars, Buffer!compVars, Buffer!HasRoom
<1>2. bCur \in Buffer!Request /\ bCur.kind = "GiveContent"
    BY <1>1 DEF CurrentInv, Sending, Buffer!Pcs
<1>3. /\ bCreq = <<>> /\ bCreq' \in Seq(Buffer!Request) /\ Len(bCreq') = 1 /\ bCreq'[1] = bCur
      /\ Head(bCreq') = bCur /\ bCreq' # <<>>
    BY <1>1, <1>2, NoMessage DEF Buffer!TypeOK
<1>4. /\ Buffer!Contents(bCreq) = 0 /\ Buffer!Contents(bCreq') = 1
      /\ Buffer!Contents(bHreq') = Buffer!Contents(bHreq)
      /\ Buffer!Outstanding = 0 /\ Buffer!Outstanding' = 1
  <2>1. Buffer!Outstanding = 0
    BY <1>1 DEF BusyInv, Sending
  <2> QED BY <1>1, <1>2, <1>3, <2>1 DEF Buffer!Contents, Buffer!HasMessage, Buffer!Outstanding, Buffer!TypeOK
<1>5. /\ InHand = 1 /\ InHand' = 0 /\ Ahead' = Ahead /\ Len(bGot) \in Nat /\ Ahead = Len(bGot) + 1
    BY <1>1, <1>4 DEF InHand, Ahead, Sending, Buffer!TypeOK
<1>10. Buffer!TypeOK'
    BY <1>1, <1>3 DEF Buffer!TypeOK, Buffer!Pcs
<1>11. HostWaitInv'
    BY <1>1 DEF HostWaitInv, Handling, Buffer!Pcs
<1>12. CurrentInv'
    BY <1>1 DEF CurrentInv, Sending, Buffer!Pcs
<1>13. BusyInv'
    BY <1>1, <1>4 DEF BusyInv, Sending
<1>14. PipeInv'
  <2>1. Len(bSent') = Len(bGot') + Buffer!Contents(bCreq') + InHand' + Len(bBuf') + Buffer!Contents(bHreq')
    BY <1>1, <1>4, <1>5 DEF PipeInv
  <2>2. bCreq'[1].block = Len(bGot') + 1
    BY <1>1, <1>3, <1>5 DEF PipeInv, Sending
  <2> QED BY <1>1, <1>4, <1>5, <2>1, <2>2 DEF PipeInv, Sending
<1> QED BY <1>10, <1>11, <1>12, <1>13, <1>14

LEMMA GiveContentKeeps ==
    ASSUME BufferParams, BufferInv, Buffer!GiveContent
    PROVE  BufferInv'
<1> USE DEF BufferParams, BufferInv, Buffer!DEVICE_CHANNEL_SIZE
<1>1. /\ bPc = "sendContent" /\ Len(bCreq) < 1 /\ bCreq' = Append(bCreq, bCur) /\ bPc' = "await"
      /\ UNCHANGED <<bHost, bSent, bOthers, bUpdate, bHreq, bHresp, bCur, bBusy, bPending, bBuf, bCresp, bComp, bGot>>
    BY DEF Buffer!GiveContent, Buffer!hostVars, Buffer!compVars, Buffer!HasRoom
<1>2. bCur \in Buffer!Request /\ bCur.kind = "GiveContent"
    BY <1>1 DEF CurrentInv, Sending, Buffer!Pcs
<1>3. /\ bCreq = <<>> /\ bCreq' \in Seq(Buffer!Request) /\ Len(bCreq') = 1 /\ bCreq'[1] = bCur
      /\ Head(bCreq') = bCur /\ bCreq' # <<>>
    BY <1>1, <1>2, NoMessage DEF Buffer!TypeOK
<1>4. /\ Buffer!Contents(bCreq) = 0 /\ Buffer!Contents(bCreq') = 1
      /\ Buffer!Contents(bHreq') = Buffer!Contents(bHreq)
      /\ Buffer!Outstanding = 0 /\ Buffer!Outstanding' = 1
  <2>1. Buffer!Outstanding = 0
    BY <1>1 DEF BusyInv, Sending
  <2> QED BY <1>1, <1>2, <1>3, <2>1 DEF Buffer!Contents, Buffer!HasMessage, Buffer!Outstanding, Buffer!TypeOK
<1>5. /\ InHand = 1 /\ InHand' = 0 /\ Ahead' = Ahead /\ Len(bGot) \in Nat /\ Ahead = Len(bGot) + 1
    BY <1>1, <1>4 DEF InHand, Ahead, Sending, Buffer!TypeOK
<1>10. Buffer!TypeOK'
    BY <1>1, <1>3 DEF Buffer!TypeOK, Buffer!Pcs
<1>11. HostWaitInv'
    BY <1>1 DEF HostWaitInv, Handling, Buffer!Pcs
<1>12. CurrentInv'
    BY <1>1, <1>2 DEF CurrentInv, Sending, Buffer!Pcs
<1>13. BusyInv'
    BY <1>1, <1>4 DEF BusyInv, Sending
<1>14. PipeInv'
  <2>1. Len(bSent') = Len(bGot') + Buffer!Contents(bCreq') + InHand' + Len(bBuf') + Buffer!Contents(bHreq')
    BY <1>1, <1>4, <1>5 DEF PipeInv
  <2>2. bCreq'[1].block = Len(bGot') + 1
    BY <1>1, <1>3, <1>5 DEF PipeInv, Sending
  <2> QED BY <1>1, <1>4, <1>5, <2>1, <2>2 DEF PipeInv, Sending
<1> QED BY <1>10, <1>11, <1>12, <1>13, <1>14

LEMMA BufferContentKeeps ==
    ASSUME BufferParams, BufferInv, Buffer!BufferContent
    PROVE  BufferInv'
<1> USE DEF BufferParams, BufferInv, Buffer!DEVICE_CHANNEL_SIZE
<1>1. /\ bPc = "buffer" /\ Len(bBuf) < BufferSize /\ bBuf' = Append(bBuf, bCur) /\ bPc' = "await"
      /\ UNCHANGED <<bHost, bSent, bOthers, bUpdate, bHreq, bHresp, bCur, bBusy, bPending, bCreq, bCresp, bComp, bGot>>
    BY DEF Buffer!BufferContent, Buffer!hostVars, Buffer!compVars
<1>2. /\ bCur \in Buffer!Request /\ bCur.kind = "GiveContent" /\ bBuf \in Seq(Buffer!Request)
      /\ Len(bBuf) \in Nat
    BY <1>1 DEF CurrentInv, Sending, Buffer!Pcs, Buffer!TypeOK
<1>3. /\ bBuf' \in Seq(Buffer!Request) /\ Len(bBuf') = Len(bBuf) + 1
      /\ \A i \in 1..Len(bBuf) : bBuf'[i] = bBuf[i]
      /\ bBuf'[Len(bBuf) + 1] = bCur
    BY <1>1, <1>2, AppendProperties
<1>4. /\ Buffer!Contents(bCreq') = Buffer!Contents(bCreq)
      /\ Buffer!Contents(bHreq') = Buffer!Contents(bHreq) /\ Buffer!Outstanding' = Buffer!Outstanding
      /\ Buffer!Contents(bCreq) \in {0, 1} /\ Buffer!Contents(bHreq) \in {0, 1} /\ Len(bGot) \in Nat
    BY <1>1 DEF Buffer!Contents, Buffer!HasMessage, Buffer!Outstanding, Buffer!TypeOK
<1>5. /\ InHand = 1 /\ InHand' = 0 /\ Ahead' = Ahead /\ Ahead \in Nat
    BY <1>1, <1>4 DEF InHand, Ahead, Sending
<1>10. Buffer!TypeOK'
    BY <1>1, <1>2, <1>3 DEF Buffer!TypeOK, Buffer!Pcs
<1>11. HostWaitInv'
    BY <1>1 DEF HostWaitInv, Handling, Buffer!Pcs
<1>12. CurrentInv'
    BY <1>1, <1>2 DEF CurrentInv, Sending, Buffer!Pcs
<1>13. BusyInv'
    BY <1>1, <1>4 DEF BusyInv, Sending
<1>14. PipeInv'
  <2>0. Len(bSent) = Len(bGot) + Buffer!Contents(bCreq) + InHand + Len(bBuf) + Buffer!Contents(bHreq)
    BY DEF PipeInv
  <2>1. Len(bSent') = Len(bGot') + Buffer!Contents(bCreq') + InHand' + Len(bBuf') + Buffer!Contents(bHreq')
    <3>1. Len(bSent') = Len(bSent) /\ Len(bGot') = Len(bGot)
      BY <1>1
    <3>2. Len(bBuf') = Len(bBuf) + 1 /\ Len(bBuf) \in Nat /\ Len(bGot) \in Nat
      BY <1>2, <1>3, <1>4
    <3>3. Buffer!Contents(bCreq') = Buffer!Contents(bCreq) /\ Buffer!Contents(bCreq) \in Nat
      BY <1>4
    <3>4. Buffer!Contents(bHreq') = Buffer!Contents(bHreq) /\ Buffer!Contents(bHreq) \in Nat
      BY <1>4
    <3>5. \A g, c, b, h \in Nat : g + c + 1 + b + h = g + c + 0 + (b + 1) + h
      OBVIOUS
    <3>6. Len(bSent) = Len(bGot) + Buffer!Contents(bCreq) + 0 + (Len(bBuf) + 1) + Buffer!Contents(bHreq)
      BY <1>5, <2>0, <3>2, <3>3, <3>4, <3>5
    <3> QED BY <1>5, <3>1, <3>2, <3>3, <3>4, <3>6
  <2>2. \A i \in 1..Len(bBuf') : bBuf'[i].kind = "GiveContent" /\ bBuf'[i].block = Ahead' + i
    <3> SUFFICES ASSUME NEW i \in 1..Len(bBuf') PROVE bBuf'[i].kind = "GiveContent" /\ bBuf'[i].block = Ahead' + i
      OBVIOUS
    <3>1. CASE i = Len(bBuf) + 1
      BY <3>1, <1>1, <1>2, <1>3, <1>5 DEF PipeInv
    <3>2. CASE i \in 1..Len(bBuf)
      BY <3>2, <1>3, <1>5 DEF PipeInv
    <3> QED BY <3>1, <3>2, <1>2, <1>3
  <2> QED BY <1>1, <1>4, <1>5, <2>1, <2>2 DEF PipeInv, Sending
<1> QED BY <1>10, <1>11, <1>12, <1>13, <1>14

LEMMA ContentAnsweredKeeps ==
    ASSUME BufferParams, BufferInv, Buffer!ContentAnswered
    PROVE  BufferInv'
<1> USE DEF BufferParams, BufferInv, Buffer!DEVICE_CHANNEL_SIZE
<1>1. /\ bPc = "await" /\ bCresp # <<>> /\ bCresp' = Tail(bCresp) /\ bBusy' = FALSE
      /\ bCur' = Head(bCresp) /\ bPc' = "reply"
      /\ UNCHANGED <<bHost, bSent, bOthers, bUpdate, bHreq, bHresp, bPending, bBuf, bCreq, bComp, bGot>>
    BY DEF Buffer!ContentAnswered, Buffer!hostVars, Buffer!compVars, Buffer!HasMessage
<1>2. /\ Len(bCresp) = 1 /\ bCresp' = <<>> /\ Len(bCresp') = 0 /\ bCresp' \in Seq(Buffer!Response)
      /\ bCur' \in Buffer!Response
    BY <1>1, OneMessage, EmptySeq DEF Buffer!TypeOK
<1>3. /\ Buffer!Contents(bCreq') = Buffer!Contents(bCreq)
      /\ Buffer!Contents(bHreq') = Buffer!Contents(bHreq)
      /\ InHand' = InHand /\ Ahead' = Ahead
    BY <1>1 DEF Buffer!Contents, Buffer!HasMessage, InHand, Ahead, Sending
<1>4. Buffer!Outstanding' = 0
  <2>1. Buffer!Outstanding = 1
    BY <1>1 DEF BusyInv, Sending
  <2>2. Len(bCreq) \in Nat /\ Len(bCreq') = Len(bCreq) /\ Len(bCresp') = 0 /\ bComp' = bComp
    BY <1>1, <1>2 DEF Buffer!TypeOK
  <2> QED BY <1>2, <2>1, <2>2 DEF Buffer!Outstanding
<1>10. Buffer!TypeOK'
  <2>1. bBusy' \in BOOLEAN /\ bPc' \in Buffer!Pcs
    BY <1>1, Zenon DEF Buffer!Pcs
  <2>2. Len(bCresp') <= 1
    BY <1>2
  <2> QED BY <1>1, <1>2, <2>1, <2>2 DEF Buffer!TypeOK
<1>11. HostWaitInv'
    BY <1>1 DEF HostWaitInv, Handling, Buffer!Pcs
<1>12. CurrentInv'
    BY <1>1, <1>2 DEF CurrentInv, Sending, Buffer!Pcs
<1>13. BusyInv'
    BY <1>1, <1>4 DEF BusyInv, Sending
<1>14. PipeInv'
    BY <1>1, <1>3 DEF PipeInv, Sending
<1> QED BY <1>10, <1>11, <1>12, <1>13, <1>14

LEMMA ContentTimedOutKeeps ==
    ASSUME BufferParams, BufferInv, Buffer!ContentTimedOut
    PROVE  BufferInv'
<1> USE DEF BufferParams, BufferInv, Buffer!DEVICE_CHANNEL_SIZE
<1>1. /\ bPc = "await" /\ bBusy' = TRUE /\ bPending' = None /\ bPc' = "reply"
      /\ bCur' = (IF bPending # None THEN bPending ELSE [kind |-> "ContentResponse", of |-> bCur])
      /\ UNCHANGED <<bHost, bSent, bOthers, bUpdate, bHreq, bHresp, bBuf, bCreq, bCresp, bComp, bGot>>
    BY DEF Buffer!ContentTimedOut, Buffer!hostVars, Buffer!compVars
<1>2. bCur' \in Buffer!Response
  <2>1. bCur \in Buffer!Request
    BY <1>1 DEF CurrentInv, Buffer!Pcs
  <2> QED BY <1>1, <2>1 DEF CurrentInv, Buffer!Response, Buffer!ResponseKind
<1>3. /\ Buffer!Contents(bCreq') = Buffer!Contents(bCreq)
      /\ Buffer!Contents(bHreq') = Buffer!Contents(bHreq)
      /\ InHand' = InHand /\ Ahead' = Ahead /\ Buffer!Outstanding' = Buffer!Outstanding
    BY <1>1 DEF Buffer!Contents, Buffer!HasMessage, InHand, Ahead, Sending, Buffer!Outstanding
<1>4. Buffer!Outstanding = 1
    BY <1>1 DEF BusyInv, Sending
<1>10. Buffer!TypeOK'
  <2>1. bBusy' \in BOOLEAN /\ bPc' \in Buffer!Pcs
    BY <1>1, Zenon DEF Buffer!Pcs
  <2> QED BY <1>1, <1>2, <2>1 DEF Buffer!TypeOK
<1>11. HostWaitInv'
    BY <1>1 DEF HostWaitInv, Handling, Buffer!Pcs
<1>12. CurrentInv'
    BY <1>1, <1>2 DEF CurrentInv, Sending, Buffer!Pcs
<1>13. BusyInv'
    BY <1>1, <1>3, <1>4 DEF BusyInv, Sending
<1>14. PipeInv'
    BY <1>1, <1>3 DEF PipeInv, Sending
<1> QED BY <1>10, <1>11, <1>12, <1>13, <1>14

LEMMA RouteKeeps ==
    ASSUME BufferParams, BufferInv, Buffer!Route
    PROVE  BufferInv'
<1> USE DEF BufferParams, BufferInv, Buffer!DEVICE_CHANNEL_SIZE
<1>1. /\ bPc = "route" /\ Len(bCreq) < 1 /\ bCreq' = Append(bCreq, bCur) /\ bPc' = "routed"
      /\ UNCHANGED <<bHost, bSent, bOthers, bUpdate, bHreq, bHresp, bCur, bBusy, bPending, bBuf, bCresp, bComp, bGot>>
    BY DEF Buffer!Route, Buffer!hostVars, Buffer!compVars, Buffer!HasRoom
<1>2. bCur \in Buffer!Request /\ bCur.kind \in {"FwVersionRequest", "GiveOffer", "AbortUpdate"}
    BY <1>1 DEF CurrentInv, Buffer!Pcs
<1>3. /\ bCreq = <<>> /\ Len(bCreq) = 0
      /\ bCreq' \in Seq(Buffer!Request) /\ Len(bCreq') = 1 /\ Head(bCreq') = bCur /\ bCreq' # <<>>
    BY <1>1, <1>2, NoMessage DEF Buffer!TypeOK
<1>4. Buffer!Outstanding' = IF bBusy THEN 2 ELSE 1
  <2>1. Buffer!Outstanding = IF bBusy THEN 1 ELSE 0
    BY <1>1 DEF BusyInv, Sending
  <2>2. Len(bCresp) \in Nat /\ Len(bCresp') = Len(bCresp) /\ bComp' = bComp
    BY <1>1 DEF Buffer!TypeOK
  <2> QED BY <1>3, <2>1, <2>2 DEF Buffer!Outstanding
<1>5. /\ Buffer!Contents(bCreq) = 0 /\ Buffer!Contents(bCreq') = 0
      /\ Buffer!Contents(bHreq') = Buffer!Contents(bHreq)
    BY <1>1, <1>2, <1>3 DEF Buffer!Contents, Buffer!HasMessage
<1>6. InHand' = InHand /\ Ahead' = Ahead
    BY <1>1, <1>5 DEF InHand, Ahead, Sending
<1>10. Buffer!TypeOK'
    BY <1>1, <1>3 DEF Buffer!TypeOK, Buffer!Pcs
<1>11. HostWaitInv'
    BY <1>1 DEF HostWaitInv, Handling, Buffer!Pcs
<1>12. CurrentInv'
    BY <1>1, <1>2 DEF CurrentInv, Sending, Buffer!Pcs
<1>13. BusyInv'
    BY <1>1, <1>4 DEF BusyInv, Sending
<1>14. PipeInv'
    BY <1>1, <1>5, <1>6 DEF PipeInv, Sending
<1> QED BY <1>10, <1>11, <1>12, <1>13, <1>14

LEMMA RoutedKeeps ==
    ASSUME BufferParams, BufferInv, Buffer!Routed
    PROVE  BufferInv'
<1> USE DEF BufferParams, BufferInv, Buffer!DEVICE_CHANNEL_SIZE
<1>1. /\ bPc = "routed" /\ bCresp # <<>> /\ bCresp' = Tail(bCresp) /\ bPc' = "reply"
      /\ \/ bCur' = Head(bCresp)
         \/ bCur' = [kind |-> IF bCur.kind = "GiveOffer" THEN "OfferResponse" ELSE "FwVersionResponse", of |-> bCur]
      /\ UNCHANGED <<bHost, bSent, bOthers, bUpdate, bHreq, bHresp, bBusy, bPending, bBuf, bCreq, bComp, bGot>>
    BY DEF Buffer!Routed, Buffer!hostVars, Buffer!compVars, Buffer!HasMessage
<1>2. /\ Len(bCresp) = 1 /\ bCresp' = <<>> /\ Len(bCresp') = 0 /\ bCresp' \in Seq(Buffer!Response)
      /\ Head(bCresp) \in Buffer!Response
    BY <1>1, OneMessage, EmptySeq DEF Buffer!TypeOK
<1>3. bCur' \in Buffer!Response
  <2>1. bCur \in Buffer!Request
    BY <1>1 DEF CurrentInv, Buffer!Pcs
  <2> QED BY <1>1, <1>2, <2>1 DEF Buffer!Response, Buffer!ResponseKind
<1>4. Buffer!Outstanding' = IF bBusy THEN 1 ELSE 0
  <2>1. Buffer!Outstanding = IF bBusy THEN 2 ELSE 1
    BY <1>1 DEF BusyInv, Sending
  <2>2. Len(bCreq) \in Nat /\ Len(bCreq') = Len(bCreq) /\ bComp' = bComp
    BY <1>1 DEF Buffer!TypeOK
  <2> QED BY <1>2, <2>1, <2>2 DEF Buffer!Outstanding
<1>5. /\ Buffer!Contents(bCreq') = Buffer!Contents(bCreq)
      /\ Buffer!Contents(bHreq') = Buffer!Contents(bHreq)
      /\ InHand' = InHand /\ Ahead' = Ahead
    BY <1>1 DEF Buffer!Contents, Buffer!HasMessage, InHand, Ahead, Sending
<1>10. Buffer!TypeOK'
  <2>1. bPc' \in Buffer!Pcs
    BY <1>1 DEF Buffer!Pcs
  <2>2. Len(bCresp') <= 1
    BY <1>2
  <2> QED BY <1>1, <1>2, <1>3, <2>1, <2>2 DEF Buffer!TypeOK
<1>11. HostWaitInv'
    BY <1>1 DEF HostWaitInv, Handling, Buffer!Pcs
<1>12. CurrentInv'
    BY <1>1, <1>3 DEF CurrentInv, Sending, Buffer!Pcs
<1>13. BusyInv'
    BY <1>1, <1>4 DEF BusyInv, Sending
<1>14. PipeInv'
    BY <1>1, <1>5 DEF PipeInv, Sending
<1> QED BY <1>10, <1>11, <1>12, <1>13, <1>14

LEMMA SendResponseKeeps ==
    ASSUME BufferParams, BufferInv, Buffer!SendResponse
    PROVE  BufferInv'
<1> USE DEF BufferParams, BufferInv, Buffer!DEVICE_CHANNEL_SIZE
<1>1. /\ bPc = "reply" /\ Len(bHresp) < 1 /\ bHresp' = Append(bHresp, bCur) /\ bPc' = "wait" /\ bCur' = None
      /\ UNCHANGED <<bHost, bSent, bOthers, bUpdate, bHreq, bBusy, bPending, bBuf, bCreq, bCresp, bComp, bGot>>
    BY DEF Buffer!SendResponse, Buffer!hostVars, Buffer!compVars, Buffer!HasRoom
<1>2. bCur \in Buffer!Response
    BY <1>1 DEF CurrentInv
<1>3. bHresp' \in Seq(Buffer!Response) /\ Len(bHresp') = 1
    BY <1>1, <1>2, NoMessage DEF Buffer!TypeOK
<1>4. /\ Buffer!Contents(bCreq') = Buffer!Contents(bCreq)
      /\ Buffer!Contents(bHreq') = Buffer!Contents(bHreq)
      /\ InHand' = InHand /\ Ahead' = Ahead /\ Buffer!Outstanding' = Buffer!Outstanding
    BY <1>1 DEF Buffer!Contents, Buffer!HasMessage, InHand, Ahead, Sending, Buffer!Outstanding
<1>5. bHost # None /\ bHreq = <<>>
    BY <1>1 DEF HostWaitInv, Handling, Buffer!Pcs
<1>10. Buffer!TypeOK'
    BY <1>1, <1>3 DEF Buffer!TypeOK, Buffer!Pcs
<1>11. HostWaitInv'
    BY <1>1, <1>3, <1>5 DEF HostWaitInv, Handling, Buffer!Pcs
<1>12. CurrentInv'
    BY <1>1 DEF CurrentInv, Sending, Buffer!Pcs
<1>13. BusyInv'
    BY <1>1, <1>4 DEF BusyInv, Sending
<1>14. PipeInv'
    BY <1>1, <1>4 DEF PipeInv, Sending
<1> QED BY <1>10, <1>11, <1>12, <1>13, <1>14

LEMMA ComponentTakesKeeps ==
    ASSUME BufferParams, BufferInv, Buffer!ComponentTakes
    PROVE  BufferInv'
<1> USE DEF BufferParams, BufferInv, Buffer!DEVICE_CHANNEL_SIZE
<1>1. /\ bComp = None /\ bCreq # <<>> /\ bComp' = Head(bCreq) /\ bCreq' = Tail(bCreq)
      /\ bGot' = (IF bComp'.kind = "GiveContent" THEN Append(bGot, bComp'.block) ELSE bGot)
      /\ UNCHANGED <<bHost, bSent, bOthers, bUpdate, bHreq, bHresp, bPc, bCur, bBusy, bPending, bBuf, bCresp>>
    BY DEF Buffer!ComponentTakes, Buffer!hostVars, Buffer!HasMessage
<1>2. /\ Len(bCreq) = 1 /\ bCreq' = <<>> /\ Len(bCreq') = 0 /\ bCreq' \in Seq(Buffer!Request)
      /\ Head(bCreq) \in Buffer!Request /\ Head(bCreq) = bCreq[1]
    BY <1>1, OneMessage, EmptySeq DEF Buffer!TypeOK
<1>3. bComp' # None /\ bComp' \in Buffer!Request
    BY <1>1, <1>2
<1>4. Buffer!Outstanding' = Buffer!Outstanding
  <2>1. Len(bCresp) \in Nat /\ Len(bCresp') = Len(bCresp)
    BY <1>1 DEF Buffer!TypeOK
  <2>2. Buffer!Outstanding = 1 + Len(bCresp) + 0 /\ Buffer!Outstanding' = 0 + Len(bCresp') + 1
    BY <1>1, <1>2, <1>3 DEF Buffer!Outstanding
  <2> QED BY <2>1, <2>2
<1>5. /\ Buffer!Contents(bCreq') = 0 /\ Buffer!Contents(bHreq') = Buffer!Contents(bHreq)
      /\ InHand' = InHand
      /\ Buffer!Contents(bCreq) = IF bComp'.kind = "GiveContent" THEN 1 ELSE 0
    BY <1>1, <1>2 DEF Buffer!Contents, Buffer!HasMessage, InHand
<1>6. /\ bGot \in Seq(1..MaxBlocks) /\ Len(bGot) \in Nat /\ Len(bSent) <= MaxBlocks /\ Len(bSent) \in Nat
      /\ Len(bBuf) \in Nat /\ Buffer!Contents(bHreq) \in {0, 1} /\ InHand \in {0, 1}
  <2>1. Len(bSent) <= MaxBlocks
    <3>1. Len(bSent) \in Nat
      BY DEF Buffer!TypeOK
    <3>2. CASE Len(bSent) = 0
      BY <3>2
    <3>3. CASE Len(bSent) # 0
      <4>1. Len(bSent) \in 1..Len(bSent)
        BY <3>1, <3>3
      <4>2. bSent[Len(bSent)] = Len(bSent)
        BY <4>1 DEF PipeInv
      <4>3. bSent[Len(bSent)] \in 1..MaxBlocks
        BY <4>1, ElementOfSeq DEF Buffer!TypeOK
      <4> QED BY <4>2, <4>3
    <3> QED BY <3>2, <3>3
  <2> QED BY <2>1 DEF Buffer!TypeOK, Buffer!Contents, InHand
<1>7. /\ bGot' \in Seq(1..MaxBlocks) /\ Len(bGot') = Len(bGot) + Buffer!Contents(bCreq)
      /\ \A i \in 1..Len(bGot') : bGot'[i] = i
  <2>1. CASE bComp'.kind = "GiveContent"
    <3>1. bComp'.block = Len(bGot) + 1 /\ Buffer!Contents(bCreq) = 1 /\ bGot' = Append(bGot, Len(bGot) + 1)
      BY <1>1, <1>2, <1>5, <2>1 DEF PipeInv
    <3>2. Len(bGot) + 1 \in 1..MaxBlocks
      <4>1. Len(bSent) = Len(bGot) + 1 + InHand + Len(bBuf) + Buffer!Contents(bHreq)
        BY <3>1 DEF PipeInv
      <4> QED BY <4>1, <1>6
    <3>3. \A i \in 1..Len(bGot) : bGot[i] = i
      BY DEF PipeInv
    <3> QED BY <1>6, <3>1, <3>2, <3>3, AppendProperties
  <2>2. CASE bComp'.kind # "GiveContent"
    BY <1>1, <1>5, <1>6, <2>2 DEF PipeInv
  <2> QED BY <2>1, <2>2
<1>8. Ahead' = Ahead
  <2>1. Buffer!Contents(bCreq) \in {0, 1} /\ bPc' = bPc
    BY <1>1, <1>5
  <2> QED BY <1>5, <1>6, <1>7, <2>1 DEF Ahead
<1>10. Buffer!TypeOK'
  <2>1. Len(bCreq') <= 1
    BY <1>2
  <2> QED BY <1>1, <1>2, <1>3, <1>7, <2>1 DEF Buffer!TypeOK
<1>11. HostWaitInv'
    BY <1>1 DEF HostWaitInv
<1>12. CurrentInv'
    BY <1>1 DEF CurrentInv
<1>13. BusyInv'
    BY <1>1, <1>4 DEF BusyInv
<1>14. PipeInv'
  <2>1. Len(bSent') = Len(bGot') + Buffer!Contents(bCreq') + InHand' + Len(bBuf') + Buffer!Contents(bHreq')
    BY <1>1, <1>5, <1>6, <1>7 DEF PipeInv
  <2> QED BY <1>1, <1>5, <1>7, <1>8, <2>1 DEF PipeInv
<1> QED BY <1>10, <1>11, <1>12, <1>13, <1>14

LEMMA ComponentRespondsKeeps ==
    ASSUME BufferParams, BufferInv, Buffer!ComponentResponds
    PROVE  BufferInv'
<1> USE DEF BufferParams, BufferInv, Buffer!DEVICE_CHANNEL_SIZE
<1>1. /\ bComp # None /\ Len(bCresp) < 1 /\ bComp' = None
      /\ \E k \in Buffer!Answers(bComp.kind) : bCresp' = Append(bCresp, [kind |-> k, of |-> bComp])
      /\ UNCHANGED <<bHost, bSent, bOthers, bUpdate, bHreq, bHresp, bPc, bCur, bBusy, bPending, bBuf, bCreq, bGot>>
    BY DEF Buffer!ComponentResponds, Buffer!hostVars, Buffer!HasRoom
<1>2. PICK k \in Buffer!Answers(bComp.kind) : bCresp' = Append(bCresp, [kind |-> k, of |-> bComp])
    BY <1>1
<1>3. k \in Buffer!ResponseKind
    BY DEF Buffer!Answers, Buffer!ResponseKind
<1>4. [kind |-> k, of |-> bComp] \in Buffer!Response
    BY <1>1, <1>3 DEF Buffer!Response, Buffer!TypeOK
<1>5. bCresp = <<>> /\ Len(bCresp) = 0 /\ bCresp' \in Seq(Buffer!Response) /\ Len(bCresp') = 1
    BY <1>1, <1>2, <1>4, NoMessage DEF Buffer!TypeOK
<1>6. Buffer!Outstanding' = Buffer!Outstanding
  <2>1. Len(bCreq) \in Nat /\ Len(bCreq') = Len(bCreq)
    BY <1>1 DEF Buffer!TypeOK
  <2> QED BY <1>1, <1>5, <2>1 DEF Buffer!Outstanding
<1>7. /\ Buffer!Contents(bCreq') = Buffer!Contents(bCreq)
      /\ Buffer!Contents(bHreq') = Buffer!Contents(bHreq)
      /\ InHand' = InHand /\ Ahead' = Ahead
    BY <1>1 DEF Buffer!Contents, Buffer!HasMessage, InHand, Ahead, Sending
<1>10. Buffer!TypeOK'
    BY <1>1, <1>5 DEF Buffer!TypeOK
<1>11. HostWaitInv'
    BY <1>1 DEF HostWaitInv
<1>12. CurrentInv'
    BY <1>1 DEF CurrentInv
<1>13. BusyInv'
    BY <1>1, <1>6 DEF BusyInv
<1>14. PipeInv'
    BY <1>1, <1>7 DEF PipeInv
<1> QED BY <1>10, <1>11, <1>12, <1>13, <1>14

LEMMA BufferStep == BufferParams /\ BufferInv /\ [Buffer!Next]_(Buffer!vars) => BufferInv'
<1> SUFFICES ASSUME BufferParams, BufferInv, [Buffer!Next]_(Buffer!vars) PROVE BufferInv'
    OBVIOUS
<1>1. CASE Buffer!BufferTask
    BY <1>1, WaitBufferedContentKeeps, WaitRequestKeeps, WaitDeviceResponseKeeps, SendBufferedKeeps,
       GiveContentKeeps, BufferContentKeeps, ContentAnsweredKeeps, ContentTimedOutKeeps,
       RouteKeeps, RoutedKeeps, SendResponseKeeps DEF Buffer!BufferTask
<1>2. CASE Buffer!Component
    BY <1>2, ComponentTakesKeeps, ComponentRespondsKeeps DEF Buffer!Component
<1>3. CASE UNCHANGED Buffer!vars
  <2>1. UNCHANGED <<bHost, bSent, bOthers, bUpdate, bHreq, bHresp, bPc, bCur, bBusy, bPending, bBuf, bCreq, bCresp, bComp, bGot>>
    BY <1>3 DEF Buffer!vars, Buffer!hostVars, Buffer!compVars
  <2>2. /\ Buffer!Contents(bCreq') = Buffer!Contents(bCreq)
        /\ Buffer!Contents(bHreq') = Buffer!Contents(bHreq)
        /\ InHand' = InHand /\ Ahead' = Ahead /\ Buffer!Outstanding' = Buffer!Outstanding
    BY <2>1 DEF Buffer!Contents, Buffer!HasMessage, InHand, Ahead, Buffer!Outstanding
  <2> QED BY <2>1, <2>2 DEF BufferInv, Buffer!TypeOK, HostWaitInv, CurrentInv, BusyInv, PipeInv
<1> QED BY <1>1, <1>2, <1>3, SendContentKeeps, SendOtherKeeps, HostReceivesKeeps DEF Buffer!Next

LEMMA BufferInvImplies == BufferParams /\ BufferInv => Buffer!BufferHonest
<1> SUFFICES ASSUME BufferInv PROVE Buffer!BufferHonest
    OBVIOUS
<1> USE DEF BufferInv
<1>1. Buffer!BusyMeansOutstanding
    BY DEF Buffer!BusyMeansOutstanding, BusyInv, Sending
<1>2. /\ bSent \in Seq(1..MaxBlocks) /\ bGot \in Seq(1..MaxBlocks) /\ Len(bSent) \in Nat
      /\ Len(bGot) \in Nat
      /\ Len(bBuf) \in Nat /\ Buffer!Contents(bCreq) \in {0, 1} /\ Buffer!Contents(bHreq) \in {0, 1} /\ InHand \in {0, 1}
    BY DEF Buffer!TypeOK, Buffer!Contents, InHand
<1>3. Buffer!NothingLost
  <2>1. bPc = "wait" => InHand = 0
    BY DEF InHand, Sending
  <2> QED BY <1>2, <2>1 DEF Buffer!NothingLost, PipeInv
<1>4. Buffer!ContentInOrder
  <2>1. Len(bGot) <= Len(bSent)
    BY <1>2 DEF PipeInv
  <2>2. \A i \in 1..Len(bGot) : bGot[i] = bSent[i]
    BY <1>2, <2>1 DEF PipeInv
  <2>3. SubSeq(bGot, 1, Len(bGot)) = SubSeq(bSent, 1, Len(bGot))
    BY <1>2, <2>1, <2>2
  <2> QED BY <2>1, <2>3 DEF Buffer!ContentInOrder, Buffer!IsPrefix
<1> QED BY <1>1, <1>3, <1>4 DEF Buffer!BufferHonest

\* The buffer knows whether the component owes it an answer, and the component
\* receives every block once and in the order the host sent them, none lost
\* between channel and buffer, for every capacity of the buffer, however late the
\* component answers and whatever requests are routed past the buffer.
THEOREM BufferHonestHolds ==
    ASSUME BufferParams
    PROVE  Buffer!Spec => []BufferHonest
<1>1. Buffer!Init => BufferInv
    BY BufferInit
<1>2. BufferInv /\ [Buffer!Next]_(Buffer!vars) => BufferInv'
    BY BufferStep
<1>3. BufferInv => BufferHonest
    BY BufferInvImplies DEF BufferHonest
<1> QED BY <1>1, <1>2, <1>3, PTL DEF Buffer!Spec

-----------------------------------------------------------------------------
(* The updater.                                                            *)

UpdaterInv == TypeOK /\ TickArmed /\ IdleIsNormal

USE IntervalAssumption, TimeoutAssumption, NeverAssumption

LEMMA InitInv == Init => UpdaterInv
  BY DEF Init, UpdaterInv, TypeOK, TickArmed, IdleIsNormal, Idle, InProgress, Recovery, Timeout

(* The values of fw that occur, without the set constructor of TypeOK.     *)
LEMMA FwValues ==
  ASSUME TypeOK
  PROVE  /\ fw.kind \in {"Idle", "InProgress", "Recovery"}
         /\ fw.kind = "InProgress" => fw.ticks \in 0..(TimeoutTicks - 1)
  BY DEF TypeOK, Idle, InProgress, Recovery

LEMMA StepInv == UpdaterInv /\ [Next]_vars => UpdaterInv'
<1> SUFFICES ASSUME UpdaterInv, [Next]_vars PROVE UpdaterInv'
  OBVIOUS
<1> USE DEF UpdaterInv, TickArmed, IdleIsNormal
<1> TypeOK
  OBVIOUS
<1>f. /\ fw.kind \in {"Idle", "InProgress", "Recovery"}
      /\ fw.kind = "InProgress" => fw.ticks \in 0..(TimeoutTicks - 1)
  BY FwValues
<1>t. Timeout \in Nat
  BY DEF Timeout
<1>1. CASE \E r \in Requests : SendRequest(r)
  <2> PICK r \in Requests : SendRequest(r)
    BY <1>1
  <2>1. r.kind \in RequestKind
    BY DEF Requests, RequestKind
  <2> QED
    BY <2>1 DEF SendRequest, TypeOK
<1>2. CASE ReceiveResponse
  BY <1>2 DEF ReceiveResponse, TypeOK, HasMessage
<1>3. CASE ProcessGetFwVersion
  BY <1>3 DEF ProcessGetFwVersion, Take, Respond, TypeOK, HasMessage, ResponseKind
<1>4. CASE ProcessGiveOffer
  BY <1>4 DEF ProcessGiveOffer, Take, Respond, TypeOK, HasMessage, ResponseKind
<1>5. CASE ProcessPrepareOrFinalize
  BY <1>5 DEF ProcessPrepareOrFinalize, Take, Respond, TypeOK, HasMessage, ResponseKind
<1>6. CASE ProcessAbortUpdate
  BY <1>6 DEF ProcessAbortUpdate, Take, Respond, TypeOK, HasMessage, ResponseKind, EnterIdle, EnterRecovery,
              FailedDevice, Idle, Recovery
<1>7. CASE ProcessGiveContent
  <2>1. /\ request' \in Seq(Requests)
        /\ response' \in Seq(ResponseKind)
        /\ UNCHANGED <<host, sent>>
        /\ fw.kind # "Recovery"
    BY <1>7 DEF ProcessGiveContent, Take, Respond, TypeOK, HasMessage, ResponseKind
  <2>2. CASE UNCHANGED <<fw, tick, dev, since>>
    BY <2>1, <2>2 DEF TypeOK
  <2>3. ASSUME NEW b \in Block, StartAndWriteBlock(b) PROVE UpdaterInv'
    BY <2>1, <2>3, <1>f, <1>t DEF StartAndWriteBlock, TypeOK, EnterIdle, EnterInProgress, EnterRecovery, FailedDevice,
                       Idle, InProgress, Recovery
  <2>4. ASSUME NEW b \in Block, WriteBlock(b) PROVE UpdaterInv'
    BY <2>1, <2>4, <1>f DEF WriteBlock, FinalizeContent, TypeOK, EnterIdle, EnterRecovery, FailedDevice,
                       Idle, InProgress, Recovery
  <2>5. Head(request).block \in Block
    <3>1. Head(request) \in Requests /\ Head(request).kind = "GiveContent"
      BY <1>7 DEF ProcessGiveContent, Take, TypeOK, HasMessage
    <3> QED
      BY <3>1 DEF Requests
  <2> QED
    BY <1>7, <2>2, <2>3, <2>4, <2>5 DEF ProcessGiveContent
<1>8. CASE CountTick
  <2>1. fw.ticks + 1 \in 0..(TimeoutTicks - 1)
    BY <1>8, <1>f DEF CountTick, TickFires, NotTimedOut
  <2> QED
    BY <1>8, <2>1 DEF CountTick, TickFires, TypeOK, InProgress
<1>9. CASE TimeOut
  BY <1>9 DEF TimeOut, TickFires, AbortOk, AbortFailed, EnterIdle, FailedDevice, TypeOK, Idle, Recovery
<1>10. CASE RecoveryTickOk
  BY <1>10 DEF RecoveryTickOk, RecoveryTick, AbortOk, EnterIdle, TypeOK, Idle, Recovery
<1>11. CASE RecoveryTickFailed
  BY <1>11 DEF RecoveryTickFailed, RecoveryTick, AbortFailed, FailedDevice, TypeOK, Idle, Recovery
<1>12. CASE Elapse
  BY <1>12, <1>t DEF Elapse, TypeOK
<1>13. CASE UNCHANGED vars
  BY <1>13 DEF vars, TypeOK
<1> QED
  BY <1>1, <1>2, <1>3, <1>4, <1>5, <1>6, <1>7, <1>8, <1>9, <1>10, <1>11, <1>12, <1>13 DEF Next, Task

(* The inductive invariant holds throughout every behaviour. *)
LEMMA UpdaterInvHolds == Spec => []UpdaterInv
  BY InitInv, StepInv, PTL DEF Spec

(* Whenever the basic updater is idle its device runs the normal firmware, *)
(* whatever operations failed before (basic/state.rs, basic/mod.rs).       *)
THEOREM IdleIsNormalHolds == Spec => []IdleIsNormal
<1>1. UpdaterInv => IdleIsNormal
  BY DEF UpdaterInv
<1> QED
  BY <1>1, UpdaterInvHolds, PTL

(* A running or recovering update always has a recovery tick armed, and    *)
(* an idle updater has none (state.rs, enter_recovery).                    *)
THEOREM TickArmedHolds == Spec => []TickArmed
<1>1. UpdaterInv => TickArmed
  BY DEF UpdaterInv
<1> QED
  BY <1>1, UpdaterInvHolds, PTL
-----------------------------------------------------------------------------
(* The time since the first block of an update is at least what the ticks  *)
(* counted and the part of the running tick amount to.                     *)

Counted == fw.ticks * Interval + (Interval - tick)
ClockInv == fw.kind = "InProgress" => since >= Counted

LEMMA TickArithmetic ==
  ASSUME NEW n \in 0..(TimeoutTicks - 1)
  PROVE  /\ n * Interval \in Nat /\ Timeout \in Nat
         /\ (n + 1) * Interval = n * Interval + Interval
         /\ n * Interval + Interval <= Timeout
         /\ n + 1 >= TimeoutTicks => n * Interval + Interval = Timeout
<1>1. n \in Nat /\ n * Interval \in Nat /\ Timeout \in Nat
  BY DEF Timeout
<1>2. (n + 1) * Interval = n * Interval + Interval
  BY <1>1
<1>3. n + 1 <= TimeoutTicks /\ (n + 1) * Interval <= TimeoutTicks * Interval
  BY <1>1
<1>4. n + 1 >= TimeoutTicks => n + 1 = TimeoutTicks
  BY <1>1
<1> QED
  BY <1>1, <1>2, <1>3, <1>4 DEF Timeout

LEMMA ClockStep == UpdaterInv /\ ClockInv /\ [Next]_vars => ClockInv' /\ (TimeOut => since >= Timeout)
<1> SUFFICES ASSUME UpdaterInv, ClockInv, [Next]_vars
             PROVE  ClockInv' /\ (TimeOut => since >= Timeout)
  OBVIOUS
<1>t. /\ TypeOK /\ Timeout \in Nat /\ since \in 0..Timeout
      /\ fw.kind = "InProgress" => fw.ticks \in 0..(TimeoutTicks - 1) /\ tick \in 0..Interval
  BY FwValues DEF UpdaterInv, TypeOK, TickArmed, Timeout
<1>1. TimeOut => since >= Timeout
  <2> SUFFICES ASSUME TimeOut PROVE since >= Timeout
    OBVIOUS
  <2>1. fw.kind = "InProgress" /\ tick = 0 /\ ~(fw.ticks + 1 < TimeoutTicks)
    BY DEF TimeOut, TickFires, NotTimedOut
  <2>2. fw.ticks \in 0..(TimeoutTicks - 1) /\ fw.ticks + 1 >= TimeoutTicks
    BY <1>t, <2>1
  <2>3. fw.ticks * Interval + Interval = Timeout /\ fw.ticks * Interval \in Nat
    BY <2>2, TickArithmetic
  <2> QED
    BY <1>t, <2>1, <2>3 DEF ClockInv, Counted
<1>2. CASE UNCHANGED <<fw, tick, since>>
  BY <1>1, <1>2 DEF ClockInv, Counted
<1>3. CASE fw'.kind # "InProgress"
  BY <1>1, <1>3 DEF ClockInv
<1>4. CASE EnterInProgress /\ since' = 0
  <2>1. fw'.ticks = 0 /\ tick' = Interval
    BY <1>4 DEF EnterInProgress, InProgress
  <2> QED
    BY <1>1, <1>4, <2>1 DEF ClockInv, Counted
<1>5. CASE CountTick
  <2>1. /\ fw.kind = "InProgress" /\ tick = 0 /\ since' = since
        /\ fw'.ticks = fw.ticks + 1 /\ tick' = Interval
    BY <1>5 DEF CountTick, TickFires, InProgress
  <2>2. fw.ticks * Interval \in Nat /\ (fw.ticks + 1) * Interval = fw.ticks * Interval + Interval
    BY <1>t, <2>1, TickArithmetic
  <2> QED
    BY <1>t, <1>1, <2>1, <2>2 DEF ClockInv, Counted
<1>6. CASE Elapse
  <2> SUFFICES ASSUME fw.kind = "InProgress" PROVE since' >= Counted'
    BY <1>1, <1>6 DEF Elapse, ClockInv
  <2>1. fw.ticks * Interval \in Nat /\ fw.ticks * Interval + Interval <= Timeout
    BY <1>t, TickArithmetic
  <2>2. since >= Counted /\ fw' = fw /\ tick' = tick - 1 /\ tick \in 1..Interval
        /\ since' = IF since < Timeout THEN since + 1 ELSE since
    BY <1>6, <1>t DEF Elapse, ClockInv
  <2> QED
    BY <1>t, <2>1, <2>2 DEF Counted
<1>7. \/ UNCHANGED <<fw, tick, since>> \/ fw'.kind # "InProgress"
      \/ (EnterInProgress /\ since' = 0) \/ CountTick \/ Elapse
  <2>1. CASE ProcessAbortUpdate
    BY <2>1 DEF ProcessAbortUpdate, EnterIdle, EnterRecovery, Idle, Recovery
  <2>2. CASE ProcessGiveContent
    BY <2>2 DEF ProcessGiveContent, StartAndWriteBlock, WriteBlock, FinalizeContent, EnterIdle,
                EnterRecovery, Idle, Recovery
  <2>3. CASE TimeOut \/ RecoveryTickOk \/ RecoveryTickFailed
    BY <2>3 DEF TimeOut, RecoveryTickOk, RecoveryTickFailed, RecoveryTick, AbortOk, AbortFailed,
                EnterIdle, Idle, Recovery
  <2> QED
    BY <2>1, <2>2, <2>3 DEF Next, Task, SendRequest, ReceiveResponse, ProcessGetFwVersion,
                            ProcessGiveOffer, ProcessPrepareOrFinalize, vars
<1> QED
  BY <1>1, <1>2, <1>3, <1>4, <1>5, <1>6, <1>7

(* process_recovery_tick gives an update up no earlier than                *)
(* update_timeout_ticks intervals after its first block, for every         *)
(* interval and every number of ticks, and although writing blocks leaves  *)
(* both the count and the armed tick alone.                                *)
THEOREM NoEarlyTimeoutHolds == Spec => NoEarlyTimeout
<1>1. Init => ClockInv
  BY DEF Init, ClockInv, Idle
<1> QED
  BY <1>1, UpdaterInvHolds, ClockStep, PTL DEF Spec, NoEarlyTimeout
=============================================================================
