------------------------------- MODULE MCCfu --------------------------------
(***************************************************************************)
(* The four parts of cfu-service side by side: the basic updater, the      *)
(* content buffer, the splitter and the default component.                 *)
(* They are tasks of their own that meet only at CfuDevices, and each has  *)
(* its neighbours as external tasks: `unit` says, for a whole behaviour,   *)
(* which one runs.  The component runs twice: for one client that makes    *)
(* every request, and for two whose requests it answers.  Cfu.cfg makes    *)
(* the constants small for TLC.                                            *)
(***************************************************************************)
EXTENDS CfuUpdater

CONSTANTS
    BufferKinds, BufferSize, MaxBlocks, MaxOthers,      \* the buffer
    Devices, MaxSplit,                                  \* the splitter
    Ids, Default, Clients, Targets, CallKinds, MaxCalls, first  \* the component

\* Component 1 is primary, with two slots; the others are sub-components.
SubSlots == [i \in Ids |-> IF i = 1 THEN <<2, 3>> ELSE <<>>]

VARIABLE unit
VARIABLES
    bHost, bSent, bOthers, bUpdate, bHreq, bHresp, bPc, bCur, bBusy,
    bPending, bBuf, bCreq, bCresp, bComp, bGot
VARIABLES
    sHost, sN, sSreq, sSresp, sCur, sFut, sDreq, sDresp, sWork,
    sRegistered, sTook
VARIABLES
    cCall, cCount, cAnswer, cReq, cResp, cCur, cSlot, cInfo

bVars == <<bHost, bSent, bOthers, bUpdate, bHreq, bHresp, bPc, bCur, bBusy,
           bPending, bBuf, bCreq, bCresp, bComp, bGot>>
sVars == <<sHost, sN, sSreq, sSresp, sCur, sFut, sDreq, sDresp, sWork,
           sRegistered, sTook>>
cVars == <<cCall, cCount, cAnswer, cReq, cResp, cCur, cSlot, cInfo>>
allVars == <<vars, bVars, sVars, cVars, unit>>

Buffer == INSTANCE CfuBuffer WITH
    Kinds <- BufferKinds, host <- bHost, sent <- bSent, others <- bOthers,
    update <- bUpdate, hreq <- bHreq, hresp <- bHresp, pc <- bPc, cur <- bCur,
    busy <- bBusy, pending <- bPending, buf <- bBuf, creq <- bCreq,
    cresp <- bCresp, comp <- bComp, got <- bGot

Splitter == INSTANCE CfuSplitter WITH
    MaxRequests <- MaxSplit, host <- sHost, n <- sN, sreq <- sSreq,
    sresp <- sSresp, cur <- sCur, fut <- sFut, dreq <- sDreq, dresp <- sDresp,
    work <- sWork, registered <- sRegistered, took <- sTook

Component == INSTANCE CfuComponent WITH
    Subs <- SubSlots, Kinds <- CallKinds, call <- cCall, count <- cCount,
    answer <- cAnswer, req <- cReq, resp <- cResp, cur <- cCur, slot <- cSlot,
    info <- cInfo

SuiteInit ==
    /\ unit \in {"updater", "buffer", "splitter", "client", "clients"}
    /\ Init /\ Buffer!Init /\ Component!Init
    /\ Splitter!Init /\ (unit = "splitter" \/ sRegistered = {})

\* One client that calls anything, or all of them and what is answered.
ClientsCall ==
    \/ unit = "client" /\ \A c \in Clients \ {first} : cCall'[c] = cCall[c]
    \/ unit = "clients" /\ \A c \in Clients : cCall'[c].kind # "GiveContent"

SuiteNext ==
    \/ unit = "updater" /\ Next /\ UNCHANGED <<bVars, sVars, cVars, unit>>
    \/ unit = "buffer" /\ Buffer!Next /\ UNCHANGED <<vars, sVars, cVars, unit>>
    \/ unit = "splitter" /\ Splitter!Next /\ UNCHANGED <<vars, bVars, cVars, unit>>
    \/ Component!Next /\ ClientsCall /\ UNCHANGED <<vars, bVars, sVars, unit>>

\* Nothing that is fair is enabled in a unit that does not run.
SuiteSpec ==
    /\ SuiteInit /\ [][SuiteNext]_allVars
    /\ Fairness /\ Buffer!Fairness /\ Splitter!Fairness /\ Component!Fairness

-----------------------------------------------------------------------------
\* component_busy is true exactly when an answer of the component is still to
\* come, however routed requests get their answers mixed up with the content's;
\* the component receives every block once and in the order the host sent them,
\* and a block that it has not received is on its way or in the buffer.
BufferHonest == Buffer!BufferHonest

\* Between two requests no device still owes the splitter an answer, and a host
\* that is told of success has every device with it.
SplitterHonest == Splitter!SplitterHonest

\* A single client gets the answer it asked for, and a primary component that
\* gives its versions has asked every one of its slots and got a version.
AnsweredInKind ==
    [][unit = "client" =>
         /\ \A c \in Clients : Component!ClientAnswered(c)
                              => cAnswer'[c] \in Answers(cCall[c].kind)
         /\ \A i \in Ids : Component!SendVersions(i) /\ Component!IsPrimary(i)
                          => cInfo[i] = [k \in 1..Len(SubSlots[i]) |-> TRUE]]_allVars

\* Every request is answered, and in kind: by the updater; by the buffer, unless it
\* is a block that finds the buffer full; by the splitter, with any of the devices
\* not registered; and by the components, if it is for versions or an offer.
EveryRequestAnswered ==
    /\ AnsweredInKind
    /\ []Component!TypeOK
    /\ RequestsAnswered
    /\ Buffer!AnsweredUnlessFull
    /\ Splitter!HostAnswered
    /\ Component!CallsReturn
=============================================================================
