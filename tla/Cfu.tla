-------------------------------- MODULE Cfu ---------------------------------
(***************************************************************************)
(* What the parts of cfu-service share: the requests and responses of a    *)
(* CfuDevice (cfu-service/src/component.rs) and its two channels, one      *)
(* request and one response deep.  Payloads are abstracted away, except    *)
(* for what a module adds to a request or a response record.               *)
(***************************************************************************)
EXTENDS Naturals, Sequences

(* enum RequestData. *)
RequestKind == {"FwVersionRequest", "GiveOffer", "GiveContent", "GiveOfferExtended", "GiveOfferInformation",
                "PrepareComponentForUpdate", "FinalizeUpdate", "AbortUpdate"}

(* enum InternalResponseData, without the two variants no code builds. *)
ResponseKind == {"ComponentBusy", "FwVersionResponse", "OfferResponse", "ContentResponse", "ComponentPrepared"}

(* The response a request of each kind asks for. *)
Answers(kind) ==
    CASE kind = "FwVersionRequest" -> {"FwVersionResponse"}
      [] kind \in {"GiveOffer", "GiveOfferExtended", "GiveOfferInformation"} -> {"OfferResponse"}
      [] kind = "GiveContent" -> {"ContentResponse"}
      [] OTHER -> {"ComponentPrepared"}

DEVICE_CHANNEL_SIZE == 1

(* Channel::send waits for room, Channel::receive for a message. *)
HasRoom(channel) == Len(channel) < DEVICE_CHANNEL_SIZE
HasMessage(channel) == channel # <<>>
=============================================================================
