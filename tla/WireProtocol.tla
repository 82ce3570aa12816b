----------------------------- MODULE WireProtocol -----------------------------
(***************************************************************************)
(* What a WebSocket client may rely on: the frames it receives on one      *)
(* connection, in order.  Pings may come at any time; one authentication   *)
(* verdict; room events only after auth_ok, each once, in the order they   *)
(* were handed to the connection and without a gap; nothing but the close  *)
(* frame after auth_error, and nothing after the close frame.              *)
(***************************************************************************)
EXTENDS Naturals, Sequences

VARIABLES
    wire,     \* the frames received so far
    offered   \* the room events handed to the connection so far

wireVars == <<wire, offered>>

Has(k) == \E i \in 1 .. Len(wire) : wire[i].kind = k

\* The numbers of the events received so far.
EventsReceived == {wire[i].n : i \in {j \in 1 .. Len(wire) : wire[j].kind = "event"}}

\* The frames the client may receive next.
MayFollow(f) ==
    /\ ~Has("close")
    /\ \/ f.kind = "close"
       \/ f.kind = "ping" /\ ~Has("auth_error")
       \/ f.kind \in {"auth_ok", "auth_error"} /\ ~Has("auth_ok") /\ ~Has("auth_error")
       \/ /\ f.kind = "event" /\ Has("auth_ok")
          /\ f.n \in 1 .. offered /\ EventsReceived = 1 .. f.n - 1

WireInit == wire = <<>> /\ offered = 0

Offer == offered' = offered + 1 /\ UNCHANGED wire

Arrive ==
    /\ Len(wire') = Len(wire) + 1
    /\ MayFollow(wire'[Len(wire')])
    /\ wire' = Append(wire, wire'[Len(wire')])
    /\ UNCHANGED offered

WireSpec == WireInit /\ [][Offer \/ Arrive]_wireVars
==============================================================================
