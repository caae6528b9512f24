------------------------------- MODULE Tunnel -------------------------------
(***************************************************************************)
(* A CONNECT request: handleConnect and tunnel of                          *)
(* internal/proxy/intercept.go.  The handler dials the target, takes the   *)
(* client's connection over from net/http, and starts two goroutines that  *)
(* copy one direction each.  What the client may send before the takeover  *)
(* is what makes this delicate: net/http has buffered all that came along  *)
(* with the request, its background read takes one more byte, and the      *)
(* handler throws the buffer that Hijack returns away.                     *)
(*                                                                         *)
(* A unit is a byte.  The two ends of the tunnel are its peers; a peer     *)
(* may stop sending and read on (half), close its connection for good      *)
(* (gone), or break it (reset).                                            *)
(***************************************************************************)
EXTENDS Naturals, Sequences

CONSTANTS
  MaxUnits,  \* bound: how many units a peer sends
  Window     \* how many units the network holds for a peer that does not read

ASSUME TunnelAssumption == MaxUnits \in Nat /\ Window \in Nat \ {0}

VARIABLES
  stage,    \* of handleConnect, and then of tunnel
  peer,     \* peer[e]: "open", "half", "gone" or "reset"
  sent,     \* sent[e]: how many units e has sent; they are numbered from 1
  inbox,    \* inbox[e]: those the proxy has not read yet
  buffered, \* units of the client that came along with its request
  lost,     \* units of the client that net/http has read
  copier,   \* copier[e]: the goroutine that copies from e
  held,     \* held[e]: what it has read and not written yet
  into,     \* into[e]: what has been written to e
  taken     \* taken[e]: how much of that e has read

tunnelVars == <<stage, peer, sent, inbox, buffered, lost, copier, held, into, taken>>

Ends == {"client", "target"}
Other(e) == IF e = "client" THEN "target" ELSE "client"

\* No tunnel yet.  The client's first units may come with its CONNECT request.
TunnelInit ==
  /\ stage = "none"
  /\ peer = [e \in Ends |-> "open"]
  /\ buffered \in 0..MaxUnits
  /\ lost = buffered
  /\ sent = [e \in Ends |-> IF e = "client" THEN buffered ELSE 0]
  /\ inbox = [e \in Ends |-> <<>>]
  /\ copier = [e \in Ends |-> "unborn"]
  /\ held = [e \in Ends |-> 0]
  /\ into = [e \in Ends |-> <<>>]
  /\ taken = [e \in Ends |-> 0]

-----------------------------------------------------------------------------
(* handleConnect.                                                           *)

StartTunnel ==
  /\ stage = "none"
  /\ stage' = "dial"
  /\ UNCHANGED <<peer, sent, inbox, buffered, lost, copier, held, into, taken>>

\* net.Dial: without a connection the answer is 502.
Dial ==
  /\ stage = "dial"
  /\ stage' \in {"hijack", "failed"}
  /\ UNCHANGED <<peer, sent, inbox, buffered, lost, copier, held, into, taken>>

\* net/http's background read takes one unit, at any time until Hijack has
\* stopped it, which is after the 200 has gone out.
BackgroundRead ==
  /\ stage \in {"dial", "hijack"}
  /\ lost = buffered /\ inbox["client"] # <<>>
  /\ lost' = lost + 1
  /\ inbox' = [inbox EXCEPT !["client"] = Tail(@)]
  /\ UNCHANGED <<stage, peer, sent, buffered, copier, held, into, taken>>

\* hijacker.Hijack(), and go p.tunnel(clientConn, targetConn), which starts the two
\* goroutines.  A connection of HTTP/1, the only kind here, can be hijacked.
Hijack ==
  /\ stage = "hijack"
  /\ stage' = "copy"
  /\ copier' = [e \in Ends |-> "reading"]
  /\ UNCHANGED <<peer, sent, inbox, buffered, lost, held, into, taken>>

-----------------------------------------------------------------------------
(* tunnel: io.Copy(Other(e), e).                                            *)

\* Mutant of Read: a broken connection is read again instead of given up.
ReadAgain(e) ==
  /\ stage = "copy" /\ copier[e] = "reading"
  /\ \/ /\ inbox[e] # <<>>
        /\ held' = [held EXCEPT ![e] = Head(inbox[e])]
        /\ inbox' = [inbox EXCEPT ![e] = Tail(@)]
        /\ copier' = [copier EXCEPT ![e] = "writing"]
     \/ /\ inbox[e] = <<>> /\ peer[e] \in {"half", "gone"}
        /\ copier' = [copier EXCEPT ![e] = "done"]
        /\ UNCHANGED <<held, inbox>>
  /\ UNCHANGED <<stage, peer, sent, buffered, lost, into, taken>>

\* src.Read: a unit, the end of the stream, or an error.
Read(e) ==
  /\ stage = "copy" /\ copier[e] = "reading"
  /\ \/ /\ inbox[e] # <<>>
        /\ held' = [held EXCEPT ![e] = Head(inbox[e])]
        /\ inbox' = [inbox EXCEPT ![e] = Tail(@)]
        /\ copier' = [copier EXCEPT ![e] = "writing"]
     \/ /\ \/ inbox[e] = <<>> /\ peer[e] \in {"half", "gone"}
           \/ peer[e] = "reset"
        /\ copier' = [copier EXCEPT ![e] = "done"]
        /\ UNCHANGED <<held, inbox>>
  /\ UNCHANGED <<stage, peer, sent, buffered, lost, into, taken>>

\* dst.Write: it waits while the network holds too much already.  What is written to
\* a peer that has closed its connection vanishes, and the reset that answers it makes
\* the next write fail, with which Copy returns.
Write(e) ==
  /\ stage = "copy" /\ copier[e] = "writing"
  /\ held' = [held EXCEPT ![e] = 0]
  /\ \/ /\ peer[Other(e)] \in {"open", "half"}
        /\ Len(into[Other(e)]) - taken[Other(e)] < Window
        /\ into' = [into EXCEPT ![Other(e)] = Append(@, held[e])]
        /\ copier' = [copier EXCEPT ![e] = "reading"]
        /\ UNCHANGED peer
     \/ /\ peer[Other(e)] = "gone"
        /\ peer' \in {peer, [peer EXCEPT ![Other(e)] = "reset"]}
        /\ copier' = [copier EXCEPT ![e] = "reading"]
        /\ UNCHANGED into
     \/ /\ peer[Other(e)] = "reset"
        /\ copier' = [copier EXCEPT ![e] = "done"]
        /\ UNCHANGED <<peer, into>>
  /\ UNCHANGED <<stage, sent, inbox, buffered, lost, taken>>

\* Mutant of CloseBoth: the first direction that is over ends the tunnel.
CloseBothEarly ==
  /\ stage = "copy" /\ \E e \in Ends : copier[e] = "done"
  /\ stage' = "closed"
  /\ UNCHANGED <<peer, sent, inbox, buffered, lost, copier, held, into, taken>>

\* wg.Wait() has returned: both connections are closed.  Until then neither peer is
\* told that the other one has stopped sending.
CloseBoth ==
  /\ stage = "copy" /\ \A e \in Ends : copier[e] = "done"
  /\ stage' = "closed"
  /\ UNCHANGED <<peer, sent, inbox, buffered, lost, copier, held, into, taken>>

Copying == \E e \in Ends : Read(e) \/ Write(e)

-----------------------------------------------------------------------------
(* The peers.  The target is connected once it has been dialled.            *)

Connected(e) == stage \in {"hijack", "copy"} \/ (stage = "dial" /\ e = "client")

Send(e) ==
  /\ Connected(e) /\ peer[e] = "open" /\ sent[e] < MaxUnits
  /\ sent' = [sent EXCEPT ![e] = @ + 1]
  /\ inbox' = [inbox EXCEPT ![e] = Append(@, sent[e] + 1)]
  /\ UNCHANGED <<stage, peer, buffered, lost, copier, held, into, taken>>

Receive(e) ==
  /\ peer[e] \in {"open", "half"} /\ taken[e] < Len(into[e])
  /\ taken' = [taken EXCEPT ![e] = @ + 1]
  /\ UNCHANGED <<stage, peer, sent, inbox, buffered, lost, copier, held, into>>

\* e stops sending, closes its connection, or breaks it.
Turn(e) ==
  /\ Connected(e)
  /\ \/ peer[e] = "open" /\ peer' = [peer EXCEPT ![e] = "half"]
     \/ /\ peer[e] \in {"open", "half"}
        /\ \E s \in {"gone", "reset"} : peer' = [peer EXCEPT ![e] = s]
  /\ UNCHANGED <<stage, sent, inbox, buffered, lost, copier, held, into, taken>>

Proxying == Dial \/ BackgroundRead \/ Hijack \/ Copying \/ CloseBoth
TunnelNext == Proxying \/ \E e \in Ends : Send(e) \/ Receive(e) \/ Turn(e)

-----------------------------------------------------------------------------
(* Properties.                                                              *)

TunnelTypeOK ==
  /\ stage \in {"none", "dial", "hijack", "copy", "closed", "failed"}
  /\ peer \in [Ends -> {"open", "half", "gone", "reset"}]
  /\ sent \in [Ends -> 0..MaxUnits] /\ taken \in [Ends -> 0..MaxUnits]
  /\ inbox \in [Ends -> Seq(1..MaxUnits)] /\ into \in [Ends -> Seq(1..MaxUnits)]
  /\ buffered \in 0..MaxUnits /\ lost \in buffered..MaxUnits
  /\ copier \in [Ends -> {"unborn", "reading", "writing", "done"}]
  /\ held \in [Ends -> 0..MaxUnits]

\* What comes out at either end is what went in at the other, in order and without
\* a hole.  Only what the client sent before the takeover is missing: all that came
\* with its request, and at most one unit more.  And a stream whose sender has
\* ended it is complete when the tunnel is closed, if its receiver has not gone
\* away, however the other direction ended (intercept.go:146-173).
StreamsIntact ==
  \A e \in Ends :
    LET missing == IF e = "client" THEN lost ELSE 0 IN
    /\ into[Other(e)] = [i \in 1..Len(into[Other(e)]) |-> missing + i]
    /\ missing <= buffered + 1
    /\ /\ stage = "closed"
       /\ peer[e] \in {"half", "gone"} /\ peer[Other(e)] \in {"open", "half"}
       => Len(into[Other(e)]) = sent[e] - missing

\* A peer that has stopped sending holds its end without reading what waits for it.
Stalled(e) == peer[e] = "half" /\ Len(into[e]) - taken[e] = Window
BothEnded == stage = "copy" /\ \A e \in Ends : peer[e] # "open"
=============================================================================
