-------------------------------- MODULE Pipe --------------------------------
(***************************************************************************)
(* One relayed connection of the service network (svc/pipe.go): pipe       *)
(* copies between two streamables, a client's connection and a service's   *)
(* (or the libp2p stream that leads to either), each read by a toChan      *)
(* goroutine that hands its chunks over on an unbuffered channel.  When    *)
(* pipe returns, the Handle function that called it closes both            *)
(* (svc/proxy.go).                                                         *)
(*                                                                         *)
(* An application is at the far side of each end.  The chunks it sends are *)
(* numbered; a chunk stands for what one Read of up to 1024 bytes returns. *)
(***************************************************************************)
EXTENDS Naturals, Sequences

CONSTANTS
    Ends,      \* the two ends
    Chunks,    \* Chunks[e]: how many chunks the application of e may send
    Window,    \* how many chunks an end buffers, in each direction
    Patient,   \* ends whose application reads only once it has sent all
    Closing    \* ends whose application may close its side once it has sent all

ASSUME PipeAssumption ==
    /\ \E e, f \in Ends : e # f /\ Ends = {e, f}
    /\ "select" \notin Ends /\ "returned" \notin Ends
    /\ Chunks \in [Ends -> Nat]
    /\ Window \in Nat \ {0}
    /\ Patient \subseteq Ends /\ Closing \subseteq Ends

VARIABLES
    sent,    \* chunks the application of an end has sent
    out,     \* those that toChan has not read
    shut,    \* "no", "write" (end of file follows out) or "gone" (reads and
             \* writes fail), by the application
    reader,  \* toChan's goroutine
    relay,   \* pipe: "select", "returned", or the end it writes to
    moving,  \* the chunk pipe is writing
    buf,     \* written to an end and not read by its application
    got      \* read by the application of an end

vars == <<sent, out, shut, reader, relay, moving, buf, got>>

Other(e) == CHOOSE f \in Ends : f # e

\* "read": in Read.  "send": in c <- res, the chunk being the first of out.
\* "end": in c <- nil.  "done": the goroutine returned.
ReaderSteps == {"read", "send", "end", "done"}

TypeOK ==
    /\ sent \in [Ends -> Nat] /\ \A e \in Ends : sent[e] <= Chunks[e]
    /\ out \in [Ends -> Seq(Nat)] /\ buf \in [Ends -> Seq(Nat)] /\ got \in [Ends -> Seq(Nat)]
    /\ shut \in [Ends -> {"no", "write", "gone"}]
    /\ reader \in [Ends -> ReaderSteps]
    /\ relay \in Ends \cup {"select", "returned"}
    /\ moving \in Nat

Init ==
    /\ sent = [e \in Ends |-> 0]
    /\ out = [e \in Ends |-> << >>]
    /\ shut = [e \in Ends |-> "no"]
    /\ reader = [e \in Ends |-> "read"]
    /\ relay = "select" /\ moving = 0
    /\ buf = [e \in Ends |-> << >>]
    /\ got = [e \in Ends |-> << >>]

-----------------------------------------------------------------------------
(* The applications. *)

AppSends(e) ==
    /\ shut[e] = "no" /\ relay # "returned" /\ sent[e] < Chunks[e]
    /\ Len(out[e]) < Window
    /\ sent' = [sent EXCEPT ![e] = @ + 1]
    /\ out' = [out EXCEPT ![e] = Append(@, sent'[e])]
    /\ UNCHANGED <<shut, reader, relay, moving, buf, got>>

\* The application has sent its last chunk and closes its side for writing.
AppShuts(e) ==
    /\ e \in Closing /\ shut[e] = "no" /\ sent[e] = Chunks[e]
    /\ shut' = [shut EXCEPT ![e] = "write"]
    /\ UNCHANGED <<sent, out, reader, relay, moving, buf, got>>

\* The connection of the application is reset; what was not read may be lost.
AppGoes(e) ==
    /\ shut[e] # "gone"
    /\ shut' = [shut EXCEPT ![e] = "gone"]
    /\ \/ UNCHANGED out
       \/ out' = [out EXCEPT ![e] = IF reader[e] = "send" THEN SubSeq(@, 1, 1) ELSE << >>]
    /\ UNCHANGED <<sent, reader, relay, moving, buf, got>>

AppReads(e) ==
    /\ shut[e] # "gone" /\ buf[e] # << >>
    /\ e \in Patient => sent[e] = Chunks[e]
    /\ got' = [got EXCEPT ![e] = Append(@, Head(buf[e]))]
    /\ buf' = [buf EXCEPT ![e] = Tail(@)]
    /\ UNCHANGED <<sent, out, shut, reader, relay, moving>>

-----------------------------------------------------------------------------
(* toChan. *)

ReadChunk(e) ==
    /\ reader[e] = "read" /\ out[e] # << >>
    /\ reader' = [reader EXCEPT ![e] = "send"]
    /\ UNCHANGED <<sent, out, shut, relay, moving, buf, got>>

\* Defect used to test the properties: the error is looked at before the data.
ReadEndFirst(e) ==
    /\ reader[e] = "read"
    /\ shut[e] # "no" \/ relay = "returned"
    /\ reader' = [reader EXCEPT ![e] = "end"]
    /\ UNCHANGED <<sent, out, shut, relay, moving, buf, got>>

\* End of file, a reset, or the deferred Close of this end.
ReadEnd(e) ==
    /\ reader[e] = "read"
    /\ (shut[e] # "no" /\ out[e] = << >>) \/ relay = "returned"
    /\ reader' = [reader EXCEPT ![e] = "end"]
    /\ UNCHANGED <<sent, out, shut, relay, moving, buf, got>>

-----------------------------------------------------------------------------
(* pipe. *)

\* Defect used to test the properties: toChan hands out its read buffer, and
\* reads on before the chunk is written.
ReceiveShared(e) ==
    /\ relay = "select" /\ reader[e] = "send"
    /\ relay' = Other(e)
    /\ moving' = out[e][Len(out[e])]
    /\ out' = [out EXCEPT ![e] = Tail(@)]
    /\ reader' = [reader EXCEPT ![e] = "read"]
    /\ UNCHANGED <<sent, shut, buf, got>>

Receive(e) ==
    /\ relay = "select" /\ reader[e] = "send"
    /\ relay' = Other(e)
    /\ moving' = Head(out[e])
    /\ out' = [out EXCEPT ![e] = Tail(@)]
    /\ reader' = [reader EXCEPT ![e] = "read"]
    /\ UNCHANGED <<sent, shut, buf, got>>

\* Defect used to test the properties: the end of one side is not the end.
ReceiveNilIgnored(e) ==
    /\ relay = "select" /\ reader[e] = "end"
    /\ reader' = [reader EXCEPT ![e] = "done"]
    /\ UNCHANGED <<sent, out, shut, relay, moving, buf, got>>

\* nil from either side: pipe returns, and both ends are closed.
ReceiveNil(e) ==
    /\ relay = "select" /\ reader[e] = "end"
    /\ relay' = "returned"
    /\ reader' = [reader EXCEPT ![e] = "done"]
    /\ UNCHANGED <<sent, out, shut, moving, buf, got>>

\* Write blocks while the end is full.  Its error is ignored: what is written
\* to an end that is gone is lost.
Write(e) ==
    /\ relay = e
    /\ shut[e] = "gone" \/ Len(buf[e]) < Window
    /\ relay' = "select" /\ moving' = 0
    /\ buf' = IF shut[e] = "gone" THEN buf ELSE [buf EXCEPT ![e] = Append(@, moving)]
    /\ UNCHANGED <<sent, out, shut, reader, got>>

toChan(e) == ReadChunk(e) \/ ReadEnd(e)
pipe == \E e \in Ends : Receive(e) \/ ReceiveNil(e) \/ Write(e)

Next ==
    \/ \E e \in Ends : AppSends(e) \/ AppShuts(e) \/ AppGoes(e) \/ AppReads(e) \/ toChan(e)
    \/ pipe

Spec == Init /\ [][Next]_vars

\* The goroutines run, and the applications send and read; none need hang up.
Fairness ==
    /\ \A e \in Ends : WF_vars(toChan(e)) /\ WF_vars(AppSends(e)) /\ WF_vars(AppReads(e))
    /\ WF_vars(pipe)

FairSpec == Spec /\ Fairness

-----------------------------------------------------------------------------
(* Properties. *)

UpTo(n) == [i \in 1..n |-> i]
InFlight(e) == IF relay = e THEN <<moving>> ELSE << >>
Delivered(e) == got[e] \o buf[e]

\* While both connections are up, every chunk an application sent is delivered,
\* in pipe's hands, or still to be read: the relay itself loses nothing.
NothingLost ==
    relay # "returned" /\ (\A e \in Ends : shut[e] # "gone") =>
        \A e \in Ends : Delivered(e) \o InFlight(e) \o out[Other(e)] = UpTo(sent[Other(e)])

LinkOf(e) ==
    IF (\E f \in Ends : shut[f] = "gone") \/ (relay = "returned" /\ reader[e] # "done")
      THEN "broken"
    ELSE IF relay = "returned" THEN "ended"
    ELSE "up"

Direction(e) == INSTANCE Channel WITH
    Messages <- 1..Chunks[e],
    sent <- UpTo(sent[e]),
    got <- Delivered(Other(e)),
    link <- LinkOf(e)

\* Whatever the applications do and however the four goroutines interleave, each
\* direction is a channel: an application receives the chunks of the other in
\* order, from the first, none twice and none skipped; and when pipe returns for
\* the end of one side, all that side sent has been written to the other.  It is
\* Direction(e)!Spec for every e, with the quantifier inside the box.
ImplementsChannels ==
    /\ \A e \in Ends : Direction(e)!Init
    /\ [][\A e \in Ends : [Direction(e)!Next]_(Direction(e)!vars)]_vars

\* pipe is writing to a full end whose application does not read yet.
Stalled == \E e \in Patient : relay = e /\ Len(buf[e]) = Window /\ sent[e] < Chunks[e]

\* A side that ends brings the relay down, whatever the other side is doing:
\* pipe does not keep a connection of which one end is gone, unless it is stuck
\* for ever in a write to the other.
EndReachesPipe == (\A e \in Ends : shut[e] # "no" ~> relay = "returned") \/ <>[]Stalled

\* The documentation: the node relays all traffic between the service and the
\* client.  What an application sends reaches the other, unless one of the two
\* connections is reset.  The one loop of pipe breaks this in two ways: it waits
\* in Write for a side that sends all before it reads, and serves the other
\* direction no more; and it returns for the end of file of one side, when the
\* other may still have an answer to send.
TrafficFlows ==
    \A e \in Ends : \A k \in 1..Chunks[Other(e)] :
        sent[Other(e)] >= k ~> (Len(got[e]) >= k \/ \E f \in Ends : shut[f] = "gone")
=============================================================================
