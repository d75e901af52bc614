------------------------------- MODULE Channel -------------------------------
(****************************************************************************)
(* What a pipe promises: a bounded first-in first-out channel of bytes      *)
(* between a write end and a read end, each of which can be closed once.    *)
(* A reader is told of the end of the stream only when no byte is left and  *)
(* none can follow; a writer is cut short only when the channel is full and *)
(* nobody will ever read it.                                                *)
(****************************************************************************)
EXTENDS Naturals, Sequences

CONSTANTS
    Byte,        \* the values of a byte
    Capacity     \* how many bytes the channel holds

VARIABLES
    chan,        \* the bytes written and not yet read
    out,         \* the byte read last
    readable,    \* the read end is open
    writable,    \* the write end is open
    eof,         \* some read was told of the end of the stream
    cut          \* some write was cut short

cvars == <<chan, out, readable, writable, eof, cut>>

ChannelInit ==
    /\ chan = <<>>
    /\ out \in Byte
    /\ readable = TRUE /\ writable = TRUE
    /\ eof = FALSE /\ cut = FALSE

Put(b) ==
    /\ writable
    /\ Len(chan) < Capacity
    /\ chan' = Append(chan, b)
    /\ UNCHANGED <<out, readable, writable, eof, cut>>

Get ==
    /\ readable
    /\ chan # <<>>
    /\ out' = Head(chan)
    /\ chan' = Tail(chan)
    /\ UNCHANGED <<readable, writable, eof, cut>>

CloseReadEnd ==
    /\ readable
    /\ readable' = FALSE
    /\ UNCHANGED <<chan, out, writable, eof, cut>>

CloseWriteEnd ==
    /\ writable
    /\ writable' = FALSE
    /\ UNCHANGED <<chan, out, readable, eof, cut>>

EndOfStream ==
    /\ readable /\ ~writable
    /\ chan = <<>>
    /\ eof' = TRUE
    /\ UNCHANGED <<chan, out, readable, writable, cut>>

CutShort ==
    /\ writable /\ ~readable
    /\ Len(chan) = Capacity
    /\ cut' = TRUE
    /\ UNCHANGED <<chan, out, readable, writable, eof>>

ChannelNext ==
    \/ \E b \in Byte : Put(b)
    \/ Get
    \/ CloseReadEnd
    \/ CloseWriteEnd
    \/ EndOfStream
    \/ CutShort

ChannelSpec == ChannelInit /\ [][ChannelNext]_cvars
==============================================================================
