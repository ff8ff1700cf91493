-------------------------------- MODULE Pipes --------------------------------
(***************************************************************************)
(* pkg/tunnel/mux.go: Pipe and PipeWithCompress copy between two           *)
(* connections in both directions, one goroutine each, until the first of  *)
(* them ends; then both connections are closed.                            *)
(*                                                                         *)
(* With compression each goroutine decodes what it reads and encodes what  *)
(* it writes, through snappy's BufferedWriter: a chunk stays in its buffer *)
(* until there is no room for the next, or until Flush.  A peer that does  *)
(* not speak snappy makes the reader fail.  Chunks are numbered.           *)
(***************************************************************************)
EXTENDS Integers, Sequences

CONSTANTS BufferSize,   \* chunks that fit into snappy's write buffer
          Window,       \* chunks that the network holds for a peer
          Chunks        \* bound: chunks that each peer sends

\* Goroutine d copies to connection d, from the other one.
Conns == {"src", "dst"}
From(d) == IF d = "src" THEN "dst" ELSE "src"

VARIABLES
    main,       \* the caller: "idle", "wait", "closing", "returned"
    compress,   \* the argument of PipeWithCompress
    pc,         \* each goroutine: "copy", "flush", "signal", "ended"
    eof,        \* did the goroutine's io.Copy end with an end of file?
    buffer,     \* chunks in each goroutine's BufferedWriter
    done,       \* elements in the channel done
    open,       \* the connections that Pipe has not closed
    sent,       \* how many chunks each peer has sent; they are 1, 2, ...
    plain,      \* peers that do not speak snappy
    finished,   \* peers that have closed their end
    inflight,   \* chunks on their way from each peer
    window,     \* chunks on their way to each peer
    received    \* chunks that each peer has read

vars == <<main, compress, pc, eof, buffer, done, open, sent, plain, finished,
          inflight, window, received>>

conn == <<main, compress, done, open>>
peer == <<sent, plain, finished>>

Init ==
    /\ main = "idle" /\ compress = FALSE /\ done = 0 /\ open = Conns
    /\ pc = [d \in Conns |-> "copy"] /\ eof = [d \in Conns |-> FALSE]
    /\ buffer = [d \in Conns |-> <<>>]
    /\ sent = [d \in Conns |-> 0] /\ plain = {} /\ finished = {}
    /\ inflight = [d \in Conns |-> <<>>]
    /\ window = [d \in Conns |-> <<>>]
    /\ received = [d \in Conns |-> <<>>]

\* The call, with or without compression, for peers that may not compress.
Call ==
    /\ main = "idle" /\ main' = "wait"
    /\ compress' \in BOOLEAN /\ plain' \in SUBSET Conns
    /\ UNCHANGED <<pc, eof, buffer, done, open, sent, finished, inflight, window, received>>

\* Is a BufferedWriter between the copy and the connection?
Buffered == compress

\* One turn of io.Copy.  With a buffered writer the chunk waits in the buffer, and
\* a full buffer is written out first.
Copy(d) ==
    /\ main # "idle" /\ pc[d] = "copy"
    /\ {d, From(d)} \subseteq open
    /\ inflight[From(d)] # <<>> /\ (compress => From(d) \notin plain)
    /\ LET chunk == Head(inflight[From(d)])
           full == Len(buffer[d]) = BufferSize
           out == IF ~Buffered THEN <<chunk>> ELSE IF full THEN buffer[d] ELSE <<>>
       IN /\ out # <<>> => Len(window[d]) < Window
          /\ window' = [window EXCEPT ![d] = @ \o out]
          /\ buffer' = [buffer EXCEPT ![d] = IF ~Buffered THEN <<>>
                                             ELSE IF full THEN <<chunk>> ELSE Append(@, chunk)]
    /\ inflight' = [inflight EXCEPT ![From(d)] = Tail(@)]
    /\ UNCHANGED <<conn, peer, pc, eof, received>>

\* io.Copy ends: at the end of the peer's data, ...
CopyEof(d) ==
    /\ main # "idle" /\ pc[d] = "copy"
    /\ From(d) \in open \cap finished /\ inflight[From(d)] = <<>>
    /\ eof' = [eof EXCEPT ![d] = TRUE]
    /\ pc' = [pc EXCEPT ![d] = "flush"]
    /\ UNCHANGED <<conn, peer, buffer, inflight, window, received>>

\* ... or with an error: a connection is closed, the receiver is gone, or what
\* was read is not snappy.
CopyError(d) ==
    /\ main # "idle" /\ pc[d] = "copy"
    /\ \/ {d, From(d)} \cap open # Conns
       \/ d \in finished /\ inflight[From(d)] # <<>>
       \/ compress /\ From(d) \in plain /\ inflight[From(d)] # <<>>
    /\ pc' = [pc EXCEPT ![d] = "flush"]
    /\ UNCHANGED <<conn, peer, eof, buffer, inflight, window, received>>

\* Mutant of Flushed: the writer is not flushed after the copy.
NotFlushed(d) == window[d]

\* What the peer is sent when the goroutine is done: writer.Flush() empties the
\* buffer.  It has no effect on a connection that is closed.
Flushed(d) == IF d \in open THEN window[d] \o buffer[d] ELSE window[d]

Flush(d) ==
    /\ pc[d] = "flush"
    /\ (d \in open /\ buffer[d] # <<>>) => (Len(window[d]) < Window \/ d \in finished)
    /\ window' = [window EXCEPT ![d] = Flushed(d)]
    /\ buffer' = [buffer EXCEPT ![d] = <<>>]
    /\ pc' = [pc EXCEPT ![d] = "signal"]
    /\ UNCHANGED <<conn, peer, eof, inflight, received>>

\* Mutant of ChannelRoom: done is not buffered.
ReceiverWaits == main = "wait" /\ done = 0

\* done := make(chan struct{}, 2)
ChannelRoom == done < 2

Signal(d) ==
    /\ pc[d] = "signal" /\ ChannelRoom
    /\ done' = done + 1
    /\ pc' = [pc EXCEPT ![d] = "ended"]
    /\ UNCHANGED <<main, compress, open, peer, eof, buffer, inflight, window, received>>

\* <-done, and the deferred Close of dst and then of src.
Receive ==
    /\ main = "wait" /\ done > 0
    /\ done' = done - 1 /\ main' = "closing"
    /\ UNCHANGED <<compress, pc, eof, buffer, open, peer, inflight, window, received>>

Close ==
    /\ main = "closing"
    /\ IF "dst" \in open
       THEN open' = open \ {"dst"} /\ UNCHANGED main
       ELSE open' = {} /\ main' = "returned"
    /\ UNCHANGED <<compress, pc, eof, buffer, done, peer, inflight, window, received>>

-----------------------------------------------------------------------------
(* The peers *)

Send(c) ==
    /\ main # "idle" /\ c \notin finished /\ sent[c] < Chunks
    /\ sent' = [sent EXCEPT ![c] = @ + 1]
    /\ inflight' = [inflight EXCEPT ![c] = Append(@, sent[c] + 1)]
    /\ UNCHANGED <<conn, plain, finished, pc, eof, buffer, window, received>>

Read(c) ==
    /\ window[c] # <<>>
    /\ received' = [received EXCEPT ![c] = Append(@, Head(window[c]))]
    /\ window' = [window EXCEPT ![c] = Tail(@)]
    /\ UNCHANGED <<conn, peer, pc, eof, buffer, inflight>>

Finish(c) ==
    /\ main # "idle" /\ c \notin finished
    /\ finished' = finished \cup {c}
    /\ UNCHANGED <<conn, sent, plain, pc, eof, buffer, inflight, window, received>>

Goroutine(d) == Copy(d) \/ CopyEof(d) \/ CopyError(d) \/ Flush(d) \/ Signal(d)

Next ==
    \/ Call \/ Receive \/ Close
    \/ \E d \in Conns : Goroutine(d) \/ Send(d) \/ Read(d) \/ Finish(d)

Spec == Init /\ [][Next]_vars

\* Goroutines run, and the caller waits for them.  Peers need not read.
Fairness == WF_vars(Receive \/ Close) /\ \A d \in Conns : WF_vars(Goroutine(d))

-----------------------------------------------------------------------------
(* Properties *)

Arrived(d) == received[d] \o window[d]

\* What the peer of d gets is what the other peer sent, in order and without a
\* gap, and while nothing has been closed a goroutine whose source ended properly
\* has handed over all of it before it reports that it is done.
InOrderAndFlushed ==
    \A d \in Conns :
        /\ Arrived(d) = [i \in 1..Len(Arrived(d)) |-> i]
        /\ open = Conns /\ pc[d] \in {"signal", "ended"} /\ eof[d]
               => Len(Arrived(d)) = sent[From(d)]

\* When one direction has ended, both goroutines and the call end and both
\* connections are closed, also if a peer neither sends nor reads any more.
PipeEnds ==
    (\E d \in Conns : pc[d] = "ended")
        ~> (main = "returned" /\ \A d \in Conns : pc[d] = "ended")
=============================================================================
