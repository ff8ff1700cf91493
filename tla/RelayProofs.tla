----------------------------- MODULE RelayProofs -----------------------------
(***************************************************************************)
(* Proofs about Relay, for any number of connections, chunks and           *)
(* datagrams and any room behind the header: the gauges of both sides are  *)
(* exact, and no chunk is duplicated or reordered.                         *)
(*                                                                         *)
(* A step changes one connection, so the invariant is one of a connection  *)
(* (Good), and a step is looked at as a change of one record.              *)
(***************************************************************************)
EXTENDS Relay, FiniteSetTheorems, TLAPS

-----------------------------------------------------------------------------
(* Sequences that are increasing as far as members of a set are concerned *)

Ordered(S, s) == \A i, j \in DOMAIN s : i < j /\ s[i] \in S /\ s[j] \in S => s[i] < s[j]
Before(S, s, t) == \A i \in DOMAIN s, j \in DOMAIN t : s[i] \in S /\ t[j] \in S => s[i] < t[j]

\* The elements of a suffix.
LEMMA SuffixElements ==
    ASSUME NEW t \in Seq(Nat), NEW n \in 1..Len(t)
    PROVE  /\ SubSeq(t, n + 1, Len(t)) \in Seq(Nat)
           /\ DOMAIN SubSeq(t, n + 1, Len(t)) = 1..(Len(t) - n)
           /\ \A i \in 1..(Len(t) - n) : SubSeq(t, n + 1, Len(t))[i] = t[i + n]
OBVIOUS

\* A suffix of an ordered sequence is ordered, and after what the whole is after.
LEMMA SuffixOrdered ==
    ASSUME NEW S, NEW t \in Seq(Nat), NEW n \in 1..Len(t)
    PROVE  LET w == SubSeq(t, n + 1, Len(t))
           IN  /\ w \in Seq(Nat)
               /\ \A i \in DOMAIN w : i + n \in DOMAIN t /\ w[i] = t[i + n]
               /\ Ordered(S, t) => Ordered(S, w)
               /\ \A s \in Seq(Nat) : /\ Before(S, s, t) => Before(S, s, w)
                                      /\ Before(S, t, s) => Before(S, w, s)
<1> DEFINE w == SubSeq(t, n + 1, Len(t))
<1>1. w \in Seq(Nat) /\ DOMAIN w = 1..(Len(t) - n) /\ \A i \in DOMAIN w : w[i] = t[i + n]
  BY SuffixElements
<1> HIDE DEF w
<1>2. \A i \in DOMAIN w : i + n \in DOMAIN t /\ w[i] = t[i + n]
  BY <1>1
<1>3. Ordered(S, t) => Ordered(S, w)
  BY <1>1, <1>2 DEF Ordered
<1>4. ASSUME NEW s \in Seq(Nat)
      PROVE  (Before(S, s, t) => Before(S, s, w)) /\ (Before(S, t, s) => Before(S, w, s))
  BY <1>1, <1>2 DEF Before
<1>5. QED
  BY <1>1, <1>2, <1>3, <1>4 DEF w

\* So is what a Read of one element leaves.
LEMMA TailOrdered ==
    ASSUME NEW S, NEW t \in Seq(Nat), t # <<>>
    PROVE  /\ Tail(t) \in Seq(Nat)
           /\ \A i \in DOMAIN Tail(t) : i + 1 \in DOMAIN t /\ Tail(t)[i] = t[i + 1]
           /\ Ordered(S, t) => Ordered(S, Tail(t))
           /\ \A s \in Seq(Nat) : /\ Before(S, s, t) => Before(S, s, Tail(t))
                                  /\ Before(S, t, s) => Before(S, Tail(t), s)
<1> DEFINE w == Tail(t)
<1>1. w \in Seq(Nat) /\ \A i \in DOMAIN w : i + 1 \in DOMAIN t /\ w[i] = t[i + 1]
  OBVIOUS
<1>2. DOMAIN w \subseteq Int
  OBVIOUS
<1> HIDE DEF w
<1>3. Ordered(S, t) => Ordered(S, w)
  BY <1>1, <1>2 DEF Ordered
<1>4. ASSUME NEW s \in Seq(Nat)
      PROVE  (Before(S, s, t) => Before(S, s, w)) /\ (Before(S, t, s) => Before(S, w, s))
  BY <1>1 DEF Before
<1>5. QED
  BY <1>1, <1>3, <1>4 DEF w

\* An element is appended to a sequence that it comes after.
LEMMA AppendOrdered ==
    ASSUME NEW S, NEW s \in Seq(Nat), NEW t \in Seq(Nat), NEW x \in Nat
    PROVE  /\ Append(s, x) \in Seq(Nat)
           /\ \A i \in DOMAIN Append(s, x) :
                 (i \in DOMAIN s /\ Append(s, x)[i] = s[i]) \/ (i = Len(s) + 1 /\ Append(s, x)[i] = x)
           /\ Ordered(S, s) /\ Before(S, s, <<x>>) => Ordered(S, Append(s, x))
           /\ Before(S, s, t) /\ Before(S, <<x>>, t) => Before(S, Append(s, x), t)
           /\ Before(S, t, s) /\ Before(S, t, <<x>>) => Before(S, t, Append(s, x))
<1> DEFINE w == Append(s, x)
<1>1. /\ w \in Seq(Nat) /\ DOMAIN w = 1..(Len(s) + 1) /\ DOMAIN s = 1..Len(s) /\ Len(s) \in Nat
      /\ \A i \in DOMAIN s : w[i] = s[i]
      /\ w[Len(s) + 1] = x
  OBVIOUS
<1>2. \A i \in DOMAIN w : (i \in DOMAIN s /\ w[i] = s[i]) \/ (i = Len(s) + 1 /\ w[i] = x)
  BY <1>1
<1>3. DOMAIN <<x>> = {1} /\ <<x>>[1] = x
  OBVIOUS
<1> HIDE DEF w
<1>4. Ordered(S, s) /\ Before(S, s, <<x>>) => Ordered(S, w)
  <2> SUFFICES ASSUME Ordered(S, s), Before(S, s, <<x>>), NEW i \in DOMAIN w, NEW j \in DOMAIN w,
                      i < j, w[i] \in S, w[j] \in S
               PROVE  w[i] < w[j]
    BY DEF Ordered
  <2>1. i \in DOMAIN s /\ w[i] = s[i]
    BY <1>1, <1>2
  <2>2. CASE j \in DOMAIN s /\ w[j] = s[j]
    BY <2>1, <2>2 DEF Ordered
  <2>3. CASE w[j] = x
    BY <1>3, <2>1, <2>3 DEF Before
  <2>4. QED
    BY <1>2, <2>2, <2>3
<1>5. Before(S, s, t) /\ Before(S, <<x>>, t) => Before(S, w, t)
  BY <1>2, <1>3 DEF Before
<1>6. Before(S, t, s) /\ Before(S, t, <<x>>) => Before(S, t, w)
  BY <1>2, <1>3 DEF Before
<1>7. QED
  BY <1>1, <1>2, <1>4, <1>5, <1>6 DEF w

\* The head of an ordered sequence comes before its tail, and is where the whole is.
LEMMA HeadOrdered ==
    ASSUME NEW S, NEW s \in Seq(Nat), NEW t \in Seq(Nat), t # <<>>
    PROVE  /\ Head(t) \in Nat /\ 1 \in DOMAIN t /\ Head(t) = t[1]
           /\ Ordered(S, t) => Before(S, <<Head(t)>>, Tail(t))
           /\ Before(S, s, t) => Before(S, s, <<Head(t)>>)
           /\ Before(S, t, s) => Before(S, <<Head(t)>>, s)
<1>1. Head(t) \in Nat /\ 1 \in DOMAIN t /\ Head(t) = t[1]
  OBVIOUS
<1>2. DOMAIN <<Head(t)>> = {1} /\ <<Head(t)>>[1] = Head(t)
  OBVIOUS
<1>3. \A i \in DOMAIN Tail(t) : i + 1 \in DOMAIN t /\ 1 < i + 1 /\ Tail(t)[i] = t[i + 1]
  OBVIOUS
<1>4. Ordered(S, t) => Before(S, <<Head(t)>>, Tail(t))
  BY <1>1, <1>2, <1>3 DEF Ordered, Before
<1>5. QED
  BY <1>1, <1>2, <1>4 DEF Before

\* The head of t moves to the end of s, while u stays before both and v after both.
LEMMA MoveOrdered ==
    ASSUME NEW S, NEW s \in Seq(Nat), NEW t \in Seq(Nat), t # <<>>,
           Ordered(S, s), Ordered(S, t), Before(S, s, t)
    PROVE  /\ Ordered(S, Append(s, Head(t))) /\ Ordered(S, Tail(t))
           /\ Before(S, Append(s, Head(t)), Tail(t))
           /\ \A u \in Seq(Nat) : Before(S, u, s) /\ Before(S, u, t)
                  => Before(S, u, Append(s, Head(t))) /\ Before(S, u, Tail(t))
           /\ \A v \in Seq(Nat) : Before(S, s, v) /\ Before(S, t, v)
                  => Before(S, Append(s, Head(t)), v) /\ Before(S, Tail(t), v)
<1> DEFINE s1 == Append(s, Head(t))
           t1 == Tail(t)
<1>1. PICK x \in Nat : x = Head(t)
  BY HeadOrdered
<1>2. t1 \in Seq(Nat) /\ Ordered(S, t1)
  BY TailOrdered
<1>3. Before(S, s, <<x>>) /\ Before(S, <<x>>, t1)
  BY <1>1, HeadOrdered
<1>4. Before(S, s, t1)
  BY TailOrdered
<1>5. Ordered(S, s1) /\ Before(S, s1, t1)
  BY <1>1, <1>2, <1>3, <1>4, AppendOrdered
<1>6. ASSUME NEW u \in Seq(Nat), Before(S, u, s), Before(S, u, t)
      PROVE  Before(S, u, s1) /\ Before(S, u, t1)
  <2>1. Before(S, u, t1)
    BY <1>6, TailOrdered
  <2>2. Before(S, u, <<x>>)
    BY <1>1, <1>6, HeadOrdered
  <2>3. Before(S, u, s1)
    BY <1>1, <1>6, <2>2, AppendOrdered
  <2>4. QED
    BY <2>1, <2>3
<1>7. ASSUME NEW v \in Seq(Nat), Before(S, s, v), Before(S, t, v)
      PROVE  Before(S, s1, v) /\ Before(S, t1, v)
  <2>1. Before(S, t1, v)
    BY <1>7, TailOrdered
  <2>2. Before(S, <<x>>, v)
    BY <1>1, <1>7, HeadOrdered
  <2>3. Before(S, s1, v)
    BY <1>1, <1>7, <2>2, AppendOrdered
  <2>4. QED
    BY <2>1, <2>3
<1>8. QED
  BY <1>2, <1>5, <1>6, <1>7

-----------------------------------------------------------------------------
(* The inductive invariant, of one connection *)

Running == {"off", "run", "done"}

\* What a connection consists of.
Connection == [
    handler   : {"idle", "open", "relay", "done"},
    copyUp    : Running,
    copyDown  : Running,
    udp       : {"off", "start", "run", "done"},
    udpIn     : Running,
    udpOut    : Running,
    incoming  : {"off", "header", "dial", "tcp", "udp", "done"},
    cCopyUp   : Running,
    cCopyDown : Running,
    srvClosed : BOOLEAN,
    cliClosed : BOOLEAN,
    user      : {"open", "eof", "gone"},
    target    : {"open", "closed"},
    sent      : Nat,
    replied   : Nat,
    datagrams : Nat,
    userQ     : Seq(Nat),
    up        : Seq(Nat),
    tgtIn     : Seq(Nat),
    down      : Seq(Nat),
    userIn    : Seq(Nat)]

\* The client's handler exists only after the server has opened the stream; it
\* copies to the target only after it has taken the header off the stream.
Phases(r) ==
    /\ r.handler \in {"idle", "open"} => r.incoming = "off"
    /\ r.cCopyUp = "run" => r.incoming \in {"tcp", "udp"}
    /\ r.incoming \in {"dial", "tcp", "udp"} => \A i \in DOMAIN r.up : r.up[i] # 0

\* Chunks are those that were sent; the header is nowhere but in front of the stream.
Bounds(r) ==
    /\ r.sent <= UpLen
    /\ \A i \in DOMAIN r.userQ : r.userQ[i] \in 1..r.sent
    /\ \A i \in DOMAIN r.up : r.up[i] \in (0..r.sent) \cup {Datagram} /\ (r.up[i] = 0 => i = 1)
    /\ \A i \in DOMAIN r.tgtIn : r.tgtIn[i] \in (1..r.sent) \cup {Datagram}
    /\ \A i \in DOMAIN r.down : r.down[i] \in 1..r.replied
    /\ \A i \in DOMAIN r.userIn : r.userIn[i] \in 1..r.replied

ChunkSet == 1..UpLen

\* The user's chunks are in order from the target back to the user's socket, ...
UpOrder(r) ==
    /\ Ordered(ChunkSet, r.tgtIn) /\ Ordered(ChunkSet, r.up) /\ Ordered(ChunkSet, r.userQ)
    /\ Before(ChunkSet, r.tgtIn, r.up) /\ Before(ChunkSet, r.up, r.userQ)
    /\ Before(ChunkSet, r.tgtIn, r.userQ)

\* ... and the target's from the user back to the stream.
DownOrder(r) ==
    /\ Ordered(Nat, r.userIn) /\ Ordered(Nat, r.down) /\ Before(Nat, r.userIn, r.down)

Good(r) == Phases(r) /\ Bounds(r) /\ UpOrder(r) /\ DownOrder(r)

\* Good looks at these fields only.
Upward(r) == <<r.sent, r.userQ, r.up, r.tgtIn>>
Downward(r) == <<r.replied, r.down, r.userIn>>

-----------------------------------------------------------------------------
(* The ways in which a step changes a connection *)

\* A step that moves no data: it must keep the phases.
LEMMA ControlStep ==
    ASSUME NEW r, NEW s, Good(r), Upward(s) = Upward(r), Downward(s) = Downward(r), Phases(s)
    PROVE  Good(s)
<1>1. s.sent = r.sent /\ s.userQ = r.userQ /\ s.up = r.up /\ s.tgtIn = r.tgtIn
  BY DEF Upward
<1>2. s.replied = r.replied /\ s.down = r.down /\ s.userIn = r.userIn
  BY DEF Downward
<1>3. QED
  BY <1>1, <1>2 DEF Good, Bounds, UpOrder, DownOrder

\* The order of the user's chunks does not depend on the other direction, ...
LEMMA UpKept ==
    ASSUME NEW r, NEW s, UpOrder(r), Upward(s) = Upward(r)
    PROVE  UpOrder(s)
<1>1. s.sent = r.sent /\ s.userQ = r.userQ /\ s.up = r.up /\ s.tgtIn = r.tgtIn
  BY DEF Upward
<1>2. QED
  BY <1>1 DEF UpOrder

\* ... nor that of the target's.
LEMMA DownKept ==
    ASSUME NEW r, NEW s, DownOrder(r), Downward(s) = Downward(r)
    PROVE  DownOrder(s)
<1>1. s.replied = r.replied /\ s.down = r.down /\ s.userIn = r.userIn
  BY DEF Downward
<1>2. QED
  BY <1>1 DEF DownOrder

\* The user sends its next chunk.
LEMMA UserSendsStep ==
    ASSUME NEW r \in Connection, Good(r), r.sent < UpLen,
           NEW s \in Connection,
           s = [r EXCEPT !.sent = @ + 1, !.userQ = Append(@, r.sent + 1)]
    PROVE  Good(s)
<1>1. s.sent = r.sent + 1 /\ s.userQ = Append(r.userQ, r.sent + 1) /\ r.sent \in Nat
  BY DEF Connection
<1>2. s.up = r.up /\ s.tgtIn = r.tgtIn /\ Downward(s) = Downward(r)
      /\ s.down = r.down /\ s.userIn = r.userIn /\ s.replied = r.replied
      /\ s.handler = r.handler /\ s.incoming = r.incoming /\ s.cCopyUp = r.cCopyUp
  BY DEF Connection, Downward
<1>3. r.userQ \in Seq(Nat) /\ r.up \in Seq(Nat) /\ r.tgtIn \in Seq(Nat)
  BY DEF Connection
<1>4. Phases(s)
  BY <1>2 DEF Good, Phases
<1>5. UpLen \in Nat
  BY RelayAssumption
<1>6. \A i \in DOMAIN s.userQ :
         (i \in DOMAIN r.userQ /\ s.userQ[i] = r.userQ[i]) \/ s.userQ[i] = r.sent + 1
  BY <1>1, <1>3, AppendOrdered
<1>7. Bounds(s)
  BY <1>1, <1>2, <1>5, <1>6 DEF Good, Bounds, Datagram
<1>8. UpOrder(s)
  <2> DEFINE x == r.sent + 1
  <2>1. ASSUME NEW t, \A i \in DOMAIN t : t[i] \in (0..r.sent) \cup {Datagram}
        PROVE  Before(ChunkSet, t, <<x>>)
    BY <1>1, <1>5, <2>1 DEF Before, ChunkSet, Datagram
  <2>2. Before(ChunkSet, r.userQ, <<x>>) /\ Before(ChunkSet, r.up, <<x>>)
        /\ Before(ChunkSet, r.tgtIn, <<x>>)
    <3>1. \A i \in DOMAIN r.userQ : r.userQ[i] \in (0..r.sent) \cup {Datagram}
      BY <1>1 DEF Good, Bounds
    <3>2. \A i \in DOMAIN r.up : r.up[i] \in (0..r.sent) \cup {Datagram}
      BY DEF Good, Bounds
    <3>3. \A i \in DOMAIN r.tgtIn : r.tgtIn[i] \in (0..r.sent) \cup {Datagram}
      BY <1>1 DEF Good, Bounds
    <3> HIDE DEF x
    <3>4. QED
      BY <2>1, <3>1, <3>2, <3>3
  <2>3. x \in Nat
    BY <1>1
  <2> HIDE DEF x
  <2>4. s.userQ = Append(r.userQ, x)
    BY <1>1 DEF x
  <2>5. QED
    BY <1>2, <1>3, <2>2, <2>3, <2>4, AppendOrdered DEF Good, UpOrder
<1>9. QED
  BY <1>2, <1>4, <1>7, <1>8, DownKept DEF Good

\* A chunk moves from the user's socket to the stream.
LEMMA CopyUpStep ==
    ASSUME NEW r \in Connection, Good(r), r.userQ # <<>>,
           NEW s \in Connection, Downward(s) = Downward(r),
           s.sent = r.sent, s.tgtIn = r.tgtIn,
           s.userQ = Tail(r.userQ), s.up = Append(r.up, Head(r.userQ)),
           s.handler = r.handler, s.incoming = r.incoming, s.cCopyUp = r.cCopyUp
    PROVE  Good(s)
<1>1. r.userQ \in Seq(Nat) /\ r.up \in Seq(Nat) /\ r.tgtIn \in Seq(Nat) /\ r.sent \in Nat
  BY DEF Connection
<1> DEFINE x == Head(r.userQ)
<1>2. x \in 1..r.sent
  BY <1>1, HeadOrdered DEF Good, Bounds
<1>3. \A i \in DOMAIN s.up :
         (i \in DOMAIN r.up /\ s.up[i] = r.up[i]) \/ (i = Len(r.up) + 1 /\ s.up[i] = x)
  <2>1. x \in Nat
    BY <1>1, <1>2
  <2> HIDE DEF x
  <2>2. s.up = Append(r.up, x)
    BY DEF x
  <2>3. QED
    BY <1>1, <2>1, <2>2, AppendOrdered
<1>4. \A i \in DOMAIN s.userQ : i + 1 \in DOMAIN r.userQ /\ s.userQ[i] = r.userQ[i + 1]
  BY <1>1, TailOrdered
<1> HIDE DEF x
<1>5. Phases(s)
  <2>1. \A i \in DOMAIN s.up : s.up[i] = 0 => i \in DOMAIN r.up /\ r.up[i] = 0
    BY <1>1, <1>2, <1>3
  <2>2. QED
    BY <2>1 DEF Good, Phases
<1>6. Bounds(s)
  <2>1. s.replied = r.replied /\ s.down = r.down /\ s.userIn = r.userIn
    BY DEF Downward
  <2>2. \A i \in DOMAIN s.userQ : s.userQ[i] \in 1..s.sent
    BY <1>4 DEF Good, Bounds
  <2>3. \A i \in DOMAIN s.up : s.up[i] \in (0..s.sent) \cup {Datagram} /\ (s.up[i] = 0 => i = 1)
    BY <1>1, <1>2, <1>3 DEF Good, Bounds
  <2>4. QED
    BY <2>1, <2>2, <2>3 DEF Good, Bounds
<1>7. UpOrder(s)
  <2>1. /\ Ordered(ChunkSet, r.up) /\ Ordered(ChunkSet, r.userQ) /\ Before(ChunkSet, r.up, r.userQ)
        /\ Before(ChunkSet, r.tgtIn, r.up) /\ Before(ChunkSet, r.tgtIn, r.userQ)
        /\ Ordered(ChunkSet, r.tgtIn)
    BY DEF Good, UpOrder
  <2>2. /\ Ordered(ChunkSet, s.up) /\ Ordered(ChunkSet, s.userQ) /\ Before(ChunkSet, s.up, s.userQ)
        /\ Before(ChunkSet, r.tgtIn, s.up) /\ Before(ChunkSet, r.tgtIn, s.userQ)
    BY <1>1, <2>1, MoveOrdered
  <2>3. QED
    BY <2>1, <2>2 DEF UpOrder
<1>8. QED
  BY <1>5, <1>6, <1>7, DownKept DEF Good

\* A chunk of the user is lost: the stream cannot be written.
LEMMA CopyUpLostStep ==
    ASSUME NEW r \in Connection, Good(r), r.userQ # <<>>,
           NEW s \in Connection, Downward(s) = Downward(r),
           s.sent = r.sent, s.tgtIn = r.tgtIn, s.up = r.up, s.userQ = Tail(r.userQ),
           s.handler = r.handler, s.incoming = r.incoming, s.cCopyUp = r.cCopyUp
    PROVE  Good(s)
<1>1. r.userQ \in Seq(Nat) /\ r.up \in Seq(Nat) /\ r.tgtIn \in Seq(Nat)
  BY DEF Connection
<1>2. \A i \in DOMAIN s.userQ : i + 1 \in DOMAIN r.userQ /\ s.userQ[i] = r.userQ[i + 1]
  BY <1>1, TailOrdered
<1>3. Phases(s)
  BY DEF Good, Phases
<1>4. Bounds(s)
  <2>1. s.replied = r.replied /\ s.down = r.down /\ s.userIn = r.userIn
    BY DEF Downward
  <2>2. QED
    BY <1>2, <2>1 DEF Good, Bounds
<1>5. UpOrder(s)
  <2>1. UpOrder(r)
    BY DEF Good
  <2>2. Ordered(ChunkSet, s.userQ)
    BY <1>1, <2>1, TailOrdered DEF UpOrder
  <2>3. Before(ChunkSet, s.up, s.userQ)
    BY <1>1, <2>1, TailOrdered DEF UpOrder
  <2>4. Before(ChunkSet, s.tgtIn, s.userQ)
    BY <1>1, <2>1, TailOrdered DEF UpOrder
  <2>5. QED
    BY <2>1, <2>2, <2>3, <2>4 DEF UpOrder
<1>6. QED
  BY <1>3, <1>4, <1>5, DownKept DEF Good

\* A datagram that reached the UDP proxy goes onto the stream, between the chunks.
LEMMA UdpReceiveStep ==
    ASSUME NEW r \in Connection, Good(r),
           NEW s \in Connection, Downward(s) = Downward(r),
           s.sent = r.sent, s.tgtIn = r.tgtIn, s.userQ = r.userQ, s.up = Append(r.up, Datagram),
           s.handler = r.handler, s.incoming = r.incoming, s.cCopyUp = r.cCopyUp
    PROVE  Good(s)
<1>1. r.userQ \in Seq(Nat) /\ r.up \in Seq(Nat) /\ r.tgtIn \in Seq(Nat)
  BY DEF Connection
<1>2. Datagram \in Nat /\ Datagram # 0 /\ Datagram \notin ChunkSet
  BY RelayAssumption DEF Datagram, ChunkSet
<1>3. \A i \in DOMAIN s.up :
         (i \in DOMAIN r.up /\ s.up[i] = r.up[i]) \/ (i = Len(r.up) + 1 /\ s.up[i] = Datagram)
  BY <1>1, <1>2, AppendOrdered
<1>4. Phases(s)
  BY <1>2, <1>3 DEF Good, Phases
<1>5. Bounds(s)
  <2>1. s.replied = r.replied /\ s.down = r.down /\ s.userIn = r.userIn
    BY DEF Downward
  <2>2. \A i \in DOMAIN s.up : s.up[i] \in (0..s.sent) \cup {Datagram} /\ (s.up[i] = 0 => i = 1)
    BY <1>2, <1>3 DEF Good, Bounds
  <2>3. QED
    BY <2>1, <2>2 DEF Good, Bounds
<1>6. UpOrder(s)
  <2>1. \A t : Before(ChunkSet, t, <<Datagram>>) /\ Before(ChunkSet, <<Datagram>>, t)
    BY <1>2 DEF Before
  <2>2. QED
    BY <1>1, <1>2, <2>1, AppendOrdered DEF Good, UpOrder
<1>7. QED
  BY <1>4, <1>5, <1>6, DownKept DEF Good

\* The server has opened the stream: the header is all that is on it.
LEMMA OpenStreamStep ==
    ASSUME NEW r \in Connection, Good(r), r.handler = "open",
           NEW s \in Connection, Downward(s) = Downward(r),
           s.sent = r.sent, s.tgtIn = r.tgtIn, s.userQ = r.userQ, s.up = << 0 >>,
           s.handler = "relay", s.incoming = "header", s.cCopyUp = r.cCopyUp
    PROVE  Good(s)
<1>1. r.tgtIn \in Seq(Nat) /\ r.sent \in Nat
  BY DEF Connection
<1>2. DOMAIN s.up = {1} /\ s.up[1] = 0 /\ 0 \notin ChunkSet
  BY RelayAssumption DEF ChunkSet
<1>3. Phases(s)
  BY DEF Good, Phases
<1>4. Bounds(s)
  <2>1. s.replied = r.replied /\ s.down = r.down /\ s.userIn = r.userIn
    BY DEF Downward
  <2>2. \A i \in DOMAIN s.up : s.up[i] \in (0..s.sent) \cup {Datagram} /\ (s.up[i] = 0 => i = 1)
    BY <1>1, <1>2
  <2>3. QED
    BY <2>1, <2>2 DEF Good, Bounds
<1>5. UpOrder(s)
  <2>1. Ordered(ChunkSet, s.up)
    BY <1>2 DEF Ordered
  <2>2. \A t : Before(ChunkSet, t, s.up) /\ Before(ChunkSet, s.up, t)
    BY <1>2 DEF Before
  <2>3. QED
    BY <2>1, <2>2 DEF Good, UpOrder
<1>6. QED
  BY <1>3, <1>4, <1>5, DownKept DEF Good

\* The client takes the header off the stream, and what its Read returned with it.
LEMMA ReadHeaderStep ==
    ASSUME NEW r \in Connection, Good(r), NEW n \in 1..Len(r.up),
           NEW s \in Connection, Downward(s) = Downward(r),
           s.sent = r.sent, s.tgtIn = r.tgtIn, s.userQ = r.userQ,
           s.up = SubSeq(r.up, n + 1, Len(r.up)),
           r.incoming = "header", s.incoming = "dial",
           s.handler = r.handler, s.cCopyUp = r.cCopyUp
    PROVE  Good(s)
<1>1. r.userQ \in Seq(Nat) /\ r.up \in Seq(Nat) /\ r.tgtIn \in Seq(Nat)
  BY DEF Connection
<1>2. \A i \in DOMAIN s.up : i + n \in DOMAIN r.up /\ s.up[i] = r.up[i + n] /\ s.up[i] # 0
  <2>1. DOMAIN s.up = 1..(Len(r.up) - n) /\ Len(r.up) \in Nat /\ DOMAIN r.up = 1..Len(r.up)
        /\ \A i \in DOMAIN s.up : s.up[i] = r.up[i + n]
    <3>1. /\ DOMAIN SubSeq(r.up, n + 1, Len(r.up)) = 1..(Len(r.up) - n)
          /\ \A i \in 1..(Len(r.up) - n) : SubSeq(r.up, n + 1, Len(r.up))[i] = r.up[i + n]
      BY ONLY <1>1, SuffixElements, n \in 1..Len(r.up)
    <3>2. Len(r.up) \in Nat /\ DOMAIN r.up = 1..Len(r.up)
      BY ONLY <1>1
    <3>3. QED
      BY ONLY <3>1, <3>2, s.up = SubSeq(r.up, n + 1, Len(r.up))
  <2>2. \A i \in DOMAIN s.up : i + n # 1 /\ i + n \in DOMAIN r.up
    BY ONLY <2>1, n \in 1..Len(r.up)
  <2>3. \A i \in DOMAIN r.up : r.up[i] = 0 => i = 1
    BY DEF Good, Bounds
  <2>4. QED
    BY <2>1, <2>2, <2>3
<1>3. Phases(s)
  BY <1>2 DEF Good, Phases
<1>4. Bounds(s)
  <2>1. s.replied = r.replied /\ s.down = r.down /\ s.userIn = r.userIn
    BY DEF Downward
  <2>2. QED
    BY <1>2, <2>1 DEF Good, Bounds
<1>5. UpOrder(s)
  <2>1. UpOrder(r)
    BY DEF Good
  <2>2. Ordered(ChunkSet, s.up)
    BY <1>1, <2>1, SuffixOrdered DEF UpOrder
  <2>3. Before(ChunkSet, s.up, s.userQ)
    BY <1>1, <2>1, SuffixOrdered DEF UpOrder
  <2>4. Before(ChunkSet, s.tgtIn, s.up)
    BY <1>1, <2>1, SuffixOrdered DEF UpOrder
  <2>5. QED
    BY <2>1, <2>2, <2>3, <2>4 DEF UpOrder
<1>6. QED
  BY <1>3, <1>4, <1>5, DownKept DEF Good

\* A chunk moves from the stream to the target.
LEMMA ClientCopyUpStep ==
    ASSUME NEW r \in Connection, Good(r), r.up # <<>>, r.cCopyUp = "run",
           NEW s \in Connection, Downward(s) = Downward(r),
           s.sent = r.sent, s.userQ = r.userQ,
           s.up = Tail(r.up), s.tgtIn = Append(r.tgtIn, Head(r.up)),
           s.handler = r.handler, s.incoming = r.incoming, s.cCopyUp = r.cCopyUp
    PROVE  Good(s)
<1>1. r.userQ \in Seq(Nat) /\ r.up \in Seq(Nat) /\ r.tgtIn \in Seq(Nat) /\ r.sent \in Nat
  BY DEF Connection
<1>2. \A i \in DOMAIN r.up : r.up[i] # 0
  BY DEF Good, Phases
<1>3. \A i \in DOMAIN s.up : i + 1 \in DOMAIN r.up /\ s.up[i] = r.up[i + 1]
  BY <1>1, TailOrdered
<1>4. PICK x \in Nat : x = Head(r.up) /\ x \in (1..r.sent) \cup {Datagram}
  <2>1. Head(r.up) \in Nat /\ 1 \in DOMAIN r.up /\ Head(r.up) = r.up[1]
    BY <1>1, HeadOrdered
  <2>2. QED
    BY <1>1, <1>2, <2>1 DEF Good, Bounds
<1>5. \A i \in DOMAIN s.tgtIn :
         (i \in DOMAIN r.tgtIn /\ s.tgtIn[i] = r.tgtIn[i]) \/ s.tgtIn[i] = x
  BY <1>1, <1>4, AppendOrdered
<1>6. Phases(s)
  BY <1>2, <1>3 DEF Good, Phases
<1>7. Bounds(s)
  <2>1. s.replied = r.replied /\ s.down = r.down /\ s.userIn = r.userIn
    BY DEF Downward
  <2>2. \A i \in DOMAIN s.up : s.up[i] \in (0..s.sent) \cup {Datagram} /\ (s.up[i] = 0 => i = 1)
    BY <1>2, <1>3 DEF Good, Bounds
  <2>3. \A i \in DOMAIN s.tgtIn : s.tgtIn[i] \in (1..s.sent) \cup {Datagram}
    BY <1>4, <1>5 DEF Good, Bounds
  <2>4. QED
    BY <2>1, <2>2, <2>3 DEF Good, Bounds
<1>8. UpOrder(s)
  <2>1. /\ Ordered(ChunkSet, r.tgtIn) /\ Ordered(ChunkSet, r.up) /\ Before(ChunkSet, r.tgtIn, r.up)
        /\ Before(ChunkSet, r.tgtIn, r.userQ) /\ Before(ChunkSet, r.up, r.userQ)
        /\ Ordered(ChunkSet, r.userQ)
    BY DEF Good, UpOrder
  <2>2. /\ Ordered(ChunkSet, s.tgtIn) /\ Ordered(ChunkSet, s.up) /\ Before(ChunkSet, s.tgtIn, s.up)
        /\ Before(ChunkSet, s.tgtIn, r.userQ) /\ Before(ChunkSet, s.up, r.userQ)
    BY <1>1, <2>1, MoveOrdered
  <2>3. QED
    BY <2>1, <2>2 DEF UpOrder
<1>9. QED
  BY <1>6, <1>7, <1>8, DownKept DEF Good

\* A chunk on the stream is lost: the target has closed.
LEMMA ClientCopyUpLostStep ==
    ASSUME NEW r \in Connection, Good(r), r.up # <<>>, r.cCopyUp = "run",
           NEW s \in Connection, Downward(s) = Downward(r),
           s.sent = r.sent, s.userQ = r.userQ, s.up = Tail(r.up), s.tgtIn = r.tgtIn,
           s.handler = r.handler, s.incoming = r.incoming
    PROVE  Good(s)
<1>1. r.userQ \in Seq(Nat) /\ r.up \in Seq(Nat) /\ r.tgtIn \in Seq(Nat)
  BY DEF Connection
<1>2. \A i \in DOMAIN r.up : r.up[i] # 0
  BY DEF Good, Phases
<1>3. \A i \in DOMAIN s.up : i + 1 \in DOMAIN r.up /\ s.up[i] = r.up[i + 1]
  BY <1>1, TailOrdered
<1>4. Phases(s)
  BY <1>2, <1>3 DEF Good, Phases
<1>5. Bounds(s)
  <2>1. s.replied = r.replied /\ s.down = r.down /\ s.userIn = r.userIn
    BY DEF Downward
  <2>2. \A i \in DOMAIN s.up : s.up[i] \in (0..s.sent) \cup {Datagram} /\ (s.up[i] = 0 => i = 1)
    BY <1>2, <1>3 DEF Good, Bounds
  <2>3. QED
    BY <2>1, <2>2 DEF Good, Bounds
<1>6. UpOrder(s)
  <2>1. UpOrder(r)
    BY DEF Good
  <2>2. Ordered(ChunkSet, s.up)
    BY <1>1, <2>1, TailOrdered DEF UpOrder
  <2>3. Before(ChunkSet, s.up, s.userQ)
    BY <1>1, <2>1, TailOrdered DEF UpOrder
  <2>4. Before(ChunkSet, s.tgtIn, s.up)
    BY <1>1, <2>1, TailOrdered DEF UpOrder
  <2>5. QED
    BY <2>1, <2>2, <2>3, <2>4 DEF UpOrder
<1>7. QED
  BY <1>4, <1>5, <1>6, DownKept DEF Good

\* A chunk of the target moves from the stream to the user, ...
LEMMA CopyDownStep ==
    ASSUME NEW r \in Connection, Good(r), r.down # <<>>,
           NEW s \in Connection, Upward(s) = Upward(r),
           s.replied = r.replied, s.down = Tail(r.down), s.userIn = Append(r.userIn, Head(r.down)),
           s.handler = r.handler, s.incoming = r.incoming, s.cCopyUp = r.cCopyUp
    PROVE  Good(s)
<1>1. r.down \in Seq(Nat) /\ r.userIn \in Seq(Nat)
  BY DEF Connection
<1>2. s.sent = r.sent /\ s.userQ = r.userQ /\ s.up = r.up /\ s.tgtIn = r.tgtIn
  BY DEF Upward
<1>3. \A i \in DOMAIN s.down : i + 1 \in DOMAIN r.down /\ s.down[i] = r.down[i + 1]
  BY <1>1, TailOrdered
<1>4. PICK x \in Nat : x = Head(r.down) /\ x \in 1..r.replied
  <2>1. Head(r.down) \in Nat /\ 1 \in DOMAIN r.down /\ Head(r.down) = r.down[1]
    BY <1>1, HeadOrdered
  <2>2. QED
    BY <2>1 DEF Good, Bounds
<1>5. \A i \in DOMAIN s.userIn :
         (i \in DOMAIN r.userIn /\ s.userIn[i] = r.userIn[i]) \/ s.userIn[i] = x
  BY <1>1, <1>4, AppendOrdered
<1>6. Phases(s)
  BY <1>2 DEF Good, Phases
<1>7. Bounds(s)
  BY <1>2, <1>3, <1>4, <1>5 DEF Good, Bounds
<1>8. DownOrder(s)
  <2>1. Ordered(Nat, r.userIn) /\ Ordered(Nat, r.down) /\ Before(Nat, r.userIn, r.down)
    BY DEF Good, DownOrder
  <2>2. QED
    BY <1>1, <2>1, MoveOrdered DEF DownOrder
<1>9. QED
  BY <1>6, <1>7, <1>8, UpKept DEF Good

\* ... or is taken off it by another reader, or cannot be written to the user.
LEMMA CopyDownLostStep ==
    ASSUME NEW r \in Connection, Good(r), r.down # <<>>,
           NEW s \in Connection, Upward(s) = Upward(r),
           s.replied = r.replied, s.down = Tail(r.down), s.userIn = r.userIn,
           s.handler = r.handler, s.incoming = r.incoming, s.cCopyUp = r.cCopyUp
    PROVE  Good(s)
<1>1. r.down \in Seq(Nat) /\ r.userIn \in Seq(Nat)
  BY DEF Connection
<1>2. s.sent = r.sent /\ s.userQ = r.userQ /\ s.up = r.up /\ s.tgtIn = r.tgtIn
  BY DEF Upward
<1>3. \A i \in DOMAIN s.down : i + 1 \in DOMAIN r.down /\ s.down[i] = r.down[i + 1]
  BY <1>1, TailOrdered
<1>4. Phases(s)
  BY <1>2 DEF Good, Phases
<1>5. Bounds(s)
  BY <1>2, <1>3 DEF Good, Bounds
<1>6. DownOrder(s)
  <2>1. Ordered(Nat, r.userIn) /\ Ordered(Nat, r.down) /\ Before(Nat, r.userIn, r.down)
    BY DEF Good, DownOrder
  <2>2. Ordered(Nat, s.down) /\ Before(Nat, s.userIn, s.down)
    BY <1>1, <2>1, TailOrdered
  <2>3. QED
    BY <2>1, <2>2 DEF DownOrder
<1>7. QED
  BY <1>4, <1>5, <1>6, UpKept DEF Good

\* The target's next chunk goes onto the stream, or cannot be written to it.
LEMMA ReplyStep ==
    ASSUME NEW r \in Connection, Good(r),
           NEW s \in Connection, Upward(s) = Upward(r),
           s.replied = r.replied + 1, s.userIn = r.userIn,
           s.down \in {r.down, Append(r.down, r.replied + 1)},
           s.handler = r.handler, s.incoming = r.incoming, s.cCopyUp = r.cCopyUp
    PROVE  Good(s)
<1>1. r.down \in Seq(Nat) /\ r.userIn \in Seq(Nat) /\ r.replied \in Nat
  BY DEF Connection
<1>2. s.sent = r.sent /\ s.userQ = r.userQ /\ s.up = r.up /\ s.tgtIn = r.tgtIn
  BY DEF Upward
<1>3. PICK x \in Nat : x = r.replied + 1
  BY <1>1
<1>4. \A i \in DOMAIN s.down : (i \in DOMAIN r.down /\ s.down[i] = r.down[i]) \/ s.down[i] = x
  <2>1. CASE s.down = r.down
    BY <2>1
  <2>2. CASE s.down = Append(r.down, x)
    BY <1>1, <2>2, AppendOrdered
  <2>3. QED
    BY <1>3, <2>1, <2>2
<1>5. Phases(s)
  BY <1>2 DEF Good, Phases
<1>6. Bounds(s)
  <2>1. \A i \in DOMAIN s.down : s.down[i] \in 1..s.replied
    <3>1. \A i \in DOMAIN r.down : r.down[i] \in 1..r.replied
      BY DEF Good, Bounds
    <3>2. \A y \in (1..r.replied) \cup {x} : y \in 1..s.replied
      BY ONLY <1>1, <1>3, s.replied = r.replied + 1
    <3>3. QED
      BY <1>4, <3>1, <3>2
  <2>2. \A i \in DOMAIN s.userIn : s.userIn[i] \in 1..s.replied
    BY <1>1 DEF Good, Bounds
  <2>3. QED
    BY <1>2, <2>1, <2>2 DEF Good, Bounds
<1>7. DownOrder(s)
  <2>1. Ordered(Nat, r.userIn) /\ Ordered(Nat, r.down) /\ Before(Nat, r.userIn, r.down)
    BY DEF Good, DownOrder
  <2>2. ASSUME NEW t, \A i \in DOMAIN t : t[i] \in 1..r.replied
        PROVE  Before(Nat, t, <<x>>)
    BY <1>1, <1>3, <2>2 DEF Before
  <2>3. Before(Nat, r.down, <<x>>) /\ Before(Nat, r.userIn, <<x>>)
    BY <2>2 DEF Good, Bounds
  <2>4. CASE s.down = Append(r.down, x)
    <3>1. Ordered(Nat, s.down) /\ Before(Nat, s.userIn, s.down)
      BY <1>1, <2>1, <2>3, <2>4, AppendOrdered
    <3>2. QED
      BY <2>1, <3>1 DEF DownOrder
  <2>5. QED
    BY <1>3, <2>1, <2>4 DEF DownOrder
<1>8. QED
  BY <1>5, <1>6, <1>7, UpKept DEF Good

-----------------------------------------------------------------------------
(* The invariant of the relay *)

TypeOK ==
    /\ conn \in [Conns -> Connection]
    /\ activeStreams \in Int /\ cActive \in Int

IInv ==
    /\ TypeOK
    /\ \A c \in Conns : Good(conn[c])
    /\ StreamsCounted

\* The handlers that the gauges count.
Handled(r) == r.handler \in {"open", "relay"}
Served(r) == r.incoming \notin {"off", "done"}
Handling == {c \in Conns : Handled(conn[c])}
Serving == {c \in Conns : Served(conn[c])}

\* The sets of counted handlers are finite, and counted by the gauges.
LEMMA Gauges ==
    /\ StreamsCounted <=> activeStreams = Cardinality(Handling) /\ cActive = Cardinality(Serving)
    /\ IsFiniteSet(Handling) /\ IsFiniteSet(Serving)
<1>1. Handling \subseteq Conns /\ Serving \subseteq Conns /\ IsFiniteSet(Conns)
  BY RelayAssumption DEF Handling, Serving
<1>2. IsFiniteSet(Handling) /\ IsFiniteSet(Serving)
  BY <1>1, FS_Subset
<1>3. QED
  BY <1>2 DEF StreamsCounted, Handling, Serving, Handled, Served

\* A step that changes connection c only: what has to be shown about it.
LEMMA OneConnection ==
    ASSUME IInv, NEW c \in Conns, NEW s \in Connection, Good(s),
           conn' = [conn EXCEPT ![c] = s]
    PROVE  /\ conn' \in [Conns -> Connection]
           /\ \A k \in Conns : Good(conn'[k])
           /\ Handling' = IF Handled(s) THEN Handling \cup {c} ELSE Handling \ {c}
           /\ Serving' = IF Served(s) THEN Serving \cup {c} ELSE Serving \ {c}
<1>1. conn \in [Conns -> Connection]
  BY DEF IInv, TypeOK
<1>2. conn'[c] = s /\ \A k \in Conns \ {c} : conn'[k] = conn[k]
  BY <1>1
<1>3. conn' \in [Conns -> Connection]
  BY <1>1
<1>4. \A k \in Conns : Good(conn'[k])
  BY <1>2 DEF IInv
<1>5. Handling' = IF Handled(s) THEN Handling \cup {c} ELSE Handling \ {c}
  <2>1. Handling' = {k \in Conns : Handled(conn'[k])}
    BY DEF Handling, Handled
  <2>2. QED
    BY <1>2, <2>1 DEF Handling
<1>6. Serving' = IF Served(s) THEN Serving \cup {c} ELSE Serving \ {c}
  <2>1. Serving' = {k \in Conns : Served(conn'[k])}
    BY DEF Serving, Served
  <2>2. QED
    BY <1>2, <2>1 DEF Serving
<1>7. QED
  BY <1>3, <1>4, <1>5, <1>6

\* A step at which no handler enters or leaves.
LEMMA NeutralStep ==
    ASSUME IInv, NEW c \in Conns, NEW s \in Connection, Good(s),
           conn' = [conn EXCEPT ![c] = s], UNCHANGED counters,
           Handled(s) <=> Handled(conn[c]), Served(s) <=> Served(conn[c])
    PROVE  IInv'
<1>1. Handling' = Handling /\ Serving' = Serving
  BY OneConnection DEF Handling, Serving
<1>2. activeStreams' = activeStreams /\ cActive' = cActive
  BY DEF counters
<1>3. StreamsCounted'
  BY <1>1, <1>2, Gauges DEF IInv, StreamsCounted, Handling, Serving, Handled, Served
<1>4. QED
  BY <1>2, <1>3, OneConnection DEF IInv, TypeOK

\* Such a step that moves no data.
LEMMA QuietStep ==
    ASSUME IInv, NEW c \in Conns, NEW s \in Connection,
           conn' = [conn EXCEPT ![c] = s], UNCHANGED counters,
           Upward(s) = Upward(conn[c]), Downward(s) = Downward(conn[c]), Phases(s),
           Handled(s) <=> Handled(conn[c]), Served(s) <=> Served(conn[c])
    PROVE  IInv'
<1>1. Good(conn[c])
  BY DEF IInv
<1>2. Good(s)
  BY <1>1, ControlStep
<1>3. QED
  BY <1>2, NeutralStep

\* A step at which a handler of the server enters or leaves.
LEMMA HandlerStep ==
    ASSUME IInv, NEW c \in Conns, NEW s \in Connection,
           conn' = [conn EXCEPT ![c] = s], UNCHANGED cActive,
           Upward(s) = Upward(conn[c]), Downward(s) = Downward(conn[c]), Phases(s),
           Handled(s) <=> ~Handled(conn[c]), Served(s) <=> Served(conn[c]),
           activeStreams' = IF Handled(s) THEN activeStreams + 1 ELSE activeStreams - 1
    PROVE  IInv'
<1>1. Good(s)
  BY ControlStep DEF IInv
<1>2. Serving' = Serving
  BY <1>1, OneConnection DEF Serving
<1>3. Handling' = (IF Handled(s) THEN Handling \cup {c} ELSE Handling \ {c})
      /\ (c \in Handling <=> ~Handled(s))
  BY <1>1, OneConnection DEF Handling
<1>4. Cardinality(Handling)' = IF Handled(s) THEN Cardinality(Handling) + 1
                                             ELSE Cardinality(Handling) - 1
  BY <1>3, Gauges, FS_AddElement, FS_RemoveElement
<1>5. activeStreams \in Int /\ cActive \in Int
  BY DEF IInv, TypeOK
<1>6. activeStreams = Cardinality(Handling) /\ cActive = Cardinality(Serving)
  BY Gauges DEF IInv
<1>7. StreamsCounted'
  BY <1>2, <1>4, <1>6 DEF StreamsCounted, Handling, Serving, Handled, Served
<1>8. QED
  BY <1>1, <1>5, <1>7, OneConnection DEF IInv, TypeOK

\* A step at which a handler of the client leaves.
LEMMA ClientHandlerLeaves ==
    ASSUME IInv, NEW c \in Conns, NEW s \in Connection,
           conn' = [conn EXCEPT ![c] = s], UNCHANGED activeStreams,
           Upward(s) = Upward(conn[c]), Downward(s) = Downward(conn[c]), Phases(s),
           Handled(s) <=> Handled(conn[c]), ~Served(s), Served(conn[c]),
           cActive' = cActive - 1
    PROVE  IInv'
<1>1. Good(s)
  BY ControlStep DEF IInv
<1>2. Handling' = Handling
  BY <1>1, OneConnection DEF Handling
<1>3. Serving' = Serving \ {c} /\ c \in Serving
  BY <1>1, OneConnection DEF Serving
<1>4. Cardinality(Serving)' = Cardinality(Serving) - 1
  BY <1>3, Gauges, FS_RemoveElement
<1>5. activeStreams \in Int /\ cActive \in Int
  BY DEF IInv, TypeOK
<1>6. activeStreams = Cardinality(Handling) /\ cActive = Cardinality(Serving)
  BY Gauges DEF IInv
<1>7. StreamsCounted'
  BY <1>2, <1>4, <1>6 DEF StreamsCounted, Handling, Serving, Handled, Served
<1>8. QED
  BY <1>1, <1>5, <1>7, OneConnection DEF IInv, TypeOK

-----------------------------------------------------------------------------
(* The steps *)

\* The states of a goroutine that is a loop.
LEMMA RunningValues == "off" \in Running /\ "run" \in Running /\ "done" \in Running
BY DEF Running

\* A datagram is a number too, one that no chunk has.
LEMMA DatagramNat == Datagram \in Nat
BY RelayAssumption DEF Datagram

\* The server's handler.
LEMMA ProxyConnectionKeeps ==
    ASSUME IInv, NEW c \in Conns, ProxyConnection(c)
    PROVE  IInv'
<1> DEFINE r == conn[c]
<1>1. conn \in [Conns -> Connection] /\ r \in Connection /\ Phases(r) /\ Good(r)
  BY DEF IInv, TypeOK, Good
<1>2. CASE TurnAway(c)
  <2> DEFINE s == [r EXCEPT !.handler = "done", !.user = "gone"]
  <2>1. conn' = [conn EXCEPT ![c] = s] /\ UNCHANGED counters /\ r.handler = "idle"
    BY <1>1, <1>2 DEF TurnAway
  <2>2. s \in Connection /\ Upward(s) = Upward(r) /\ Downward(s) = Downward(r) /\ Phases(s)
        /\ (Handled(s) <=> Handled(r)) /\ (Served(s) <=> Served(r))
    BY <1>1, <2>1 DEF Connection, Upward, Downward, Phases, Handled, Served
  <2> HIDE DEF s
  <2>3. QED
    BY <2>1, <2>2, QuietStep
<1>3. CASE Enter(c)
  <2> DEFINE s == [r EXCEPT !.handler = "open"]
  <2>1. conn' = [conn EXCEPT ![c] = s] /\ UNCHANGED cActive /\ r.handler = "idle"
        /\ activeStreams' = activeStreams + 1
    BY <1>1, <1>3 DEF Enter
  <2>2. s \in Connection /\ Upward(s) = Upward(r) /\ Downward(s) = Downward(r) /\ Phases(s)
        /\ Handled(s) /\ ~Handled(r) /\ (Served(s) <=> Served(r))
    BY <1>1, <2>1 DEF Connection, Upward, Downward, Phases, Handled, Served
  <2> HIDE DEF s
  <2>3. QED
    BY <2>1, <2>2, HandlerStep
<1>4. CASE OpenFails(c)
  <2> DEFINE s == [r EXCEPT !.handler = "done", !.user = "gone"]
  <2>1. conn' = [conn EXCEPT ![c] = s] /\ UNCHANGED cActive /\ r.handler = "open"
        /\ activeStreams' = activeStreams - 1
    BY <1>1, <1>4 DEF OpenFails
  <2>2. s \in Connection /\ Upward(s) = Upward(r) /\ Downward(s) = Downward(r) /\ Phases(s)
        /\ ~Handled(s) /\ Handled(r) /\ (Served(s) <=> Served(r))
    BY <1>1, <2>1 DEF Connection, Upward, Downward, Phases, Handled, Served
  <2> HIDE DEF s
  <2>3. QED
    BY <2>1, <2>2, HandlerStep
<1>5. CASE Leave(c)
  <2> DEFINE s == [r EXCEPT !.handler = "done", !.srvClosed = TRUE, !.user = "gone"]
  <2>1. conn' = [conn EXCEPT ![c] = s] /\ UNCHANGED cActive /\ r.handler = "relay"
        /\ activeStreams' = activeStreams - 1
    BY <1>1, <1>5 DEF Leave
  <2>2. s \in Connection /\ Upward(s) = Upward(r) /\ Downward(s) = Downward(r) /\ Phases(s)
        /\ ~Handled(s) /\ Handled(r) /\ (Served(s) <=> Served(r))
    BY <1>1, <2>1 DEF Connection, Upward, Downward, Phases, Handled, Served
  <2> HIDE DEF s
  <2>3. QED
    BY <2>1, <2>2, HandlerStep
<1>6. CASE OpenStream(c)
  <2> DEFINE s == [r EXCEPT !.handler = "relay", !.up = <<0>>, !.copyUp = "run",
                            !.copyDown = "run", !.udp = "start", !.incoming = "header"]
  <2>1. conn' = [conn EXCEPT ![c] = s] /\ UNCHANGED activeStreams /\ r.handler = "open"
        /\ cActive' = cActive + 1
    BY <1>1, <1>6 DEF OpenStream
  <2>2. s \in Connection
    <3> DEFINE q == [r EXCEPT !.handler = "relay", !.up = <<0>>, !.copyUp = "run"]
    <3>1. q \in Connection
      <4>1. PICK h \in Seq(Nat) : h = <<0>>
        <5>1. <<0>> \in Seq(Nat)
          OBVIOUS
        <5>2. QED
          BY <5>1, Zenon
      <4>2. q = [r EXCEPT !.handler = "relay", !.up = h, !.copyUp = "run"]
        BY <4>1
      <4> HIDE DEF q
      <4>3. QED
        BY <1>1, <4>2 DEF Connection, Running
    <3>2. s = [q EXCEPT !.copyDown = "run", !.udp = "start", !.incoming = "header"]
      OBVIOUS
    <3> HIDE DEF q, s
    <3>3. QED
      BY <3>1, <3>2 DEF Connection, Running
  <2>3. /\ Downward(s) = Downward(r) /\ s.sent = r.sent /\ s.tgtIn = r.tgtIn
        /\ s.userQ = r.userQ /\ s.up = <<0>>
        /\ s.handler = "relay" /\ s.incoming = "header" /\ s.cCopyUp = r.cCopyUp
    BY <1>1 DEF Connection, Downward
  <2> HIDE DEF s
  <2>4. Good(s)
    BY <1>1, <2>1, <2>2, <2>3, OpenStreamStep
  <2>5. Handled(s) /\ Handled(r) /\ Served(s) /\ ~Served(r)
    BY <1>1, <2>1, <2>3 DEF Handled, Served, Phases
  <2>6. Handling' = Handling /\ Serving' = Serving \cup {c} /\ c \notin Serving
    BY <2>1, <2>2, <2>4, <2>5, OneConnection DEF Handling, Serving
  <2>7. Cardinality(Serving)' = Cardinality(Serving) + 1
    BY <2>6, Gauges, FS_AddElement
  <2>8. activeStreams = Cardinality(Handling) /\ cActive = Cardinality(Serving)
        /\ activeStreams \in Int /\ cActive \in Int
    BY Gauges DEF IInv, TypeOK
  <2>9. StreamsCounted'
    BY <2>1, <2>6, <2>7, <2>8 DEF StreamsCounted, Handling, Serving, Handled, Served
  <2>10. QED
    BY <2>1, <2>2, <2>4, <2>8, <2>9, OneConnection DEF IInv, TypeOK
<1>7. QED
  BY <1>2, <1>3, <1>4, <1>5, <1>6 DEF ProxyConnection

\* The server's copy from the user to the stream.
LEMMA UpCopierKeeps ==
    ASSUME IInv, NEW c \in Conns, UpCopier(c)
    PROVE  IInv'
<1> DEFINE r == conn[c]
<1>1. conn \in [Conns -> Connection] /\ r \in Connection /\ Phases(r) /\ Good(r)
  BY DEF IInv, TypeOK, Good
<1>2. CASE CopyUp(c) /\ SrvCanWrite(c)
  <2> DEFINE s == [r EXCEPT !.userQ = Tail(@), !.up = Append(@, Head(r.userQ))]
  <2>1. conn' = [conn EXCEPT ![c] = s] /\ UNCHANGED counters /\ r.userQ # <<>>
    BY <1>1, <1>2 DEF CopyUp
  <2>2. s \in Connection
    <3>1. r.userQ \in Seq(Nat) /\ r.up \in Seq(Nat)
      BY <1>1 DEF Connection
    <3>2. Tail(r.userQ) \in Seq(Nat) /\ Append(r.up, Head(r.userQ)) \in Seq(Nat)
      BY <2>1, <3>1
    <3>3. QED
      BY <1>1, <3>2, RunningValues DEF Connection
  <2>3. Downward(s) = Downward(r) /\ s.sent = r.sent /\ s.tgtIn = r.tgtIn /\ s.cCopyUp = r.cCopyUp
        /\ s.userQ = Tail(r.userQ) /\ s.up = Append(r.up, Head(r.userQ))
        /\ s.handler = r.handler /\ s.incoming = r.incoming
    BY <1>1 DEF Connection, Upward, Downward
  <2> HIDE DEF s
  <2>4. Good(s)
    BY <1>1, <2>1, <2>2, <2>3, CopyUpStep
  <2>5. QED
    BY <2>1, <2>2, <2>3, <2>4, NeutralStep DEF Handled, Served
<1>3. CASE CopyUp(c) /\ ~SrvCanWrite(c)
  <2> DEFINE s == [r EXCEPT !.userQ = Tail(@), !.copyUp = "done"]
  <2>1. conn' = [conn EXCEPT ![c] = s] /\ UNCHANGED counters /\ r.userQ # <<>>
    BY <1>1, <1>3 DEF CopyUp
  <2>2. s \in Connection
    <3>1. r.userQ \in Seq(Nat)
      BY <1>1 DEF Connection
    <3>2. Tail(r.userQ) \in Seq(Nat)
      BY <2>1, <3>1
    <3>3. QED
      BY <1>1, <3>2, RunningValues DEF Connection
  <2>3. Downward(s) = Downward(r) /\ s.sent = r.sent /\ s.tgtIn = r.tgtIn /\ s.cCopyUp = r.cCopyUp
        /\ s.userQ = Tail(r.userQ) /\ s.up = r.up
        /\ s.handler = r.handler /\ s.incoming = r.incoming
    BY <1>1 DEF Connection, Upward, Downward
  <2> HIDE DEF s
  <2>4. Good(s)
    BY <1>1, <2>1, <2>2, <2>3, CopyUpLostStep
  <2>5. QED
    BY <2>1, <2>2, <2>3, <2>4, NeutralStep DEF Handled, Served
<1>4. CASE CopyUpEnds(c)
  <2> DEFINE s == [r EXCEPT !.copyUp = "done"]
  <2>1. conn' = [conn EXCEPT ![c] = s] /\ UNCHANGED counters
    BY <1>1, <1>4 DEF CopyUpEnds
  <2>2. s \in Connection
    BY <1>1, RunningValues DEF Connection
  <2>3. Upward(s) = Upward(r) /\ Downward(s) = Downward(r) /\ Phases(s)
        /\ (Handled(s) <=> Handled(r)) /\ (Served(s) <=> Served(r))
    BY <1>1, <2>1 DEF Connection, Upward, Downward, Phases, Handled, Served
  <2> HIDE DEF s
  <2>4. QED
    BY <2>1, <2>2, <2>3, QuietStep
<1>5. QED
  BY <1>2, <1>3, <1>4 DEF UpCopier

\* The server's copy from the stream to the user.
LEMMA DownCopierKeeps ==
    ASSUME IInv, NEW c \in Conns, DownCopier(c)
    PROVE  IInv'
<1> DEFINE r == conn[c]
<1>1. conn \in [Conns -> Connection] /\ r \in Connection /\ Phases(r) /\ Good(r)
  BY DEF IInv, TypeOK, Good
<1>2. CASE CopyDown(c) /\ r.user # "gone"
  <2> DEFINE s == [r EXCEPT !.down = Tail(@), !.userIn = Append(@, Head(r.down))]
  <2>1. conn' = [conn EXCEPT ![c] = s] /\ UNCHANGED counters /\ r.down # <<>>
    BY <1>1, <1>2 DEF CopyDown
  <2>2. s \in Connection
    <3>1. r.down \in Seq(Nat) /\ r.userIn \in Seq(Nat)
      BY <1>1 DEF Connection
    <3>2. Tail(r.down) \in Seq(Nat) /\ Append(r.userIn, Head(r.down)) \in Seq(Nat)
      BY <2>1, <3>1
    <3>3. QED
      BY <1>1, <3>2, RunningValues DEF Connection
  <2>3. Upward(s) = Upward(r) /\ s.replied = r.replied /\ s.cCopyUp = r.cCopyUp
        /\ s.down = Tail(r.down) /\ s.userIn = Append(r.userIn, Head(r.down))
        /\ s.handler = r.handler /\ s.incoming = r.incoming
    BY <1>1 DEF Connection, Upward, Downward
  <2> HIDE DEF s
  <2>4. Good(s)
    BY <1>1, <2>1, <2>2, <2>3, CopyDownStep
  <2>5. QED
    BY <2>1, <2>2, <2>3, <2>4, NeutralStep DEF Handled, Served
<1>3. CASE CopyDown(c) /\ r.user = "gone"
  <2> DEFINE s == [r EXCEPT !.down = Tail(@), !.copyDown = "done"]
  <2>1. conn' = [conn EXCEPT ![c] = s] /\ UNCHANGED counters /\ r.down # <<>>
    BY <1>1, <1>3 DEF CopyDown
  <2>2. s \in Connection
    <3>1. r.down \in Seq(Nat)
      BY <1>1 DEF Connection
    <3>2. Tail(r.down) \in Seq(Nat)
      BY <2>1, <3>1
    <3>3. QED
      BY <1>1, <3>2, RunningValues DEF Connection
  <2>3. Upward(s) = Upward(r) /\ s.replied = r.replied /\ s.cCopyUp = r.cCopyUp
        /\ s.down = Tail(r.down) /\ s.userIn = r.userIn
        /\ s.handler = r.handler /\ s.incoming = r.incoming
    BY <1>1 DEF Connection, Upward, Downward
  <2> HIDE DEF s
  <2>4. Good(s)
    BY <1>1, <2>1, <2>2, <2>3, CopyDownLostStep
  <2>5. QED
    BY <2>1, <2>2, <2>3, <2>4, NeutralStep DEF Handled, Served
<1>4. CASE CopyDownEnds(c)
  <2> DEFINE s == [r EXCEPT !.copyDown = "done"]
  <2>1. conn' = [conn EXCEPT ![c] = s] /\ UNCHANGED counters
    BY <1>1, <1>4 DEF CopyDownEnds
  <2>2. s \in Connection
    BY <1>1, RunningValues DEF Connection
  <2>3. Upward(s) = Upward(r) /\ Downward(s) = Downward(r) /\ Phases(s)
        /\ (Handled(s) <=> Handled(r)) /\ (Served(s) <=> Served(r))
    BY <1>1, <2>1 DEF Connection, Upward, Downward, Phases, Handled, Served
  <2> HIDE DEF s
  <2>4. QED
    BY <2>1, <2>2, <2>3, QuietStep
<1>5. QED
  BY <1>2, <1>3, <1>4 DEF DownCopier

\* The UDP proxy starts and ends.
LEMMA UdpProxyKeeps ==
    ASSUME IInv, NEW c \in Conns, UdpProxy(c)
    PROVE  IInv'
<1> DEFINE r == conn[c]
<1>1. conn \in [Conns -> Connection] /\ r \in Connection /\ Phases(r) /\ Good(r)
  BY DEF IInv, TypeOK, Good
<1>2. CASE UdpBusy(c)
  <2> DEFINE s == [r EXCEPT !.udp = "done", !.srvClosed = TRUE]
  <2>1. conn' = [conn EXCEPT ![c] = s] /\ UNCHANGED counters
    BY <1>1, <1>2 DEF UdpBusy
  <2>2. s \in Connection
    BY <1>1, RunningValues DEF Connection
  <2>3. Upward(s) = Upward(r) /\ Downward(s) = Downward(r) /\ Phases(s)
        /\ (Handled(s) <=> Handled(r)) /\ (Served(s) <=> Served(r))
    BY <1>1, <2>1 DEF Connection, Upward, Downward, Phases, Handled, Served
  <2> HIDE DEF s
  <2>4. QED
    BY <2>1, <2>2, <2>3, QuietStep
<1>3. CASE UdpBind(c)
  <2> DEFINE s == [r EXCEPT !.udp = "run", !.udpIn = "run", !.udpOut = "run"]
  <2>1. conn' = [conn EXCEPT ![c] = s] /\ UNCHANGED counters
    BY <1>1, <1>3 DEF UdpBind
  <2>2. s \in Connection
    BY <1>1, RunningValues DEF Connection
  <2>3. Upward(s) = Upward(r) /\ Downward(s) = Downward(r) /\ Phases(s)
        /\ (Handled(s) <=> Handled(r)) /\ (Served(s) <=> Served(r))
    BY <1>1, <2>1 DEF Connection, Upward, Downward, Phases, Handled, Served
  <2> HIDE DEF s
  <2>4. QED
    BY <2>1, <2>2, <2>3, QuietStep
<1>4. CASE UdpLeave(c)
  <2> DEFINE s == [r EXCEPT !.udp = "done", !.srvClosed = TRUE]
  <2>1. conn' = [conn EXCEPT ![c] = s] /\ UNCHANGED counters
    BY <1>1, <1>4 DEF UdpLeave
  <2>2. s \in Connection
    BY <1>1, RunningValues DEF Connection
  <2>3. Upward(s) = Upward(r) /\ Downward(s) = Downward(r) /\ Phases(s)
        /\ (Handled(s) <=> Handled(r)) /\ (Served(s) <=> Served(r))
    BY <1>1, <2>1 DEF Connection, Upward, Downward, Phases, Handled, Served
  <2> HIDE DEF s
  <2>4. QED
    BY <2>1, <2>2, <2>3, QuietStep
<1>5. QED
  BY <1>2, <1>3, <1>4 DEF UdpProxy

\* The UDP proxy's loop that reads the stream.
LEMMA UdpReaderKeeps ==
    ASSUME IInv, NEW c \in Conns, UdpReader(c)
    PROVE  IInv'
<1> DEFINE r == conn[c]
<1>1. conn \in [Conns -> Connection] /\ r \in Connection /\ Phases(r) /\ Good(r)
  BY DEF IInv, TypeOK, Good
<1>2. CASE UdpReadStream(c)
  <2> DEFINE s == [r EXCEPT !.down = Tail(@)]
  <2>1. conn' = [conn EXCEPT ![c] = s] /\ UNCHANGED counters /\ r.down # <<>>
    BY <1>1, <1>2 DEF UdpReadStream
  <2>2. s \in Connection
    <3>1. r.down \in Seq(Nat)
      BY <1>1 DEF Connection
    <3>2. Tail(r.down) \in Seq(Nat)
      BY <2>1, <3>1
    <3>3. QED
      BY <1>1, <3>2, RunningValues DEF Connection
  <2>3. Upward(s) = Upward(r) /\ s.replied = r.replied /\ s.cCopyUp = r.cCopyUp
        /\ s.down = Tail(r.down) /\ s.userIn = r.userIn
        /\ s.handler = r.handler /\ s.incoming = r.incoming
    BY <1>1 DEF Connection, Upward, Downward
  <2> HIDE DEF s
  <2>4. Good(s)
    BY <1>1, <2>1, <2>2, <2>3, CopyDownLostStep
  <2>5. QED
    BY <2>1, <2>2, <2>3, <2>4, NeutralStep DEF Handled, Served
<1>3. CASE UdpInEnds(c)
  <2> DEFINE s == [r EXCEPT !.udpIn = "done"]
  <2>1. conn' = [conn EXCEPT ![c] = s] /\ UNCHANGED counters
    BY <1>1, <1>3 DEF UdpInEnds
  <2>2. s \in Connection
    BY <1>1, RunningValues DEF Connection
  <2>3. Upward(s) = Upward(r) /\ Downward(s) = Downward(r) /\ Phases(s)
        /\ (Handled(s) <=> Handled(r)) /\ (Served(s) <=> Served(r))
    BY <1>1, <2>1 DEF Connection, Upward, Downward, Phases, Handled, Served
  <2> HIDE DEF s
  <2>4. QED
    BY <2>1, <2>2, <2>3, QuietStep
<1>4. QED
  BY <1>2, <1>3 DEF UdpReader

\* The UDP proxy's loop that writes the stream.
LEMMA UdpWriterKeeps ==
    ASSUME IInv, NEW c \in Conns, UdpWriter(c)
    PROVE  IInv'
<1> DEFINE r == conn[c]
<1>1. conn \in [Conns -> Connection] /\ r \in Connection /\ Phases(r) /\ Good(r)
  BY DEF IInv, TypeOK, Good
<1>2. CASE UdpReceive(c) /\ SrvCanWrite(c)
  <2> DEFINE s == [r EXCEPT !.datagrams = @ + 1, !.up = Append(@, Datagram)]
  <2>1. conn' = [conn EXCEPT ![c] = s] /\ UNCHANGED counters /\ Datagram \in Nat
    BY <1>1, <1>2, DatagramNat DEF UdpReceive
  <2>2. s \in Connection
    <3>1. r.up \in Seq(Nat) /\ r.datagrams \in Nat
      BY <1>1 DEF Connection
    <3>2. Append(r.up, Datagram) \in Seq(Nat) /\ r.datagrams + 1 \in Nat
      BY <2>1, <3>1
    <3>3. QED
      BY <1>1, <3>2, RunningValues DEF Connection
  <2>3. Downward(s) = Downward(r) /\ s.sent = r.sent /\ s.tgtIn = r.tgtIn /\ s.cCopyUp = r.cCopyUp
        /\ s.userQ = r.userQ /\ s.up = Append(r.up, Datagram)
        /\ s.handler = r.handler /\ s.incoming = r.incoming
    BY <1>1 DEF Connection, Upward, Downward
  <2> HIDE DEF s
  <2>4. Good(s)
    BY <1>1, <2>1, <2>2, <2>3, UdpReceiveStep
  <2>5. QED
    BY <2>1, <2>2, <2>3, <2>4, NeutralStep DEF Handled, Served
<1>3. CASE UdpReceive(c) /\ ~SrvCanWrite(c)
  <2> DEFINE s == [r EXCEPT !.datagrams = @ + 1, !.udpOut = "done"]
  <2>1. conn' = [conn EXCEPT ![c] = s] /\ UNCHANGED counters
    BY <1>1, <1>3 DEF UdpReceive
  <2>2. s \in Connection
    <3>1. r.datagrams \in Nat
      BY <1>1 DEF Connection
    <3>2. r.datagrams + 1 \in Nat
      BY <2>1, <3>1
    <3>3. QED
      BY <1>1, <3>2, RunningValues DEF Connection
  <2>3. Upward(s) = Upward(r) /\ Downward(s) = Downward(r) /\ Phases(s)
        /\ (Handled(s) <=> Handled(r)) /\ (Served(s) <=> Served(r))
    BY <1>1, <2>1 DEF Connection, Upward, Downward, Phases, Handled, Served
  <2> HIDE DEF s
  <2>4. QED
    BY <2>1, <2>2, <2>3, QuietStep
<1>4. CASE UdpOutEnds(c)
  <2> DEFINE s == [r EXCEPT !.udpOut = "done"]
  <2>1. conn' = [conn EXCEPT ![c] = s] /\ UNCHANGED counters
    BY <1>1, <1>4 DEF UdpOutEnds
  <2>2. s \in Connection
    BY <1>1, RunningValues DEF Connection
  <2>3. Upward(s) = Upward(r) /\ Downward(s) = Downward(r) /\ Phases(s)
        /\ (Handled(s) <=> Handled(r)) /\ (Served(s) <=> Served(r))
    BY <1>1, <2>1 DEF Connection, Upward, Downward, Phases, Handled, Served
  <2> HIDE DEF s
  <2>4. QED
    BY <2>1, <2>2, <2>3, QuietStep
<1>5. QED
  BY <1>2, <1>3, <1>4 DEF UdpWriter

\* The client's handler.
LEMMA IncomingStreamKeeps ==
    ASSUME IInv, NEW c \in Conns, IncomingStream(c)
    PROVE  IInv'
<1> DEFINE r == conn[c]
<1>1. conn \in [Conns -> Connection] /\ r \in Connection /\ Phases(r) /\ Good(r)
  BY DEF IInv, TypeOK, Good
<1>2. CASE ReadHeader(c)
  <2> DEFINE n == IF Len(r.up) <= 1 + HeaderRoom THEN Len(r.up) ELSE 1 + HeaderRoom
             s == [r EXCEPT !.incoming = "dial", !.up = SubSeq(@, n + 1, Len(@))]
  <2>1. conn' = [conn EXCEPT ![c] = s] /\ UNCHANGED counters /\ r.incoming = "header"
        /\ r.up # <<>>
    BY <1>1, <1>2 DEF ReadHeader
  <2>2. r.up \in Seq(Nat) /\ n \in 1..Len(r.up)
    <3>1. r.up \in Seq(Nat)
      BY <1>1 DEF Connection
    <3>2. Len(r.up) \in Nat /\ Len(r.up) # 0 /\ HeaderRoom \in Nat
      BY <2>1, <3>1, RelayAssumption
    <3>3. QED
      BY <3>1, <3>2
  <2> HIDE DEF n
  <2>3. SubSeq(r.up, n + 1, Len(r.up)) \in Seq(Nat)
    BY <2>2, SuffixElements
  <2>4. s \in Connection
    BY <1>1, <2>3 DEF Connection
  <2>5. Downward(s) = Downward(r) /\ s.sent = r.sent /\ s.tgtIn = r.tgtIn
        /\ s.userQ = r.userQ /\ s.up = SubSeq(r.up, n + 1, Len(r.up))
        /\ s.handler = r.handler /\ s.cCopyUp = r.cCopyUp /\ s.incoming = "dial"
    BY <1>1 DEF Connection, Downward
  <2> HIDE DEF s
  <2>6. Good(s)
    BY <1>1, <2>1, <2>2, <2>4, <2>5, ReadHeaderStep
  <2>7. QED
    BY <2>1, <2>4, <2>5, <2>6, NeutralStep DEF Handled, Served
<1>3. CASE HeaderTimeout(c)
  <2> DEFINE s == [r EXCEPT !.incoming = "done", !.cliClosed = TRUE]
  <2>1. conn' = [conn EXCEPT ![c] = s] /\ UNCHANGED activeStreams /\ cActive' = cActive - 1
        /\ r.incoming = "header"
    BY <1>1, <1>3 DEF HeaderTimeout
  <2>2. s \in Connection /\ Upward(s) = Upward(r) /\ Downward(s) = Downward(r) /\ Phases(s)
        /\ (Handled(s) <=> Handled(r)) /\ ~Served(s) /\ Served(r)
    BY <1>1, <2>1 DEF Connection, Upward, Downward, Phases, Handled, Served
  <2> HIDE DEF s
  <2>3. QED
    BY <2>1, <2>2, ClientHandlerLeaves
<1>4. CASE DialTarget(c)
  <2>1. PICK way \in {"tcp", "udp"} :
           conn' = [conn EXCEPT ![c].incoming = way, ![c].cCopyUp = "run", ![c].cCopyDown = "run"]
    BY <1>4 DEF DialTarget
  <2> DEFINE s == [r EXCEPT !.incoming = way, !.cCopyUp = "run", !.cCopyDown = "run"]
  <2>2. conn' = [conn EXCEPT ![c] = s] /\ UNCHANGED counters /\ r.incoming = "dial"
    BY <1>1, <1>4, <2>1 DEF DialTarget
  <2>3. s \in Connection /\ Upward(s) = Upward(r) /\ Downward(s) = Downward(r) /\ Phases(s)
        /\ (Handled(s) <=> Handled(r)) /\ (Served(s) <=> Served(r))
    BY <1>1, <2>2 DEF Connection, Running, Upward, Downward, Phases, Handled, Served
  <2> HIDE DEF s
  <2>4. QED
    BY <2>2, <2>3, QuietStep
<1>5. CASE DialFails(c)
  <2> DEFINE s == [r EXCEPT !.incoming = "done", !.cliClosed = TRUE]
  <2>1. conn' = [conn EXCEPT ![c] = s] /\ UNCHANGED activeStreams /\ cActive' = cActive - 1
        /\ r.incoming = "dial"
    BY <1>1, <1>5 DEF DialFails
  <2>2. s \in Connection /\ Upward(s) = Upward(r) /\ Downward(s) = Downward(r) /\ Phases(s)
        /\ (Handled(s) <=> Handled(r)) /\ ~Served(s) /\ Served(r)
    BY <1>1, <2>1 DEF Connection, Upward, Downward, Phases, Handled, Served
  <2> HIDE DEF s
  <2>3. QED
    BY <2>1, <2>2, ClientHandlerLeaves
<1>6. CASE ClientLeave(c)
  <2> DEFINE s == [r EXCEPT !.incoming = "done", !.cliClosed = TRUE, !.target = "closed"]
  <2>1. conn' = [conn EXCEPT ![c] = s] /\ UNCHANGED activeStreams /\ cActive' = cActive - 1
        /\ r.incoming \in {"tcp", "udp"} /\ r.cCopyUp = "done"
    BY <1>1, <1>6 DEF ClientLeave
  <2>2. s \in Connection /\ Upward(s) = Upward(r) /\ Downward(s) = Downward(r) /\ Phases(s)
        /\ (Handled(s) <=> Handled(r)) /\ ~Served(s) /\ Served(r)
    BY <1>1, <2>1 DEF Connection, Upward, Downward, Phases, Handled, Served
  <2> HIDE DEF s
  <2>3. QED
    BY <2>1, <2>2, ClientHandlerLeaves
<1>7. QED
  BY <1>2, <1>3, <1>4, <1>5, <1>6 DEF IncomingStream

\* The client's copy from the stream to the target.
LEMMA ClientUpKeeps ==
    ASSUME IInv, NEW c \in Conns, ClientUp(c)
    PROVE  IInv'
<1> DEFINE r == conn[c]
<1>1. conn \in [Conns -> Connection] /\ r \in Connection /\ Phases(r) /\ Good(r)
  BY DEF IInv, TypeOK, Good
<1>2. CASE ClientCopyUp(c) /\ r.target = "open"
  <2> DEFINE s == [r EXCEPT !.up = Tail(@), !.tgtIn = Append(@, Head(r.up))]
  <2>1. conn' = [conn EXCEPT ![c] = s] /\ UNCHANGED counters /\ r.up # <<>> /\ r.cCopyUp = "run"
    BY <1>1, <1>2 DEF ClientCopyUp
  <2>2. s \in Connection
    <3>1. r.up \in Seq(Nat) /\ r.tgtIn \in Seq(Nat)
      BY <1>1 DEF Connection
    <3>2. Tail(r.up) \in Seq(Nat) /\ Append(r.tgtIn, Head(r.up)) \in Seq(Nat)
      BY <2>1, <3>1
    <3>3. QED
      BY <1>1, <3>2, RunningValues DEF Connection
  <2>3. Downward(s) = Downward(r) /\ s.sent = r.sent /\ s.userQ = r.userQ /\ s.cCopyUp = r.cCopyUp
        /\ s.up = Tail(r.up) /\ s.tgtIn = Append(r.tgtIn, Head(r.up))
        /\ s.handler = r.handler /\ s.incoming = r.incoming
    BY <1>1 DEF Connection, Upward, Downward
  <2> HIDE DEF s
  <2>4. Good(s)
    BY <1>1, <2>1, <2>2, <2>3, ClientCopyUpStep
  <2>5. QED
    BY <2>1, <2>2, <2>3, <2>4, NeutralStep DEF Handled, Served
<1>3. CASE ClientCopyUp(c) /\ r.target # "open"
  <2> DEFINE s == [r EXCEPT !.up = Tail(@), !.cCopyUp = IF r.incoming = "tcp" THEN "done" ELSE @]
  <2>1. conn' = [conn EXCEPT ![c] = s] /\ UNCHANGED counters /\ r.up # <<>> /\ r.cCopyUp = "run"
    BY <1>1, <1>3 DEF ClientCopyUp
  <2>2. s \in Connection
    <3>1. r.up \in Seq(Nat)
      BY <1>1 DEF Connection
    <3>2. Tail(r.up) \in Seq(Nat)
      BY <2>1, <3>1
    <3>3. QED
      BY <1>1, <3>2, RunningValues DEF Connection
  <2>3. Downward(s) = Downward(r) /\ s.sent = r.sent /\ s.userQ = r.userQ
        /\ s.up = Tail(r.up) /\ s.tgtIn = r.tgtIn
        /\ s.handler = r.handler /\ s.incoming = r.incoming
    BY <1>1 DEF Connection, Upward, Downward
  <2> HIDE DEF s
  <2>4. Good(s)
    BY <1>1, <2>1, <2>2, <2>3, ClientCopyUpLostStep
  <2>5. QED
    BY <2>1, <2>2, <2>3, <2>4, NeutralStep DEF Handled, Served
<1>4. CASE ClientCopyUpEnds(c)
  <2> DEFINE s == [r EXCEPT !.cCopyUp = "done"]
  <2>1. conn' = [conn EXCEPT ![c] = s] /\ UNCHANGED counters
    BY <1>1, <1>4 DEF ClientCopyUpEnds
  <2>2. s \in Connection
    BY <1>1, RunningValues DEF Connection
  <2>3. Upward(s) = Upward(r) /\ Downward(s) = Downward(r) /\ Phases(s)
        /\ (Handled(s) <=> Handled(r)) /\ (Served(s) <=> Served(r))
    BY <1>1, <2>1 DEF Connection, Upward, Downward, Phases, Handled, Served
  <2> HIDE DEF s
  <2>4. QED
    BY <2>1, <2>2, <2>3, QuietStep
<1>5. QED
  BY <1>2, <1>3, <1>4 DEF ClientUp

\* The client's copy from the target to the stream.
LEMMA ClientDownKeeps ==
    ASSUME IInv, NEW c \in Conns, ClientDown(c)
    PROVE  IInv'
<1> DEFINE r == conn[c]
<1>1. conn \in [Conns -> Connection] /\ r \in Connection /\ Phases(r) /\ Good(r)
  BY DEF IInv, TypeOK, Good
<1>2. CASE ClientCopyDown(c) /\ CliCanWrite(c)
  <2> DEFINE s == [r EXCEPT !.replied = @ + 1, !.down = Append(@, r.replied + 1)]
  <2>1. conn' = [conn EXCEPT ![c] = s] /\ UNCHANGED counters /\ r.cCopyDown = "run"
    BY <1>1, <1>2 DEF ClientCopyDown
  <2>2. s \in Connection
    <3>1. r.replied \in Nat /\ r.down \in Seq(Nat)
      BY <1>1 DEF Connection
    <3>2. r.replied + 1 \in Nat /\ Append(r.down, r.replied + 1) \in Seq(Nat)
      BY <2>1, <3>1
    <3>3. QED
      BY <1>1, <3>2, RunningValues DEF Connection
  <2>3. Upward(s) = Upward(r) /\ s.replied = r.replied + 1 /\ s.cCopyUp = r.cCopyUp
        /\ s.down = Append(r.down, r.replied + 1) /\ s.userIn = r.userIn
        /\ s.handler = r.handler /\ s.incoming = r.incoming
    BY <1>1 DEF Connection, Upward, Downward
  <2> HIDE DEF s
  <2>4. Good(s)
    BY <1>1, <2>1, <2>2, <2>3, ReplyStep
  <2>5. QED
    BY <2>1, <2>2, <2>3, <2>4, NeutralStep DEF Handled, Served
<1>3. CASE ClientCopyDown(c) /\ ~CliCanWrite(c)
  <2> DEFINE s == [r EXCEPT !.replied = @ + 1, !.cCopyDown = "done"]
  <2>1. conn' = [conn EXCEPT ![c] = s] /\ UNCHANGED counters /\ r.cCopyDown = "run"
    BY <1>1, <1>3 DEF ClientCopyDown
  <2>2. s \in Connection
    <3>1. r.replied \in Nat
      BY <1>1 DEF Connection
    <3>2. r.replied + 1 \in Nat
      BY <2>1, <3>1
    <3>3. QED
      BY <1>1, <3>2, RunningValues DEF Connection
  <2>3. Upward(s) = Upward(r) /\ s.replied = r.replied + 1 /\ s.cCopyUp = r.cCopyUp
        /\ s.down = r.down /\ s.userIn = r.userIn
        /\ s.handler = r.handler /\ s.incoming = r.incoming
    BY <1>1 DEF Connection, Upward, Downward
  <2> HIDE DEF s
  <2>4. Good(s)
    BY <1>1, <2>1, <2>2, <2>3, ReplyStep
  <2>5. QED
    BY <2>1, <2>2, <2>3, <2>4, NeutralStep DEF Handled, Served
<1>4. CASE ClientCopyDownEnds(c)
  <2> DEFINE s == [r EXCEPT !.cCopyDown = "done"]
  <2>1. conn' = [conn EXCEPT ![c] = s] /\ UNCHANGED counters
    BY <1>1, <1>4 DEF ClientCopyDownEnds
  <2>2. s \in Connection
    BY <1>1, RunningValues DEF Connection
  <2>3. Upward(s) = Upward(r) /\ Downward(s) = Downward(r) /\ Phases(s)
        /\ (Handled(s) <=> Handled(r)) /\ (Served(s) <=> Served(r))
    BY <1>1, <2>1 DEF Connection, Upward, Downward, Phases, Handled, Served
  <2> HIDE DEF s
  <2>4. QED
    BY <2>1, <2>2, <2>3, QuietStep
<1>5. QED
  BY <1>2, <1>3, <1>4 DEF ClientDown

\* The user and the target.
LEMMA PeersKeep ==
    ASSUME IInv, NEW c \in Conns, Peers(c)
    PROVE  IInv'
<1> DEFINE r == conn[c]
<1>1. conn \in [Conns -> Connection] /\ r \in Connection /\ Phases(r) /\ Good(r)
  BY DEF IInv, TypeOK, Good
<1>2. CASE UserSends(c)
  <2> DEFINE s == [r EXCEPT !.sent = @ + 1, !.userQ = Append(@, r.sent + 1)]
  <2>1. conn' = [conn EXCEPT ![c] = s] /\ UNCHANGED counters /\ r.sent < UpLen
    BY <1>1, <1>2 DEF UserSends
  <2>2. s \in Connection
    <3>1. r.sent \in Nat /\ r.userQ \in Seq(Nat)
      BY <1>1 DEF Connection
    <3>2. r.sent + 1 \in Nat /\ Append(r.userQ, r.sent + 1) \in Seq(Nat)
      BY <3>1
    <3>3. QED
      BY <1>1, <3>2 DEF Connection
  <2>3. s.handler = r.handler /\ s.incoming = r.incoming
    BY <1>1 DEF Connection
  <2>4. Good(s)
    BY <1>1, <2>1, <2>2, UserSendsStep
  <2> HIDE DEF s
  <2>5. QED
    BY <2>1, <2>2, <2>3, <2>4, NeutralStep DEF Handled, Served
<1>3. CASE UserCloses(c)
  <2>1. PICK u \in {"eof", "gone"} : conn' = [conn EXCEPT ![c].user = u]
    BY <1>3 DEF UserCloses
  <2> DEFINE s == [r EXCEPT !.user = u]
  <2>2. conn' = [conn EXCEPT ![c] = s] /\ UNCHANGED counters
    BY <1>1, <1>3, <2>1 DEF UserCloses
  <2>3. s \in Connection /\ Upward(s) = Upward(r) /\ Downward(s) = Downward(r) /\ Phases(s)
        /\ (Handled(s) <=> Handled(r)) /\ (Served(s) <=> Served(r))
    BY <1>1 DEF Connection, Upward, Downward, Phases, Handled, Served
  <2> HIDE DEF s
  <2>4. QED
    BY <2>2, <2>3, QuietStep
<1>4. CASE TargetCloses(c)
  <2> DEFINE s == [r EXCEPT !.target = "closed"]
  <2>1. conn' = [conn EXCEPT ![c] = s] /\ UNCHANGED counters
    BY <1>1, <1>4 DEF TargetCloses
  <2>2. s \in Connection
    BY <1>1, RunningValues DEF Connection
  <2>3. Upward(s) = Upward(r) /\ Downward(s) = Downward(r) /\ Phases(s)
        /\ (Handled(s) <=> Handled(r)) /\ (Served(s) <=> Served(r))
    BY <1>1, <2>1 DEF Connection, Upward, Downward, Phases, Handled, Served
  <2> HIDE DEF s
  <2>4. QED
    BY <2>1, <2>2, <2>3, QuietStep
<1>5. QED
  BY <1>2, <1>3, <1>4 DEF Peers

-----------------------------------------------------------------------------
(* The theorems *)

\* Nothing is on its way, and nobody handles a connection yet.
LEMMA InvInit == Init => IInv
<1> SUFFICES ASSUME Init PROVE IInv
  OBVIOUS
<1>1. \A c \in Conns : conn[c] = Idle
  BY DEF Init
<1>2. Idle \in Connection
  BY DEF Idle, Connection, Running
<1>3. TypeOK
  BY <1>2 DEF Init, TypeOK
<1>4. Good(Idle)
  <2>1. Idle.sent = 0 /\ Idle.userQ = <<>> /\ Idle.up = <<>> /\ Idle.tgtIn = <<>>
        /\ Idle.down = <<>> /\ Idle.userIn = <<>> /\ Idle.incoming = "off" /\ Idle.cCopyUp = "off"
    BY DEF Idle
  <2>2. UpLen \in Nat
    BY RelayAssumption
  <2>3. QED
    BY <2>1, <2>2 DEF Good, Phases, Bounds, UpOrder, DownOrder, Ordered, Before
<1>5. StreamsCounted
  <2>1. Handling = {} /\ Serving = {}
    BY <1>1 DEF Handling, Serving, Handled, Served, Idle
  <2>2. activeStreams = 0 /\ cActive = 0
    BY DEF Init
  <2>3. QED
    BY <2>1, <2>2, Gauges, FS_EmptySet
<1>6. QED
  BY <1>1, <1>3, <1>4, <1>5 DEF IInv

\* Every step keeps the invariant.
LEMMA InvNext == IInv /\ [Next]_vars => IInv'
<1> SUFFICES ASSUME IInv, [Next]_vars PROVE IInv'
  OBVIOUS
<1>1. CASE UNCHANGED <<conn, counters>>
  BY <1>1 DEF IInv, TypeOK, StreamsCounted, counters
<1>2. CASE \E c \in Conns :
          \/ ProxyConnection(c) \/ UpCopier(c) \/ DownCopier(c)
          \/ UdpProxy(c) \/ UdpReader(c) \/ UdpWriter(c)
          \/ IncomingStream(c) \/ ClientUp(c) \/ ClientDown(c)
          \/ Peers(c)
  BY <1>2, ProxyConnectionKeeps, UpCopierKeeps, DownCopierKeeps, UdpProxyKeeps, UdpReaderKeeps,
     UdpWriterKeeps, IncomingStreamKeeps, ClientUpKeeps, ClientDownKeeps, PeersKeep
<1>3. CASE SessionLost
  BY <1>1, <1>3 DEF SessionLost
<1>4. QED
  BY <1>1, <1>2, <1>3 DEF Next, vars, counters

\* The invariant of the relay holds.
THEOREM Invariance == Spec => []IInv
BY InvInit, InvNext, PTL DEF Spec

\* The gauges of both sides count exactly the handlers that have entered and not
\* left, on every path of failure and however the session is lost.
THEOREM GaugesExact == Spec => []StreamsCounted
<1>1. IInv => StreamsCounted
  BY DEF IInv
<1>2. QED
  BY <1>1, Invariance, PTL

\* Although two goroutines read the stream and two write it, no chunk is duplicated
\* or reordered in either direction, and the port header never reaches the target.
THEOREM NothingReordered == Spec => []OrderPreserved
<1>1. IInv => OrderPreserved
  <2> SUFFICES ASSUME IInv, NEW c \in Conns
               PROVE  /\ ChunksIncreasing(conn[c].tgtIn)
                      /\ \A i \in DOMAIN conn[c].tgtIn :
                            conn[c].tgtIn[i] \in (1..conn[c].sent) \cup {Datagram}
                      /\ Increasing(conn[c].userIn)
                      /\ \A i \in DOMAIN conn[c].userIn : conn[c].userIn[i] <= conn[c].replied
    BY DEF OrderPreserved
  <2> DEFINE r == conn[c]
  <2>1. Good(r) /\ r \in Connection
    BY DEF IInv, TypeOK
  <2>2. r.userIn \in Seq(Nat)
    BY <2>1 DEF Connection
  <2> HIDE DEF r
  <2>3. ChunksIncreasing(r.tgtIn)
    BY <2>1 DEF Good, UpOrder, Ordered, ChunkSet, ChunksIncreasing, IsChunk
  <2>4. Increasing(r.userIn)
    <3>1. \A i \in DOMAIN r.userIn : r.userIn[i] \in Nat
      BY <2>2
    <3>2. QED
      BY <2>1, <3>1 DEF Good, DownOrder, Ordered, Increasing
  <2>5. \A i \in DOMAIN r.userIn : r.userIn[i] <= r.replied
    BY <2>1 DEF Good, Bounds
  <2>6. QED
    BY <2>1, <2>3, <2>4, <2>5 DEF Good, Bounds, r
<1>2. QED
  BY <1>1, Invariance, PTL
=============================================================================
