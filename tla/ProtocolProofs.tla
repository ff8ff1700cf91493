---------------------------- MODULE ProtocolProofs ----------------------------
(***************************************************************************)
(* Proofs about the byte streams of the packages that share no state:      *)
(* the padding handshake of pkg/obfuscate, the authentication of           *)
(* pkg/protocol and the UDP framing of pkg/tunnel.  In each, what is on    *)
(* its way continues what its reader has taken, at the place where the     *)
(* reader is.                                                              *)
(*                                                                         *)
(* A part that does not run stands still, so an invariant of one part is   *)
(* preserved by the steps of the others.                                   *)
(***************************************************************************)
EXTENDS Packages, TLAPS

-----------------------------------------------------------------------------
(* Streams: what is written goes behind, what is read or lost comes off *)

\* Two sequences, one behind the other.
LEMMA Behind ==
    ASSUME NEW S, NEW s \in Seq(S), NEW t \in Seq(S)
    PROVE  /\ s \o t \in Seq(S)
           /\ Len(s \o t) = Len(s) + Len(t)
           /\ \A i \in 1..(Len(s) + Len(t)) :
                 (s \o t)[i] = IF i <= Len(s) THEN s[i] ELSE t[i - Len(s)]
OBVIOUS

\* What is left when the first n elements are taken.
LEMMA Suffix ==
    ASSUME NEW S, NEW t \in Seq(S), NEW n \in 0..Len(t)
    PROVE  /\ SubSeq(t, n + 1, Len(t)) \in Seq(S)
           /\ Len(SubSeq(t, n + 1, Len(t))) = Len(t) - n
           /\ \A i \in 1..(Len(t) - n) : SubSeq(t, n + 1, Len(t))[i] = t[i + n]
OBVIOUS

\* What is left when all but the first n elements are lost.
LEMMA Prefix ==
    ASSUME NEW S, NEW t \in Seq(S), NEW n \in 0..Len(t)
    PROVE  /\ SubSeq(t, 1, n) \in Seq(S)
           /\ Len(SubSeq(t, 1, n)) = n
           /\ \A i \in 1..n : SubSeq(t, 1, n)[i] = t[i]
OBVIOUS

\* What is left when the first element is taken.
LEMMA Rest ==
    ASSUME NEW S, NEW t \in Seq(S), t # <<>>
    PROVE  /\ Len(t) \in Nat /\ Len(t) >= 1 /\ Head(t) = t[1]
           /\ Tail(t) \in Seq(S)
           /\ Len(Tail(t)) = Len(t) - 1
           /\ \A i \in 1..(Len(t) - 1) : Tail(t)[i] = t[i + 1]
OBVIOUS

\* Sequences are equal when their elements are.
LEMMA SameElements ==
    ASSUME NEW S, NEW s \in Seq(S), NEW t \in Seq(S), Len(s) = Len(t),
           \A i \in 1..Len(s) : s[i] = t[i]
    PROVE  s = t
OBVIOUS

-----------------------------------------------------------------------------
(* JunkHandshake: the padding of pkg/obfuscate *)

JunkPhases == {"write", "header", "discard", "done", "failed"}

JunkType ==
    /\ phase \in [Junk!Ends -> JunkPhases]
    /\ junkLen \in [Junk!Ends -> 0..Byte]
    /\ discard \in [Junk!Ends -> Nat]
    /\ junkIn \in [Junk!Ends -> Seq(Nat)]
    /\ got \in [Junk!Ends -> Seq(Nat)]
    /\ junkUp \in BOOLEAN

\* Byte i of the stream of an end that drew a padding of n bytes.
ByteAt(n, i) == IF i = 1 THEN n % Byte ELSE IF i <= n + 1 THEN Byte ELSE Byte + 1

\* s is what comes in that stream after its first t bytes.
Continues(n, t, s) == \A i \in 1..Len(s) : s[i] = ByteAt(n, t + i)

\* An end in phase ph has not read, or has read and discarded, the other's padding.
Unread(e, ph) == ph = "header" \/ (ph = "write" /\ e = "client")
Discarded(e, ph) == ph = "done" \/ (ph = "write" /\ e = "server")

\* How many bytes of the other's stream an end has taken.
TakenOff(e, ph, n, g) ==
    IF ph = "discard" THEN 1 ELSE IF Discarded(e, ph) THEN 1 + (n % Byte) + Len(g) ELSE 0

\* End e, in phase ph, with d bytes to discard, s in the network and g given to the
\* layer above, when the other end drew n and the connection is usable or not: s
\* continues what it took, and on a usable connection no byte of padding is missing.
EndOK(e, ph, n, d, s, g, u) ==
    /\ n = 0 => s = <<>> /\ (Unread(e, ph) \/ ph = "failed")
    /\ ph # "failed" => /\ Continues(n, TakenOff(e, ph, n, g), s)
                        /\ u /\ n # 0 => TakenOff(e, ph, n, g) + Len(s) > n
    /\ ph = "discard" => d = n % Byte
    /\ g # <<>> => ph = "done"
    /\ Continues(n, 1 + (n % Byte), g)

\* When WriteJunk has drawn its length.
Wrote(e, ph) == ph = "done" \/ (e = "client" /\ ph \in {"header", "discard"})

\* What the invariant says of an end.
Settled(e) ==
    /\ phase[e] # "failed" => (junkLen[e] # 0 <=> Wrote(e, phase[e]))
    /\ EndOK(e, phase[e], junkLen[Junk!Other(e)], discard[e], junkIn[e], got[e], junkUp)

JunkInv == JunkType /\ \A e \in Junk!Ends : Settled(e)

LEMMA ContinuesRest ==
    ASSUME NEW n \in Nat, NEW t \in Nat, NEW s \in Seq(Nat), s # <<>>, Continues(n, t, s)
    PROVE  /\ Head(s) = ByteAt(n, t + 1) /\ Len(Tail(s)) = Len(s) - 1
           /\ Tail(s) \in Seq(Nat) /\ Continues(n, t + 1, Tail(s))
<1>1. /\ Head(s) = s[1] /\ Tail(s) \in Seq(Nat) /\ Len(Tail(s)) = Len(s) - 1
      /\ \A i \in 1..(Len(s) - 1) : Tail(s)[i] = s[i + 1]
  BY ONLY Rest, s \in Seq(Nat), s # <<>>
<1>2. PICK l \in Nat : l = Len(s) /\ l >= 1
  BY ONLY Rest, s \in Seq(Nat), s # <<>>
<1>3. \A i \in 1..l : s[i] = ByteAt(n, t + i)
  BY <1>2 DEF Continues
<1>4. \A i \in 1..(l - 1) : i + 1 \in 1..l /\ t + (i + 1) = (t + 1) + i
  BY <1>2
<1>5. \A i \in 1..(l - 1) : Tail(s)[i] = ByteAt(n, (t + 1) + i)
  BY ONLY <1>1, <1>2, <1>3, <1>4
<1>6. QED
  BY <1>1, <1>2, <1>3, <1>5 DEF Continues

LEMMA ContinuesSuffix ==
    ASSUME NEW n \in Nat, NEW t \in Nat, NEW s \in Seq(Nat), NEW m \in 0..Len(s),
           Continues(n, t, s)
    PROVE  LET w == SubSeq(s, m + 1, Len(s))
           IN  w \in Seq(Nat) /\ Len(w) = Len(s) - m /\ Continues(n, t + m, w)
<1> DEFINE w == SubSeq(s, m + 1, Len(s))
<1>1. /\ w \in Seq(Nat) /\ Len(w) = Len(s) - m
      /\ \A i \in 1..(Len(s) - m) : w[i] = s[i + m]
  BY ONLY Suffix, s \in Seq(Nat), m \in 0..Len(s)
<1>2. PICK l \in Nat : l = Len(s)
  OBVIOUS
<1> HIDE DEF w
<1>3. \A i \in 1..l : s[i] = ByteAt(n, t + i)
  BY <1>2 DEF Continues
<1>4. \A i \in 1..(l - m) : i + m \in 1..l /\ t + (i + m) = (t + m) + i
  BY <1>2
<1>5. \A i \in 1..(l - m) : w[i] = ByteAt(n, (t + m) + i)
  BY ONLY <1>1, <1>2, <1>3, <1>4
<1>6. QED
  BY <1>1, <1>2, <1>5 DEF Continues, w

LEMMA ContinuesPrefix ==
    ASSUME NEW n \in Nat, NEW t \in Nat, NEW s \in Seq(Nat), NEW m \in 0..Len(s),
           Continues(n, t, s)
    PROVE  Continues(n, t, SubSeq(s, 1, m))
<1>1. Len(SubSeq(s, 1, m)) = m /\ \A i \in 1..m : SubSeq(s, 1, m)[i] = s[i]
  BY ONLY Prefix, s \in Seq(Nat), m \in 0..Len(s)
<1>2. \A i \in 1..m : i \in 1..Len(s)
  OBVIOUS
<1>3. QED
  BY <1>1, <1>2 DEF Continues

\* Behind the whole padding comes what the layer above writes.
LEMMA ContinuesAppend ==
    ASSUME NEW n \in Nat \ {0}, NEW t \in Nat, NEW s \in Seq(Nat), Continues(n, t, s),
           t + Len(s) > n
    PROVE  /\ Append(s, Byte + 1) \in Seq(Nat) /\ Len(Append(s, Byte + 1)) = Len(s) + 1
           /\ Continues(n, t, Append(s, Byte + 1))
<1> DEFINE w == Append(s, Byte + 1)
<1>1. PICK l \in Nat : l = Len(s)
  OBVIOUS
<1>2. /\ w \in Seq(Nat) /\ Len(w) = l + 1 /\ w[l + 1] = Byte + 1
      /\ \A i \in 1..l : w[i] = s[i]
  BY <1>1, ByteAssumption
<1> HIDE DEF w
<1>3. \A i \in 1..l : w[i] = ByteAt(n, t + i)
  BY <1>1, <1>2 DEF Continues
<1>4. ByteAt(n, t + (l + 1)) = Byte + 1
  BY <1>1 DEF ByteAt
<1>5. \A i \in 1..(l + 1) : i \in 1..l \/ i = l + 1
  BY <1>1
<1>6. \A i \in 1..(l + 1) : w[i] = ByteAt(n, t + i)
  BY ONLY <1>2, <1>3, <1>4, <1>5
<1>7. QED
  BY <1>1, <1>2, <1>6 DEF Continues, w

\* One Write of WriteJunk.
LEMMA ContinuesNew ==
    ASSUME NEW n \in Nat \ {0}
    PROVE  LET w == <<n % Byte>> \o [i \in 1..n |-> Byte]
           IN  w \in Seq(Nat) /\ Len(w) = n + 1 /\ Continues(n, 0, w)
<1> DEFINE h == <<n % Byte>>
           t == [i \in 1..n |-> Byte]
           w == h \o t
<1>1. Byte \in Nat \ {0} /\ n % Byte \in Nat
  BY ByteAssumption
<1>2. h \in Seq(Nat) /\ Len(h) = 1 /\ h[1] = n % Byte
  BY <1>1
<1>3. t \in Seq(Nat) /\ Len(t) = n /\ \A i \in 1..n : t[i] = Byte
  BY <1>1
<1> HIDE DEF h, t
<1>4. /\ w \in Seq(Nat) /\ Len(w) = 1 + n
      /\ \A i \in 1..(1 + n) : w[i] = IF i <= 1 THEN h[i] ELSE t[i - 1]
  <2>1. /\ w \in Seq(Nat) /\ Len(w) = Len(h) + Len(t)
        /\ \A i \in 1..(Len(h) + Len(t)) :
              w[i] = IF i <= Len(h) THEN h[i] ELSE t[i - Len(h)]
    BY ONLY Behind, <1>2, <1>3
  <2>2. QED
    BY ONLY <1>2, <1>3, <2>1
<1> HIDE DEF w
<1>5. ASSUME NEW i \in 1..(1 + n)
      PROVE  w[i] = ByteAt(n, 0 + i)
  <2>1. CASE i = 1
    BY <1>2, <1>4, <2>1 DEF ByteAt
  <2>2. CASE i # 1
    <3>1. i - 1 \in 1..n /\ ~(i <= 1) /\ i <= n + 1 /\ 0 + i = i
      BY <2>2
    <3>2. w[i] = Byte
      BY <1>3, <1>4, <3>1
    <3>3. QED
      BY <2>2, <3>1, <3>2 DEF ByteAt
  <2>3. QED
    BY <2>1, <2>2
<1>6. QED
  BY <1>1, <1>4, <1>5 DEF Continues, w, h, t

\* How much has been taken is a number.
LEMMA TakenNat ==
    ASSUME NEW e, NEW ph, NEW n \in Nat, NEW g \in Seq(Nat)
    PROVE  TakenOff(e, ph, n, g) \in Nat /\ n % Byte \in Nat
BY ByteAssumption DEF TakenOff

\* ReadHeader at an end.
LEMMA EndHeader ==
    ASSUME NEW e \in Junk!Ends, NEW n \in 0..Byte, NEW d, NEW s \in Seq(Nat),
           NEW g \in Seq(Nat), NEW u \in BOOLEAN,
           EndOK(e, "header", n, d, s, g, u), s # <<>>
    PROVE  /\ Head(s) \in Nat /\ Tail(s) \in Seq(Nat)
           /\ EndOK(e, "discard", n, Head(s), Tail(s), g, u)
<1>1. n \in Nat /\ n # 0 /\ Byte \in Nat \ {0} /\ n % Byte \in Nat
  BY ByteAssumption DEF EndOK
<1>2. Continues(n, 0, s) /\ TakenOff(e, "header", n, g) = 0
      /\ TakenOff(e, "discard", n, g) = 1 /\ (u => 0 + Len(s) > n)
  BY <1>1 DEF EndOK, TakenOff, Discarded
<1>3. /\ Head(s) = ByteAt(n, 0 + 1) /\ Len(Tail(s)) = Len(s) - 1
      /\ Tail(s) \in Seq(Nat) /\ Continues(n, 0 + 1, Tail(s))
  BY <1>1, <1>2, ContinuesRest
<1>4. PICK l \in Nat : l = Len(s)
  OBVIOUS
<1>5. u => 1 + (l - 1) > n
  BY <1>1, <1>2, <1>4
<1>6. Head(s) = n % Byte
  BY <1>1, <1>3 DEF ByteAt
<1>7. Continues(n, 1, Tail(s)) /\ (u => 1 + Len(Tail(s)) > n)
  BY <1>3, <1>4, <1>5
<1>8. QED
  BY <1>1, <1>2, <1>3, <1>6, <1>7 DEF EndOK

\* Discard at an end, which goes on in phase q.
LEMMA EndDiscard ==
    ASSUME NEW e \in Junk!Ends, NEW n \in 0..Byte, NEW d \in Nat, NEW s \in Seq(Nat),
           NEW g \in Seq(Nat), NEW u \in BOOLEAN,
           EndOK(e, "discard", n, d, s, g, u), d <= Len(s)
    PROVE  LET w == SubSeq(s, d + 1, Len(s))
               q == IF e = "client" THEN "done" ELSE "write"
           IN  w \in Seq(Nat) /\ EndOK(e, q, n, d, w, g, u)
<1> DEFINE w == SubSeq(s, d + 1, Len(s))
           q == IF e = "client" THEN "done" ELSE "write"
<1>1. n \in Nat /\ n # 0 /\ d = n % Byte /\ g = <<>> /\ Continues(n, 1, s)
      /\ (u => 1 + Len(s) > n)
  BY ByteAssumption DEF EndOK, TakenOff, Unread
<1>2. d \in 0..Len(s)
  OBVIOUS
<1>3. w \in Seq(Nat) /\ Len(w) = Len(s) - d /\ Continues(n, 1 + d, w)
  BY <1>1, <1>2, ContinuesSuffix
<1>4. q \in {"done", "write"} /\ Discarded(e, q)
  BY DEF Discarded, Junk!Ends
<1> HIDE DEF w, q
<1>5. TakenOff(e, q, n, g) = 1 + d
  <2>1. Len(g) = 0 /\ 1 + d + 0 = 1 + d
    BY <1>1
  <2>2. QED
    BY <1>1, <1>4, <2>1 DEF TakenOff
<1>6. PICK l \in Nat : l = Len(s)
  OBVIOUS
<1>7. (1 + d) + (l - d) = 1 + l
  BY <1>6
<1>8. Continues(n, TakenOff(e, q, n, g), w) /\ (u => TakenOff(e, q, n, g) + Len(w) > n)
  BY <1>1, <1>3, <1>5, <1>6, <1>7
<1>9. Continues(n, 1 + (n % Byte), g)
  BY DEF EndOK
<1>10. EndOK(e, q, n, d, w, g, u)
  BY <1>1, <1>4, <1>8, <1>9 DEF EndOK
<1>11. QED
  BY <1>3, <1>10 DEF w, q

\* ReadData at an end.
LEMMA EndReads ==
    ASSUME NEW e \in Junk!Ends, NEW n \in 0..Byte, NEW d, NEW s \in Seq(Nat),
           NEW g \in Seq(Nat), NEW u \in BOOLEAN,
           EndOK(e, "done", n, d, s, g, u), s # <<>>
    PROVE  /\ Tail(s) \in Seq(Nat) /\ Append(g, Head(s)) \in Seq(Nat)
           /\ EndOK(e, "done", n, d, Tail(s), Append(g, Head(s)), u)
<1> DEFINE h == Append(g, Head(s))
<1>1. n \in Nat /\ n # 0 /\ n % Byte \in Nat /\ Continues(n, 1 + (n % Byte), g)
  BY ByteAssumption DEF EndOK
<1>2. PICK b \in Nat : b = 1 + (n % Byte)
  BY <1>1
<1>3. PICK m \in Nat : m = Len(g)
  OBVIOUS
<1>4. PICK l \in Nat : l = Len(s)
  OBVIOUS
<1>5. TakenOff(e, "done", n, g) = b + m
  BY <1>2, <1>3 DEF TakenOff, Discarded
<1>6. Continues(n, b + m, s) /\ (u => (b + m) + l > n)
  BY <1>1, <1>4, <1>5 DEF EndOK
<1>7. /\ Head(s) = ByteAt(n, (b + m) + 1) /\ Len(Tail(s)) = l - 1
      /\ Tail(s) \in Seq(Nat) /\ Continues(n, (b + m) + 1, Tail(s))
  BY <1>1, <1>4, <1>6, ContinuesRest
<1>8. Head(s) \in Nat
  OBVIOUS
<1>9. /\ h \in Seq(Nat) /\ h # <<>> /\ Len(h) = m + 1 /\ h[m + 1] = Head(s)
      /\ \A i \in 1..m : h[i] = g[i]
  BY <1>3, <1>8
<1> HIDE DEF h
<1>10. TakenOff(e, "done", n, h) = b + (m + 1)
  BY <1>2, <1>9 DEF TakenOff, Discarded
<1>11. (b + m) + 1 = b + (m + 1) /\ (b + (m + 1)) + (l - 1) = (b + m) + l
       /\ \A i \in 1..(m + 1) : i \in 1..m \/ i = m + 1
  OBVIOUS
<1>12. \A i \in 1..m : g[i] = ByteAt(n, b + i)
  BY <1>1, <1>2, <1>3 DEF Continues
<1>13. \A i \in 1..(m + 1) : h[i] = ByteAt(n, b + i)
  BY ONLY <1>7, <1>9, <1>11, <1>12
<1>14. Continues(n, 1 + (n % Byte), h)
  BY ONLY <1>2, <1>9, <1>13 DEF Continues
<1>15. Continues(n, b + (m + 1), Tail(s)) /\ (u => (b + (m + 1)) + Len(Tail(s)) > n)
  BY ONLY <1>6, <1>7, <1>11
<1>16. EndOK(e, "done", n, d, Tail(s), h, u)
  BY <1>1, <1>10, <1>14, <1>15 DEF EndOK
<1>17. QED
  BY <1>7, <1>9, <1>16 DEF h

\* WriteData at the other end.
LEMMA EndGrows ==
    ASSUME NEW e \in Junk!Ends, NEW ph \in JunkPhases, NEW n \in 1..Byte, NEW d,
           NEW s \in Seq(Nat), NEW g \in Seq(Nat), EndOK(e, ph, n, d, s, g, TRUE)
    PROVE  /\ Append(s, Byte + 1) \in Seq(Nat)
           /\ EndOK(e, ph, n, d, Append(s, Byte + 1), g, TRUE)
<1>1. n \in Nat \ {0} /\ Byte \in Nat
  BY ByteAssumption
<1>2. Append(s, Byte + 1) \in Seq(Nat)
  BY <1>1
<1>3. CASE ph = "failed"
  BY <1>1, <1>2, <1>3 DEF EndOK
<1>4. CASE ph # "failed"
  <2>1. PICK t \in Nat : t = TakenOff(e, ph, n, g)
    BY <1>1, TakenNat
  <2>2. Continues(n, t, s) /\ t + Len(s) > n
    BY <1>1, <1>4, <2>1 DEF EndOK
  <2>3. Len(Append(s, Byte + 1)) = Len(s) + 1 /\ Continues(n, t, Append(s, Byte + 1))
    BY <1>1, <2>2, ContinuesAppend
  <2>4. PICK l \in Nat : l = Len(s)
    OBVIOUS
  <2>5. t + (l + 1) > n
    BY <1>1, <2>2, <2>4
  <2>6. t + Len(Append(s, Byte + 1)) > n
    BY <2>3, <2>4, <2>5
  <2>7. QED
    BY <1>1, <1>2, <2>1, <2>3, <2>6 DEF EndOK
<1>5. QED
  BY <1>3, <1>4

\* WriteJunk at the other end, on a usable connection and on a broken one.
LEMMA EndFilled ==
    ASSUME NEW e \in Junk!Ends, NEW ph \in JunkPhases, NEW n \in 1..Byte, NEW d,
           NEW s \in Seq(Nat), NEW g \in Seq(Nat), NEW u \in BOOLEAN,
           EndOK(e, ph, 0, d, s, g, u)
    PROVE  LET w == <<n % Byte>> \o [i \in 1..n |-> Byte]
           IN  /\ s \o w \in Seq(Nat)
               /\ EndOK(e, ph, n, d, IF u THEN s \o w ELSE s, g, u)
<1> DEFINE w == <<n % Byte>> \o [i \in 1..n |-> Byte]
<1>1. n \in Nat \ {0}
  BY ByteAssumption
<1>2. w \in Seq(Nat) /\ Len(w) = n + 1 /\ Continues(n, 0, w)
  BY <1>1, ContinuesNew
<1> HIDE DEF w
<1>3. s = <<>> /\ (Unread(e, ph) \/ ph = "failed") /\ g = <<>> /\ ph # "discard"
  BY DEF EndOK, Unread
<1>4. ~Discarded(e, ph)
  BY <1>3 DEF Unread, Discarded
<1>5. s \o w = w
  BY <1>2, <1>3
<1>6. TakenOff(e, ph, n, g) = 0
  BY <1>3, <1>4 DEF TakenOff
<1>7. Continues(n, 0, <<>>) /\ Continues(n, 1 + (n % Byte), g)
  BY <1>3 DEF Continues
<1>8. 0 + Len(w) > n
  BY <1>1, <1>2
<1>9. EndOK(e, ph, n, d, IF u THEN w ELSE <<>>, g, u)
  BY <1>1, <1>2, <1>3, <1>6, <1>7, <1>8 DEF EndOK
<1>10. QED
  BY <1>2, <1>3, <1>5, <1>9 DEF w

\* The connection breaks.
LEMMA EndCut ==
    ASSUME NEW e \in Junk!Ends, NEW ph \in JunkPhases, NEW n \in 0..Byte, NEW d,
           NEW s \in Seq(Nat), NEW g \in Seq(Nat), NEW u \in BOOLEAN, NEW m \in 0..Len(s),
           EndOK(e, ph, n, d, s, g, u)
    PROVE  SubSeq(s, 1, m) \in Seq(Nat) /\ EndOK(e, ph, n, d, SubSeq(s, 1, m), g, FALSE)
<1>1. n \in Nat
  BY ByteAssumption
<1>2. SubSeq(s, 1, m) \in Seq(Nat) /\ Len(SubSeq(s, 1, m)) = m
  BY ONLY Prefix, s \in Seq(Nat), m \in 0..Len(s)
<1>3. s = <<>> => SubSeq(s, 1, m) = <<>>
  BY <1>2
<1>4. TakenOff(e, ph, n, g) \in Nat
  BY <1>1, TakenNat
<1>5. ph # "failed" => Continues(n, TakenOff(e, ph, n, g), SubSeq(s, 1, m))
  BY <1>1, <1>4, ContinuesPrefix DEF EndOK
<1>6. QED
  BY <1>2, <1>3, <1>5 DEF EndOK

\* An end and the other are all there is.
LEMMA TwoEnds ==
    ASSUME NEW e \in Junk!Ends
    PROVE  /\ Junk!Other(e) \in Junk!Ends /\ Junk!Other(e) # e
           /\ Junk!Other(Junk!Other(e)) = e
           /\ \A x \in Junk!Ends : x = e \/ x = Junk!Other(e)
BY DEF Junk!Ends, Junk!Other

LEMMA JunkSizesInRange == Junk!JunkSizes \subseteq 1..Byte
<1> SUFFICES ASSUME NEW b \in 0..(Byte - 1) PROVE (b % Byte) + 1 \in 1..Byte
  BY DEF Junk!JunkSizes
<1> QED
  BY ByteAssumption

LEMMA JunkWritesPadding ==
    ASSUME JunkInv, NEW e \in Junk!Ends, Junk!WriteJunk(e)
    PROVE  JunkInv'
<1> DEFINE o == Junk!Other(e)
           q == IF e = "client" THEN "header" ELSE "done"
<1>1. o \in Junk!Ends /\ o # e /\ Junk!Other(o) = e /\ \A x \in Junk!Ends : x = e \/ x = o
  BY TwoEnds
<1>2. PICK n \in Junk!JunkSizes :
         /\ junkLen' = [junkLen EXCEPT ![e] = n]
         /\ junkIn' = [junkIn EXCEPT ![o] =
                 Junk!Written(junkIn[o], <<Junk!LengthByte(n)>> \o [i \in 1..n |-> Junk!Junk])]
  BY DEF Junk!WriteJunk
<1>3. /\ phase[e] = "write" /\ phase' = [phase EXCEPT ![e] = q]
      /\ discard' = discard /\ got' = got /\ junkUp' = junkUp
  BY DEF Junk!WriteJunk
<1>4. n \in 1..Byte /\ n \in 0..Byte /\ n # 0
  BY JunkSizesInRange, ByteAssumption
<1>5. JunkType /\ \A x \in Junk!Ends : Settled(x)
  BY DEF JunkInv
<1>6. junkLen[e] = 0
  BY <1>3, <1>5 DEF Settled, Wrote
<1> DEFINE w == <<n % Byte>> \o [i \in 1..n |-> Byte]
           s == IF junkUp THEN junkIn[o] \o w ELSE junkIn[o]
<1>7. junkIn' = [junkIn EXCEPT ![o] = s]
  BY <1>2 DEF Junk!Written, Junk!LengthByte, Junk!Junk
<1>8. EndOK(o, phase[o], 0, discard[o], junkIn[o], got[o], junkUp)
  BY <1>1, <1>5, <1>6 DEF Settled
<1>9. s \in Seq(Nat) /\ EndOK(o, phase[o], n, discard[o], s, got[o], junkUp)
  <2>1. /\ phase[o] \in JunkPhases /\ junkIn[o] \in Seq(Nat) /\ got[o] \in Seq(Nat)
        /\ junkUp \in BOOLEAN
    BY <1>1, <1>5 DEF JunkType
  <2>2. /\ junkIn[o] \o w \in Seq(Nat)
        /\ EndOK(o, phase[o], n, discard[o], IF junkUp THEN junkIn[o] \o w ELSE junkIn[o],
                 got[o], junkUp)
    BY ONLY <1>1, <1>4, <1>8, <2>1, EndFilled
  <2>3. QED
    BY <2>1, <2>2
<1> HIDE DEF s, o
<1>10. JunkType'
  <2>1. q \in JunkPhases
    BY DEF JunkPhases
  <2>2. QED
    BY <1>1, <1>2, <1>3, <1>4, <1>5, <1>7, <1>9, <2>1 DEF JunkType
<1>11. phase'[e] = q /\ phase'[o] = phase[o] /\ junkLen'[e] = n /\ junkLen'[o] = junkLen[o]
       /\ junkIn'[o] = s /\ junkIn'[e] = junkIn[e]
  BY <1>1, <1>2, <1>3, <1>5, <1>7 DEF JunkType
<1>12. Settled(o)'
  BY <1>1, <1>3, <1>5, <1>9, <1>11 DEF Settled
<1>13. EndOK(e, q, junkLen[o], discard[e], junkIn[e], got[e], junkUp)
  <2>1. EndOK(e, "write", junkLen[o], discard[e], junkIn[e], got[e], junkUp)
    BY <1>3, <1>5 DEF Settled, o
  <2>2. TakenOff(e, "write", junkLen[o], got[e]) = TakenOff(e, q, junkLen[o], got[e])
    BY DEF TakenOff, Discarded, Junk!Ends
  <2>3. q # "failed" /\ q # "discard" /\ (Unread(e, "write") => Unread(e, q))
    BY DEF Unread
  <2>4. got[e] = <<>>
    BY <2>1 DEF EndOK
  <2>5. QED
    BY <2>1, <2>2, <2>3, <2>4 DEF EndOK
<1>14. Settled(e)'
  <2>1. n # 0 /\ Wrote(e, q)
    BY <1>4 DEF Wrote, Junk!Ends
  <2>2. Junk!Other(e) = o
    BY DEF o
  <2>3. QED
    BY <1>3, <1>11, <1>13, <2>1, <2>2 DEF Settled
<1>15. QED
  BY <1>1, <1>10, <1>12, <1>14 DEF JunkInv

\* A step of end e alone: what the other end says of it stays.
LEMMA JunkAlone ==
    ASSUME JunkInv, NEW e \in Junk!Ends,
           NEW q \in JunkPhases, NEW d \in Nat, NEW s \in Seq(Nat), NEW g \in Seq(Nat),
           phase' = [phase EXCEPT ![e] = q], discard' = [discard EXCEPT ![e] = d],
           junkIn' = [junkIn EXCEPT ![e] = s], got' = [got EXCEPT ![e] = g],
           junkLen' = junkLen, junkUp' = junkUp,
           q = "failed" \/ (junkLen[e] # 0 <=> Wrote(e, q)),
           EndOK(e, q, junkLen[Junk!Other(e)], d, s, g, junkUp)
    PROVE  JunkInv'
<1> DEFINE o == Junk!Other(e)
<1>1. o \in Junk!Ends /\ o # e /\ Junk!Other(o) = e /\ \A x \in Junk!Ends : x = e \/ x = o
  BY TwoEnds
<1>2. JunkType /\ \A x \in Junk!Ends : Settled(x)
  BY DEF JunkInv
<1>3. JunkType'
  BY <1>2 DEF JunkType
<1>4. /\ phase'[e] = q /\ discard'[e] = d /\ junkIn'[e] = s /\ got'[e] = g
      /\ phase'[o] = phase[o] /\ discard'[o] = discard[o] /\ junkIn'[o] = junkIn[o]
      /\ got'[o] = got[o]
  BY <1>1, <1>2 DEF JunkType
<1> HIDE DEF o
<1>5. Settled(o)'
  BY <1>1, <1>2, <1>4 DEF Settled
<1>6. Settled(e)'
  BY <1>4 DEF Settled, o
<1>7. QED
  BY <1>1, <1>3, <1>5, <1>6 DEF JunkInv

LEMMA JunkReadsHeader ==
    ASSUME JunkInv, NEW e \in Junk!Ends, Junk!ReadHeader(e)
    PROVE  JunkInv'
<1> DEFINE o == Junk!Other(e)
<1>1. /\ phase[e] = "header" /\ junkIn[e] # <<>>
      /\ discard' = [discard EXCEPT ![e] = Head(junkIn[e])]
      /\ junkIn' = [junkIn EXCEPT ![e] = Tail(junkIn[e])]
      /\ phase' = [phase EXCEPT ![e] = "discard"]
      /\ junkLen' = junkLen /\ got' = got /\ junkUp' = junkUp
  BY DEF Junk!ReadHeader
<1>2. /\ junkLen[o] \in 0..Byte /\ junkIn[e] \in Seq(Nat) /\ got[e] \in Seq(Nat)
      /\ junkUp \in BOOLEAN /\ got' = [got EXCEPT ![e] = got[e]]
  BY <1>1, TwoEnds DEF JunkInv, JunkType
<1>3. EndOK(e, "header", junkLen[o], discard[e], junkIn[e], got[e], junkUp)
  BY <1>1 DEF JunkInv, Settled
<1>4. /\ Head(junkIn[e]) \in Nat /\ Tail(junkIn[e]) \in Seq(Nat)
      /\ EndOK(e, "discard", junkLen[o], Head(junkIn[e]), Tail(junkIn[e]), got[e], junkUp)
  BY ONLY <1>1, <1>2, <1>3, EndHeader, e \in Junk!Ends
<1>5. "discard" \in JunkPhases /\ (junkLen[e] # 0 <=> Wrote(e, "discard"))
  BY <1>1 DEF JunkPhases, JunkInv, Settled, Wrote
<1> HIDE DEF o
<1>6. EndOK(e, "discard", junkLen[Junk!Other(e)], Head(junkIn[e]), Tail(junkIn[e]), got[e],
            junkUp)
  BY <1>4 DEF o
<1>7. QED
  BY ONLY JunkInv, e \in Junk!Ends, <1>1, <1>2, <1>4, <1>5, <1>6, JunkAlone

LEMMA JunkDiscards ==
    ASSUME JunkInv, NEW e \in Junk!Ends, Junk!Discard(e)
    PROVE  JunkInv'
<1> DEFINE o == Junk!Other(e)
           q == IF e = "client" THEN "done" ELSE "write"
           w == SubSeq(junkIn[e], discard[e] + 1, Len(junkIn[e]))
<1>1. /\ phase[e] = "discard" /\ Len(junkIn[e]) >= discard[e]
      /\ junkIn' = [junkIn EXCEPT ![e] = w]
      /\ phase' = [phase EXCEPT ![e] = q]
      /\ junkLen' = junkLen /\ discard' = discard /\ got' = got /\ junkUp' = junkUp
  BY DEF Junk!Discard
<1>2. /\ junkLen[o] \in 0..Byte /\ junkIn[e] \in Seq(Nat) /\ got[e] \in Seq(Nat)
      /\ discard[e] \in Nat /\ junkUp \in BOOLEAN
      /\ got' = [got EXCEPT ![e] = got[e]] /\ discard' = [discard EXCEPT ![e] = discard[e]]
  BY <1>1, TwoEnds DEF JunkInv, JunkType
<1>3. EndOK(e, "discard", junkLen[o], discard[e], junkIn[e], got[e], junkUp)
      /\ discard[e] <= Len(junkIn[e])
  BY <1>1, <1>2 DEF JunkInv, Settled
<1>4. w \in Seq(Nat) /\ EndOK(e, q, junkLen[o], discard[e], w, got[e], junkUp)
  BY ONLY <1>2, <1>3, EndDiscard, e \in Junk!Ends
<1>5. q \in JunkPhases /\ (junkLen[e] # 0 <=> Wrote(e, q))
  BY <1>1 DEF JunkPhases, JunkInv, Settled, Wrote, Junk!Ends
<1> HIDE DEF q, w
<1>6. EndOK(e, q, junkLen[Junk!Other(e)], discard[e], w, got[e], junkUp)
  BY <1>4
<1> HIDE DEF o
<1>7. QED
  BY ONLY JunkInv, e \in Junk!Ends, <1>1, <1>2, <1>4, <1>5, <1>6, JunkAlone

LEMMA JunkFails ==
    ASSUME JunkInv, NEW e \in Junk!Ends, Junk!Fail(e)
    PROVE  JunkInv'
<1>1. /\ phase' = [phase EXCEPT ![e] = "failed"] /\ phase[e] \in {"write", "header", "discard"}
      /\ junkLen' = junkLen /\ discard' = discard /\ junkIn' = junkIn
      /\ got' = got /\ junkUp' = junkUp
  BY DEF Junk!Fail
<1>2. /\ junkIn[e] \in Seq(Nat) /\ got[e] \in Seq(Nat) /\ discard[e] \in Nat
      /\ got' = [got EXCEPT ![e] = got[e]] /\ discard' = [discard EXCEPT ![e] = discard[e]]
      /\ junkIn' = [junkIn EXCEPT ![e] = junkIn[e]]
  BY <1>1 DEF JunkInv, JunkType
<1>3. EndOK(e, phase[e], junkLen[Junk!Other(e)], discard[e], junkIn[e], got[e], junkUp)
  BY DEF JunkInv, Settled
<1>4. EndOK(e, "failed", junkLen[Junk!Other(e)], discard[e], junkIn[e], got[e], junkUp)
  BY <1>1, <1>3 DEF EndOK
<1>5. "failed" \in JunkPhases
  BY DEF JunkPhases
<1>6. QED
  BY ONLY JunkInv, e \in Junk!Ends, <1>1, <1>2, <1>4, <1>5, JunkAlone

LEMMA JunkReadsData ==
    ASSUME JunkInv, NEW e \in Junk!Ends, Junk!ReadData(e)
    PROVE  JunkInv'
<1> DEFINE o == Junk!Other(e)
           h == Append(got[e], Head(junkIn[e]))
<1>1. /\ phase[e] = "done" /\ junkIn[e] # <<>>
      /\ got' = [got EXCEPT ![e] = h]
      /\ junkIn' = [junkIn EXCEPT ![e] = Tail(junkIn[e])]
      /\ phase' = phase /\ discard' = discard /\ junkLen' = junkLen /\ junkUp' = junkUp
  BY DEF Junk!ReadData
<1>2. /\ junkLen[o] \in 0..Byte /\ junkIn[e] \in Seq(Nat) /\ got[e] \in Seq(Nat)
      /\ discard[e] \in Nat /\ junkUp \in BOOLEAN
      /\ phase' = [phase EXCEPT ![e] = "done"]
      /\ discard' = [discard EXCEPT ![e] = discard[e]]
  BY <1>1, TwoEnds DEF JunkInv, JunkType
<1>3. EndOK(e, "done", junkLen[o], discard[e], junkIn[e], got[e], junkUp)
  BY <1>1 DEF JunkInv, Settled
<1>4. /\ Tail(junkIn[e]) \in Seq(Nat) /\ h \in Seq(Nat)
      /\ EndOK(e, "done", junkLen[o], discard[e], Tail(junkIn[e]), h, junkUp)
  BY ONLY <1>1, <1>2, <1>3, EndReads, e \in Junk!Ends
<1>5. "done" \in JunkPhases /\ (junkLen[e] # 0 <=> Wrote(e, "done"))
  BY <1>1 DEF JunkPhases, JunkInv, Settled, Wrote
<1> HIDE DEF h
<1>6. EndOK(e, "done", junkLen[Junk!Other(e)], discard[e], Tail(junkIn[e]), h, junkUp)
  BY <1>4
<1> HIDE DEF o
<1>7. QED
  BY ONLY JunkInv, e \in Junk!Ends, <1>1, <1>2, <1>4, <1>5, <1>6, JunkAlone

LEMMA JunkWritesData ==
    ASSUME JunkInv, NEW e \in Junk!Ends, Junk!WriteData(e)
    PROVE  JunkInv'
<1> DEFINE o == Junk!Other(e)
           s == Append(junkIn[o], Byte + 1)
<1>1. o \in Junk!Ends /\ Junk!Other(o) = e
  BY TwoEnds
<1>2. /\ phase[e] = "done" /\ junkUp
      /\ junkIn' = [junkIn EXCEPT ![o] = s]
      /\ phase' = phase /\ discard' = discard /\ junkLen' = junkLen
      /\ got' = got /\ junkUp' = junkUp
  BY DEF Junk!WriteData, Junk!Payload
<1>3. /\ junkIn[o] \in Seq(Nat) /\ got[o] \in Seq(Nat) /\ phase[o] \in JunkPhases
      /\ discard[o] \in Nat /\ got' = [got EXCEPT ![o] = got[o]]
      /\ phase' = [phase EXCEPT ![o] = phase[o]]
      /\ discard' = [discard EXCEPT ![o] = discard[o]]
  BY <1>1, <1>2 DEF JunkInv, JunkType
<1>4. junkLen[e] \in 1..Byte
  <2>1. junkLen[e] \in 0..Byte /\ junkLen[e] # 0
    BY <1>2 DEF JunkInv, Settled, JunkType, Wrote
  <2>2. QED
    BY <2>1, ByteAssumption
<1>5. junkUp = TRUE
  BY <1>2 DEF JunkInv, JunkType
<1>6. EndOK(o, phase[o], junkLen[e], discard[o], junkIn[o], got[o], TRUE)
  BY <1>1, <1>5 DEF JunkInv, Settled
<1>7. s \in Seq(Nat) /\ EndOK(o, phase[o], junkLen[e], discard[o], s, got[o], TRUE)
  BY ONLY <1>1, <1>3, <1>4, <1>6, EndGrows
<1>8. phase[o] = "failed" \/ (junkLen[o] # 0 <=> Wrote(o, phase[o]))
  BY <1>1 DEF JunkInv, Settled
<1> HIDE DEF s, o
<1>9. EndOK(o, phase[o], junkLen[Junk!Other(o)], discard[o], s, got[o], junkUp)
  BY <1>1, <1>5, <1>7
<1>10. QED
  BY ONLY JunkInv, <1>1, <1>2, <1>3, <1>7, <1>8, <1>9, JunkAlone

LEMMA JunkBreaks ==
    ASSUME JunkInv, Junk!Break
    PROVE  JunkInv'
<1>1. PICK c \in 0..Len(junkIn["client"]), s \in 0..Len(junkIn["server"]) :
         junkIn' = [junkIn EXCEPT !["client"] = SubSeq(junkIn["client"], 1, c),
                                  !["server"] = SubSeq(junkIn["server"], 1, s)]
  BY DEF Junk!Break
<1>2. /\ junkUp' = FALSE /\ phase' = phase /\ junkLen' = junkLen /\ discard' = discard
      /\ got' = got
  BY DEF Junk!Break
<1>3. JunkType /\ \A x \in Junk!Ends : Settled(x)
  BY DEF JunkInv
<1>4. ASSUME NEW e \in Junk!Ends
      PROVE  junkIn'[e] \in Seq(Nat) /\ Settled(e)'
  <2>1. PICK m \in 0..Len(junkIn[e]) : junkIn'[e] = SubSeq(junkIn[e], 1, m)
    BY <1>1, <1>3 DEF JunkType, Junk!Ends
  <2>2. /\ phase[e] \in JunkPhases /\ junkLen[Junk!Other(e)] \in 0..Byte
        /\ junkIn[e] \in Seq(Nat) /\ got[e] \in Seq(Nat) /\ junkUp \in BOOLEAN
    BY <1>3, TwoEnds DEF JunkType
  <2>3. EndOK(e, phase[e], junkLen[Junk!Other(e)], discard[e], junkIn[e], got[e], junkUp)
    BY <1>3 DEF Settled
  <2>4. /\ junkIn'[e] \in Seq(Nat)
        /\ EndOK(e, phase[e], junkLen[Junk!Other(e)], discard[e], junkIn'[e], got[e], FALSE)
    <3>1. /\ SubSeq(junkIn[e], 1, m) \in Seq(Nat)
          /\ EndOK(e, phase[e], junkLen[Junk!Other(e)], discard[e], SubSeq(junkIn[e], 1, m),
                   got[e], FALSE)
      BY ONLY <2>2, <2>3, EndCut, e \in Junk!Ends, m \in 0..Len(junkIn[e])
    <3>2. QED
      BY ONLY <2>1, <3>1
  <2>5. QED
    BY <1>2, <1>3, <2>4 DEF Settled
<1>5. JunkType'
  <2>1. DOMAIN junkIn' = Junk!Ends /\ junkIn' = [e \in DOMAIN junkIn' |-> junkIn'[e]]
    BY <1>1, <1>3 DEF JunkType
  <2>2. junkIn' \in [Junk!Ends -> Seq(Nat)]
    BY <1>4, <2>1
  <2>3. QED
    BY <1>2, <1>3, <2>2 DEF JunkType
<1>6. QED
  BY <1>4, <1>5 DEF JunkInv

LEMMA JunkInit == Init => JunkInv
<1> SUFFICES ASSUME Junk!Init PROVE JunkInv
  BY DEF Init, PartsInit
<1>1. JunkType
  BY ByteAssumption DEF Junk!Init, JunkType, JunkPhases
<1>2. ASSUME NEW e \in Junk!Ends PROVE Settled(e)
  <2>1. /\ phase[e] = IF e = "client" THEN "write" ELSE "header"
        /\ junkLen[e] = 0 /\ junkLen[Junk!Other(e)] = 0 /\ junkIn[e] = <<>> /\ got[e] = <<>>
    BY TwoEnds DEF Junk!Init
  <2>2. \A t : Continues(0, t, <<>>)
    BY DEF Continues
  <2>3. QED
    BY <2>1, <2>2 DEF Settled, EndOK, Wrote, Unread
<1>3. QED
  BY <1>1, <1>2 DEF JunkInv

\* The steps of the other parts do not concern the handshake.
LEMMA JunkKept == JunkInv /\ [Next]_vars => JunkInv'
<1> SUFFICES ASSUME JunkInv, [Next]_vars PROVE JunkInv'
  OBVIOUS
<1>1. CASE JunkStep
  BY <1>1, JunkWritesPadding, JunkReadsHeader, JunkDiscards, JunkFails, JunkWritesData,
     JunkReadsData, JunkBreaks DEF JunkStep, Junk!Next, Junk!Handshake
<1>2. CASE UNCHANGED junkVars
  BY <1>2 DEF junkVars, JunkInv, Settled, JunkType
<1>3. QED
  BY <1>1, <1>2 DEF Next, AuthStep, PipeStep, UdpStep, BootStep, vars

\* At every moment the bytes in the network continue, at the right place, the stream
\* that the other end's WriteJunk and the layer above it have written.
THEOREM JunkInvariance == Spec => []JunkInv
BY JunkInit, JunkKept, PTL DEF Spec

\* No byte of a padding that is shorter than MaxJunkSize reaches the layer above,
\* for every size of a byte and however the stream is cut.
THEOREM PaddingStaysBelow == Spec => []ShortPaddingDiscarded
<1>1. JunkInv => ShortPaddingDiscarded
  <2> SUFFICES ASSUME JunkInv, NEW e \in Junk!Ends, junkLen[Junk!Other(e)] < Byte,
                      NEW i \in DOMAIN got[e]
               PROVE  got[e][i] # Byte
    BY DEF ShortPaddingDiscarded, Junk!ShortPaddingDiscarded, Junk!Junk
  <2>1. PICK n \in 0..Byte : n = junkLen[Junk!Other(e)]
    BY TwoEnds DEF JunkInv, JunkType
  <2>2. EndOK(e, phase[e], n, discard[e], junkIn[e], got[e], junkUp)
    BY <2>1 DEF JunkInv, Settled
  <2>3. Continues(n, 1 + (n % Byte), got[e])
    BY <2>2 DEF EndOK
  <2>4. got[e] \in Seq(Nat) /\ i \in 1..Len(got[e]) /\ i \in Nat /\ i >= 1
    BY DEF JunkInv, JunkType
  <2>5. got[e][i] = ByteAt(n, (1 + (n % Byte)) + i)
    BY <2>3, <2>4 DEF Continues
  <2>6. n % Byte = n
    BY <2>1, ByteAssumption
  <2>7. (1 + n) + i # 1 /\ ~((1 + n) + i <= n + 1) /\ Byte + 1 # Byte
    BY <2>1, <2>4, ByteAssumption
  <2>8. QED
    BY <2>5, <2>6, <2>7 DEF ByteAt
<1>2. QED
  BY <1>1, JunkInvariance, PTL

-----------------------------------------------------------------------------
(* ProtocolAuth: ServerAuthenticate and ClientAuthenticate *)

AuthPcs == {"idle", "call", "nonce", "ack", "header", "body"} \cup Auth!Returned

\* Unit i of the packet of a client with an id of length n.
UnitAt(n, tok, i) ==
    IF i = 1 THEN <<"len", n % Byte>>
    ELSE IF i <= n + 1 THEN <<"id", i - 1>> ELSE Auth!Mac(tok, Auth!IdBytes(n))

Units == {<<"nonce">>, <<"ack", 0>>, <<"ack", 1>>}
             \cup {UnitAt(n, tok, i) : n \in Nat, tok \in {Token, WrongToken}, i \in Nat}

AuthType ==
    /\ authPc \in [Auth!Ends -> AuthPcs]
    /\ idLen \in Nat /\ token \in {Token, WrongToken} /\ header \in Nat
    /\ authIn \in [Auth!Ends -> Seq(Units)]
    /\ authUp \in BOOLEAN

\* q is what comes in that packet after its first t units.
InPacket(n, tok, t, q) == \A i \in 1..Len(q) : q[i] = UnitAt(n, tok, t + i)

\* The client at c and the server at s, with p and q on their way to them: before
\* the client has read the nonce nothing goes to the server; an acknowledgement on
\* its way, and the client's outcome, are the server's verdict; and the server reads
\* the client's own packet, in step with it.
Exchange(c, s, p, q, n, tok, h, i) ==
    /\ c \in {"idle", "nonce"} => /\ q = <<>> /\ Len(p) <= 1
                                  /\ s \in {"idle", "call", "header", "failed"}
    /\ s \in {"idle", "call"} => p = <<>> /\ q = <<>> /\ c \in {"idle", "nonce", "failed"}
    /\ c = "ack" => /\ Auth!LengthFits(n)
                    /\ \A j \in 1..Len(p) : \/ p[j] = <<"ack", 1>> /\ s = "ok"
                                            \/ p[j] = <<"ack", 0>> /\ s = "rejected"
    /\ s = "header" => InPacket(n, tok, 0, q) /\ (q # <<>> => Auth!LengthFits(n))
    /\ s = "body" => h = n /\ Auth!LengthFits(n) /\ InPacket(n, tok, 1, q)
    /\ s = "ok" => tok = Token /\ i = Auth!IdBytes(n)
    /\ s = "rejected" => tok # Token
    /\ c = "ok" => s = "ok"
    /\ c = "rejected" => s = "rejected"

AuthInv ==
    /\ AuthType
    /\ Exchange(authPc["client"], authPc["server"], authIn["client"], authIn["server"],
                idLen, token, header, id)

\* The packet, unit by unit.
LEMMA PacketUnits ==
    ASSUME NEW n \in Nat, n # 0, NEW tok \in {Token, WrongToken}
    PROVE  LET w == <<<<"len", n % Byte>>>> \o Auth!IdBytes(n)
                        \o <<Auth!Mac(tok, Auth!IdBytes(n))>>
           IN  w \in Seq(Units) /\ InPacket(n, tok, 0, w)
<1> DEFINE f == <<<<"len", n % Byte>>>>
           b == Auth!IdBytes(n)
           m == <<Auth!Mac(tok, Auth!IdBytes(n))>>
           g == f \o b
           w == g \o m
<1>1. \A i \in Nat : UnitAt(n, tok, i) \in Units
  BY DEF Units
<1>2. f \in Seq(Units) /\ Len(f) = 1 /\ f[1] = UnitAt(n, tok, 1)
  <2>1. UnitAt(n, tok, 1) = <<"len", n % Byte>>
    BY DEF UnitAt
  <2>2. <<"len", n % Byte>> \in Units
    BY <1>1, <2>1
  <2>3. QED
    BY <2>1, <2>2
<1>3. b \in Seq(Units) /\ Len(b) = n /\ \A i \in 1..n : b[i] = UnitAt(n, tok, i + 1)
  <2>1. ASSUME NEW i \in 1..n
        PROVE  i + 1 \in Nat /\ UnitAt(n, tok, i + 1) = <<"id", i>>
    <3>1. i + 1 # 1 /\ i + 1 <= n + 1 /\ (i + 1) - 1 = i /\ i + 1 \in Nat
      OBVIOUS
    <3>2. QED
      BY <3>1 DEF UnitAt
  <2>2. \A i \in 1..n : <<"id", i>> \in Units
    BY <1>1, <2>1
  <2>3. b = [i \in 1..n |-> <<"id", i>>]
    BY DEF Auth!IdBytes
  <2> HIDE DEF b
  <2>4. b \in Seq(Units) /\ Len(b) = n
    BY ONLY <2>2, <2>3, n \in Nat
  <2>5. \A i \in 1..n : b[i] = <<"id", i>>
    BY ONLY <2>3
  <2>6. QED
    BY <2>1, <2>4, <2>5
<1>4. m \in Seq(Units) /\ Len(m) = 1 /\ m[1] = UnitAt(n, tok, n + 2)
  <2>1. n + 2 \in Nat /\ n + 2 # 1 /\ ~(n + 2 <= n + 1)
    OBVIOUS
  <2>2. UnitAt(n, tok, n + 2) = Auth!Mac(tok, Auth!IdBytes(n))
    BY <2>1 DEF UnitAt
  <2>3. Auth!Mac(tok, Auth!IdBytes(n)) \in Units
    BY <1>1, <2>1, <2>2
  <2>4. QED
    BY <2>2, <2>3
<1> HIDE DEF f, b, m
<1>5. /\ g \in Seq(Units) /\ Len(g) = 1 + n
      /\ \A i \in 1..(1 + n) : g[i] = IF i <= 1 THEN f[i] ELSE b[i - 1]
  <2>1. /\ g \in Seq(Units) /\ Len(g) = Len(f) + Len(b)
        /\ \A i \in 1..(Len(f) + Len(b)) :
              g[i] = IF i <= Len(f) THEN f[i] ELSE b[i - Len(f)]
    BY ONLY Behind, <1>2, <1>3
  <2>2. QED
    BY ONLY <1>2, <1>3, <2>1
<1> HIDE DEF g
<1>6. /\ w \in Seq(Units) /\ Len(w) = (1 + n) + 1
      /\ \A i \in 1..((1 + n) + 1) : w[i] = IF i <= 1 + n THEN g[i] ELSE m[i - (1 + n)]
  <2>1. /\ w \in Seq(Units) /\ Len(w) = Len(g) + Len(m)
        /\ \A i \in 1..(Len(g) + Len(m)) :
              w[i] = IF i <= Len(g) THEN g[i] ELSE m[i - Len(g)]
    BY ONLY Behind, <1>4, <1>5
  <2>2. QED
    BY ONLY <1>4, <1>5, <2>1
<1>7. ASSUME NEW i \in 1..((1 + n) + 1)
      PROVE  w[i] = UnitAt(n, tok, 0 + i)
  <2>1. 0 + i = i
    OBVIOUS
  <2>2. CASE i = 1
    BY <1>2, <1>5, <1>6, <2>1, <2>2
  <2>3. CASE i # 1 /\ i <= 1 + n
    <3>1. i - 1 \in 1..n /\ (i - 1) + 1 = i /\ ~(i <= 1) /\ i \in 1..(1 + n)
      BY <2>3
    <3>2. w[i] = b[i - 1]
      BY <1>5, <1>6, <2>3, <3>1
    <3>3. b[i - 1] = UnitAt(n, tok, (i - 1) + 1)
      BY <1>3, <3>1
    <3>4. QED
      BY <2>1, <3>1, <3>2, <3>3
  <2>4. CASE ~(i <= 1 + n)
    <3>1. i = n + 2 /\ i - (1 + n) = 1
      BY <2>4
    <3>2. QED
      BY <1>4, <1>6, <2>1, <2>4, <3>1
  <2>5. QED
    BY <2>2, <2>3, <2>4
<1> HIDE DEF w
<1>8. QED
  BY <1>6, <1>7 DEF InPacket, w, g, f, b, m

LEMMA InPacketRest ==
    ASSUME NEW n \in Nat, NEW tok, NEW q \in Seq(Units), q # <<>>, InPacket(n, tok, 0, q)
    PROVE  Head(q) = UnitAt(n, tok, 1) /\ Tail(q) \in Seq(Units) /\ InPacket(n, tok, 1, Tail(q))
<1>1. /\ Head(q) = q[1] /\ Tail(q) \in Seq(Units) /\ Len(Tail(q)) = Len(q) - 1
      /\ \A i \in 1..(Len(q) - 1) : Tail(q)[i] = q[i + 1]
  BY ONLY Rest, q \in Seq(Units), q # <<>>
<1>2. PICK l \in Nat : l = Len(q) /\ l >= 1
  BY ONLY Rest, q \in Seq(Units), q # <<>>
<1>3. \A i \in 1..l : q[i] = UnitAt(n, tok, 0 + i)
  BY <1>2 DEF InPacket
<1>4. \A i \in 1..(l - 1) : i + 1 \in 1..l /\ 0 + (i + 1) = 1 + i
  BY <1>2
<1>5. \A i \in 1..(l - 1) : Tail(q)[i] = UnitAt(n, tok, 1 + i)
  BY ONLY <1>1, <1>2, <1>3, <1>4
<1>6. 1 \in 1..l /\ 0 + 1 = 1
  BY <1>2
<1>7. QED
  BY ONLY <1>1, <1>2, <1>3, <1>5, <1>6 DEF InPacket

LEMMA InPacketPrefix ==
    ASSUME NEW n \in Nat, NEW tok, NEW t, NEW q \in Seq(Units), NEW m \in 0..Len(q),
           InPacket(n, tok, t, q)
    PROVE  InPacket(n, tok, t, SubSeq(q, 1, m))
<1>1. Len(SubSeq(q, 1, m)) = m /\ \A i \in 1..m : SubSeq(q, 1, m)[i] = q[i]
  BY ONLY Prefix, q \in Seq(Units), m \in 0..Len(q)
<1>2. \A i \in 1..m : i \in 1..Len(q)
  OBVIOUS
<1>3. QED
  BY <1>1, <1>2 DEF InPacket

\* Behind the length come the id and an HMAC that verifies for the right token only.
LEMMA VerifiedMeansToken ==
    ASSUME NEW n \in Nat, n # 0, NEW tok, NEW q \in Seq(Units), Len(q) > n,
           InPacket(n, tok, 1, q)
    PROVE  /\ SubSeq(q, 1, n) = Auth!IdBytes(n)
           /\ q[n + 1] = Auth!Mac(Token, SubSeq(q, 1, n)) <=> tok = Token
<1>1. PICK l \in Nat : l = Len(q) /\ l > n
  OBVIOUS
<1>2. \A i \in 1..l : q[i] = UnitAt(n, tok, 1 + i)
  BY <1>1 DEF InPacket
<1>3. /\ SubSeq(q, 1, n) \in Seq(Units) /\ Len(SubSeq(q, 1, n)) = n
      /\ \A i \in 1..n : SubSeq(q, 1, n)[i] = q[i]
  <2>1. n \in 0..Len(q)
    BY <1>1
  <2>2. QED
    BY ONLY Prefix, q \in Seq(Units), <2>1
<1>4. \A i \in 1..n : q[i] = <<"id", i>>
  <2> SUFFICES ASSUME NEW i \in 1..n PROVE q[i] = <<"id", i>>
    OBVIOUS
  <2>1. 1 + i # 1 /\ 1 + i <= n + 1 /\ (1 + i) - 1 = i /\ i \in 1..l
    BY <1>1
  <2>2. QED
    BY <1>2, <2>1 DEF UnitAt
<1>5. SubSeq(q, 1, n) = Auth!IdBytes(n)
  <2>1. SubSeq(q, 1, n) = [i \in 1..n |-> SubSeq(q, 1, n)[i]]
    BY <1>3
  <2>2. QED
    BY <1>3, <1>4, <2>1 DEF Auth!IdBytes
<1>6. q[n + 1] = Auth!Mac(tok, Auth!IdBytes(n))
  <2>1. n + 1 \in 1..l /\ 1 + (n + 1) # 1 /\ ~(1 + (n + 1) <= n + 1)
    BY <1>1
  <2>2. QED
    BY <1>2, <2>1 DEF UnitAt
<1>7. Auth!Mac(tok, Auth!IdBytes(n)) = Auth!Mac(Token, Auth!IdBytes(n)) <=> tok = Token
  BY DEF Auth!Mac
<1>8. QED
  BY ONLY <1>5, <1>6, <1>7

\* The constants of an exchange, once and for all.
LEMMA AuthFacts ==
    ASSUME AuthInv
    PROVE  /\ authPc \in [Auth!Ends -> AuthPcs] /\ authIn \in [Auth!Ends -> Seq(Units)]
           /\ idLen \in Nat /\ token \in {Token, WrongToken} /\ header \in Nat
           /\ authUp \in BOOLEAN
           /\ authIn["client"] \in Seq(Units) /\ authIn["server"] \in Seq(Units)
           /\ "client" \in Auth!Ends /\ "server" \in Auth!Ends /\ "client" # "server"
           /\ Exchange(authPc["client"], authPc["server"], authIn["client"], authIn["server"],
                       idLen, token, header, id)
BY DEF AuthInv, AuthType, Auth!Ends

\* A step after which client and server stand at c and s, with p and q to come.
LEMMA AuthAfter ==
    ASSUME AuthInv, NEW c \in AuthPcs, NEW s \in AuthPcs, NEW p \in Seq(Units),
           NEW q \in Seq(Units),
           authPc' = [authPc EXCEPT !["client"] = c, !["server"] = s],
           authIn' = [authIn EXCEPT !["client"] = p, !["server"] = q],
           idLen' \in Nat, token' \in {Token, WrongToken}, header' \in Nat, authUp' \in BOOLEAN,
           Exchange(c, s, p, q, idLen', token', header', id')
    PROVE  AuthInv'
<1>1. /\ authPc' \in [Auth!Ends -> AuthPcs] /\ authIn' \in [Auth!Ends -> Seq(Units)]
      /\ authPc'["client"] = c /\ authPc'["server"] = s
      /\ authIn'["client"] = p /\ authIn'["server"] = q
  BY AuthFacts
<1>2. QED
  BY <1>1 DEF AuthInv, AuthType

LEMMA AuthCalls ==
    ASSUME AuthInv, NEW n \in 0..(Byte + 1), NEW tok \in {Token, WrongToken},
           Auth!ClientCall(n, tok)
    PROVE  AuthInv'
<1>1. /\ authPc["client"] = "idle" /\ idLen' = n /\ token' = tok
      /\ authPc' = [authPc EXCEPT !["client"] = "nonce"]
      /\ header' = header /\ id' = id /\ authIn' = authIn /\ authUp' = authUp
  BY DEF Auth!ClientCall, Auth!Goto
<1>2. n \in Nat
  BY ByteAssumption
<1>3. /\ authPc' = [authPc EXCEPT !["client"] = "nonce", !["server"] = authPc["server"]]
      /\ authIn' = [authIn EXCEPT !["client"] = authIn["client"],
                                  !["server"] = authIn["server"]]
  BY <1>1, AuthFacts
<1>4. Exchange("nonce", authPc["server"], authIn["client"], authIn["server"], n, tok, header, id)
  BY <1>1, AuthFacts DEF Exchange, InPacket
<1>5. "nonce" \in AuthPcs /\ authPc["server"] \in AuthPcs
  BY AuthFacts DEF AuthPcs
<1>6. QED
  BY ONLY AuthInv, <1>1, <1>2, <1>3, <1>4, <1>5, AuthFacts, AuthAfter,
     tok \in {Token, WrongToken}

LEMMA AuthAnswers ==
    ASSUME AuthInv, Auth!ClientAnswer
    PROVE  AuthInv'
<1> DEFINE p == authIn["client"]
           q == authIn["server"]
           s == authPc["server"]
<1>1. /\ authPc["client"] = "nonce" /\ p # <<>>
      /\ idLen' = idLen /\ token' = token /\ header' = header /\ id' = id /\ authUp' = authUp
  BY DEF Auth!ClientAnswer
<1>2. Exchange("nonce", s, p, q, idLen, token, header, id)
  BY <1>1, AuthFacts
<1>3. p \in Seq(Units) /\ q \in Seq(Units) /\ s \in AuthPcs
  BY AuthFacts
<1>4. q = <<>> /\ s \in {"header", "failed"} /\ Len(p) <= 1
  BY <1>1, <1>2 DEF Exchange
<1>5. Tail(p) \in Seq(Units) /\ Len(Tail(p)) = 0
  <2>1. Len(p) \in Nat /\ Len(p) >= 1 /\ Tail(p) \in Seq(Units) /\ Len(Tail(p)) = Len(p) - 1
    BY ONLY Rest, <1>1, <1>3
  <2>2. Len(p) <= 1
    BY <1>4
  <2> HIDE DEF p
  <2>3. \A l \in Nat : l <= 1 /\ l >= 1 => l - 1 = 0
    OBVIOUS
  <2>4. QED
    BY ONLY <2>1, <2>2, <2>3
<1>6. CASE Auth!LengthFits(idLen)
  <2>1. idLen # 0
    BY <1>6 DEF Auth!LengthFits
  <2>2. Auth!Packet \in Seq(Units) /\ InPacket(idLen, token, 0, Auth!Packet)
    BY <2>1, AuthFacts, PacketUnits DEF Auth!Packet
  <2> DEFINE r == IF authUp THEN q \o Auth!Packet ELSE q
  <2>3. r \in Seq(Units) /\ InPacket(idLen, token, 0, r)
    <3>1. q \o Auth!Packet = Auth!Packet
      BY ONLY <1>4, <2>2
    <3>2. InPacket(idLen, token, 0, <<>>)
      BY DEF InPacket
    <3>3. QED
      BY <1>3, <1>4, <2>2, <3>1, <3>2
  <2>4. /\ authPc' = [authPc EXCEPT !["client"] = "ack", !["server"] = s]
        /\ authIn' = [authIn EXCEPT !["client"] = Tail(p), !["server"] = r]
    BY <1>6, AuthFacts DEF Auth!ClientAnswer, Auth!Goto, Auth!Written
  <2> HIDE DEF p, q, s, r
  <2>5. Exchange("ack", s, Tail(p), r, idLen, token, header, id)
    BY <1>4, <1>5, <1>6, <2>3 DEF Exchange
  <2>6. "ack" \in AuthPcs
    BY DEF AuthPcs
  <2>7. Exchange("ack", s, Tail(p), r, idLen', token', header', id')
    BY <1>1, <2>5
  <2>8. idLen' \in Nat /\ token' \in {Token, WrongToken} /\ header' \in Nat /\ authUp' \in BOOLEAN
    BY <1>1, AuthFacts
  <2>9. QED
    BY ONLY AuthInv, <1>3, <1>5, <2>3, <2>4, <2>6, <2>7, <2>8, AuthAfter
<1>7. CASE ~Auth!LengthFits(idLen)
  <2>1. /\ authPc' = [authPc EXCEPT !["client"] = "refused", !["server"] = s]
        /\ authIn' = [authIn EXCEPT !["client"] = Tail(p), !["server"] = q]
    BY <1>7, AuthFacts DEF Auth!ClientAnswer, Auth!Goto
  <2> HIDE DEF p, q, s
  <2>2. Exchange("refused", s, Tail(p), q, idLen, token, header, id)
    BY <1>2, <1>4 DEF Exchange
  <2>3. "refused" \in AuthPcs
    BY DEF AuthPcs, Auth!Returned
  <2>4. Exchange("refused", s, Tail(p), q, idLen', token', header', id')
    BY <1>1, <2>2
  <2>5. idLen' \in Nat /\ token' \in {Token, WrongToken} /\ header' \in Nat /\ authUp' \in BOOLEAN
    BY <1>1, AuthFacts
  <2>6. QED
    BY ONLY AuthInv, <1>3, <1>5, <2>1, <2>3, <2>4, <2>5, AuthAfter
<1>8. QED
  BY <1>6, <1>7

LEMMA AuthAcknowledged ==
    ASSUME AuthInv, Auth!ClientAck
    PROVE  AuthInv'
<1> DEFINE p == authIn["client"]
           q == authIn["server"]
           s == authPc["server"]
           c == IF Head(p) = <<"ack", 1>> THEN "ok" ELSE "rejected"
<1>1. /\ authPc["client"] = "ack" /\ p # <<>>
      /\ idLen' = idLen /\ token' = token /\ header' = header /\ id' = id /\ authUp' = authUp
  BY DEF Auth!ClientAck
<1>2. Exchange("ack", s, p, q, idLen, token, header, id)
  BY <1>1, AuthFacts
<1>3. p \in Seq(Units) /\ q \in Seq(Units) /\ s \in AuthPcs
  BY AuthFacts
<1>4. Len(p) \in Nat /\ Len(p) >= 1 /\ Head(p) = p[1] /\ Tail(p) \in Seq(Units)
  BY ONLY Rest, <1>1, <1>3
<1>5. /\ authPc' = [authPc EXCEPT !["client"] = c, !["server"] = s]
      /\ authIn' = [authIn EXCEPT !["client"] = Tail(p), !["server"] = q]
  BY AuthFacts DEF Auth!ClientAck, Auth!Goto
<1> HIDE DEF p, q, s
<1>6. (Head(p) = <<"ack", 1>> /\ s = "ok") \/ (Head(p) = <<"ack", 0>> /\ s = "rejected")
  BY <1>2, <1>4 DEF Exchange
<1>7. c \in {"ok", "rejected"} /\ c = s /\ c \in AuthPcs
  BY <1>6 DEF AuthPcs, Auth!Returned
<1> HIDE DEF c
<1>8. Exchange(c, s, Tail(p), q, idLen, token, header, id)
  BY <1>2, <1>7 DEF Exchange
<1>9. Exchange(c, s, Tail(p), q, idLen', token', header', id')
  BY <1>1, <1>8
<1>10. idLen' \in Nat /\ token' \in {Token, WrongToken} /\ header' \in Nat /\ authUp' \in BOOLEAN
  BY <1>1, AuthFacts
<1>11. QED
  BY ONLY AuthInv, <1>3, <1>4, <1>5, <1>7, <1>9, <1>10, AuthAfter

LEMMA AuthServerCalls ==
    ASSUME AuthInv, Auth!ServerCall
    PROVE  AuthInv'
<1> DEFINE p == authIn["client"]
           q == authIn["server"]
           c == authPc["client"]
<1>1. /\ authPc["server"] = "idle" /\ authPc' = [authPc EXCEPT !["server"] = "call"]
      /\ idLen' = idLen /\ token' = token /\ header' = header /\ id' = id
      /\ authIn' = authIn /\ authUp' = authUp
  BY DEF Auth!ServerCall, Auth!Goto
<1>2. Exchange(c, "idle", p, q, idLen, token, header, id)
  BY <1>1, AuthFacts
<1>3. p \in Seq(Units) /\ q \in Seq(Units) /\ c \in AuthPcs /\ "call" \in AuthPcs
  BY AuthFacts DEF AuthPcs
<1>4. /\ authPc' = [authPc EXCEPT !["client"] = c, !["server"] = "call"]
      /\ authIn' = [authIn EXCEPT !["client"] = p, !["server"] = q]
  BY <1>1, AuthFacts
<1>5. idLen' \in Nat /\ token' \in {Token, WrongToken} /\ header' \in Nat /\ authUp' \in BOOLEAN
  BY <1>1, AuthFacts
<1> HIDE DEF p, q, c
<1>6. Exchange(c, "call", p, q, idLen', token', header', id')
  BY <1>1, <1>2 DEF Exchange
<1>7. QED
  BY ONLY AuthInv, <1>3, <1>4, <1>5, <1>6, AuthAfter

LEMMA AuthSendsNonce ==
    ASSUME AuthInv, Auth!ServerNonce
    PROVE  AuthInv'
<1> DEFINE p == authIn["client"]
           q == authIn["server"]
           c == authPc["client"]
           r == IF authUp THEN p \o <<<<"nonce">>>> ELSE p
<1>1. /\ authPc["server"] = "call"
      /\ idLen' = idLen /\ token' = token /\ header' = header /\ id' = id /\ authUp' = authUp
  BY DEF Auth!ServerNonce
<1>2. Exchange(c, "call", p, q, idLen, token, header, id)
  BY <1>1, AuthFacts
<1>3. p \in Seq(Units) /\ q \in Seq(Units) /\ c \in AuthPcs
  BY AuthFacts
<1>4. /\ authPc' = [authPc EXCEPT !["client"] = c, !["server"] = "header"]
      /\ authIn' = [authIn EXCEPT !["client"] = r, !["server"] = q]
  BY AuthFacts DEF Auth!ServerNonce, Auth!Goto, Auth!Written, Auth!Nonce
<1>5. p = <<>> /\ c \in {"idle", "nonce", "failed"}
  BY <1>2 DEF Exchange
<1>6. r \in Seq(Units) /\ Len(r) <= 1
  <2>1. <<"nonce">> \in Units
    BY DEF Units
  <2>2. QED
    BY <1>5, <2>1
<1> HIDE DEF p, c, r
<1>7. q = <<>>
  BY <1>2 DEF Exchange
<1> HIDE DEF q
<1>8. Exchange(c, "header", r, q, idLen, token, header, id)
  <2>1. InPacket(idLen, token, 0, q)
    BY <1>7 DEF InPacket
  <2>2. QED
    BY <1>2, <1>5, <1>6, <1>7, <2>1 DEF Exchange
<1>9. Exchange(c, "header", r, q, idLen', token', header', id') /\ "header" \in AuthPcs
  BY <1>1, <1>8 DEF AuthPcs
<1>10. idLen' \in Nat /\ token' \in {Token, WrongToken} /\ header' \in Nat /\ authUp' \in BOOLEAN
  BY <1>1, AuthFacts
<1>11. QED
  BY ONLY AuthInv, <1>3, <1>4, <1>6, <1>9, <1>10, AuthAfter

LEMMA AuthReadsHeader ==
    ASSUME AuthInv, Auth!ServerHeader
    PROVE  AuthInv'
<1> DEFINE p == authIn["client"]
           q == authIn["server"]
           c == authPc["client"]
<1>1. /\ authPc["server"] = "header" /\ q # <<>> /\ header' = Head(q)[2]
      /\ idLen' = idLen /\ token' = token /\ id' = id /\ authUp' = authUp
  BY DEF Auth!ServerHeader
<1>2. Exchange(c, "header", p, q, idLen, token, header, id)
  BY <1>1, AuthFacts
<1>3. p \in Seq(Units) /\ q \in Seq(Units) /\ c \in AuthPcs /\ idLen \in Nat
  BY AuthFacts
<1>4. InPacket(idLen, token, 0, q) /\ Auth!LengthFits(idLen)
  BY <1>1, <1>2 DEF Exchange
<1>5. Head(q) = UnitAt(idLen, token, 1) /\ Tail(q) \in Seq(Units)
      /\ InPacket(idLen, token, 1, Tail(q))
  BY ONLY <1>1, <1>3, <1>4, InPacketRest
<1>6. header' = idLen /\ idLen # 0
  <2>1. idLen % Byte = idLen /\ idLen # 0
    BY <1>3, <1>4, ByteAssumption DEF Auth!LengthFits
  <2>2. Head(q) = <<"len", idLen % Byte>>
    BY <1>5 DEF UnitAt
  <2>3. QED
    BY <1>1, <2>1, <2>2
<1>7. /\ authPc' = [authPc EXCEPT !["client"] = c, !["server"] = "body"]
      /\ authIn' = [authIn EXCEPT !["client"] = p, !["server"] = Tail(q)]
  <2>1. header' # 0
    BY <1>6
  <2>2. /\ authPc' = [authPc EXCEPT !["server"] = "body"]
        /\ authIn' = [authIn EXCEPT !["server"] = Tail(q), !["client"] = p]
    BY <2>1, AuthFacts DEF Auth!ServerHeader, Auth!Goto
  <2>3. QED
    BY <2>2, AuthFacts
<1> HIDE DEF p, q, c
<1>8. Exchange(c, "body", p, Tail(q), idLen, token, idLen, id)
  BY <1>1, <1>2, <1>4, <1>5 DEF Exchange
<1>9. Exchange(c, "body", p, Tail(q), idLen', token', header', id') /\ "body" \in AuthPcs
  BY <1>1, <1>6, <1>8 DEF AuthPcs
<1>10. idLen' \in Nat /\ token' \in {Token, WrongToken} /\ header' \in Nat /\ authUp' \in BOOLEAN
  BY <1>1, <1>6, AuthFacts
<1>11. QED
  BY ONLY AuthInv, <1>3, <1>5, <1>7, <1>9, <1>10, AuthAfter

LEMMA AuthVerifies ==
    ASSUME AuthInv, Auth!ServerVerify
    PROVE  AuthInv'
<1> DEFINE p == authIn["client"]
           q == authIn["server"]
           c == authPc["client"]
           good == Auth!Verified(q)
           s == IF good THEN "ok" ELSE "rejected"
           v == Auth!Verdict(good)
           r == IF authUp THEN p \o v ELSE p
           t == SubSeq(q, header + 2, Len(q))
<1>1. /\ authPc["server"] = "body" /\ Len(q) > header
      /\ idLen' = idLen /\ token' = token /\ header' = header /\ authUp' = authUp
      /\ id' = IF good THEN SubSeq(q, 1, header) ELSE <<>>
  BY DEF Auth!ServerVerify
<1>2. Exchange(c, "body", p, q, idLen, token, header, id)
  BY <1>1, AuthFacts
<1>3. p \in Seq(Units) /\ q \in Seq(Units) /\ c \in AuthPcs /\ idLen \in Nat /\ header \in Nat
  BY AuthFacts
<1>4. header = idLen /\ Auth!LengthFits(idLen) /\ InPacket(idLen, token, 1, q) /\ idLen # 0
  BY <1>2 DEF Exchange, Auth!LengthFits
<1>5. /\ SubSeq(q, 1, header) = Auth!IdBytes(idLen)
      /\ good <=> token = Token
  <2>1. /\ SubSeq(q, 1, idLen) = Auth!IdBytes(idLen)
        /\ q[idLen + 1] = Auth!Mac(Token, SubSeq(q, 1, idLen)) <=> token = Token
    BY ONLY <1>1, <1>3, <1>4, VerifiedMeansToken
  <2>2. QED
    BY <1>4, <2>1 DEF Auth!Verified
<1>6. /\ authPc' = [authPc EXCEPT !["client"] = c, !["server"] = s]
      /\ authIn' = [authIn EXCEPT !["client"] = r, !["server"] = t]
  <2>1. /\ authPc' = [authPc EXCEPT !["server"] = s]
        /\ authIn' = [authIn EXCEPT !["server"] = t, !["client"] = r]
    BY AuthFacts DEF Auth!ServerVerify, Auth!Goto, Auth!Written
  <2>2. QED
    BY <2>1, AuthFacts
<1>7. t \in Seq(Units)
  <2>1. header + 1 \in 0..Len(q) /\ (header + 1) + 1 = header + 2
    BY <1>1, <1>3
  <2>2. SubSeq(q, (header + 1) + 1, Len(q)) \in Seq(Units)
    BY ONLY <1>3, <2>1, Suffix
  <2>3. QED
    BY <2>1, <2>2
<1> HIDE DEF good
<1>8. /\ v \in Seq(Units) /\ Len(v) = 1 /\ v[1] = IF good THEN <<"ack", 1>> ELSE <<"ack", 0>>
  <2>1. <<"ack", 1>> \in Units /\ <<"ack", 0>> \in Units
    BY DEF Units
  <2>2. QED
    BY <2>1 DEF Auth!Verdict
<1>9. s \in {"ok", "rejected"} /\ (s = "ok" <=> good) /\ s \in AuthPcs
  BY DEF AuthPcs, Auth!Returned
<1> HIDE DEF t, v, s
<1>10. c \notin {"idle", "nonce", "ok", "rejected"}
  BY <1>2 DEF Exchange
<1>11. r \in Seq(Units)
  BY <1>3, <1>8, Behind
<1>12. c = "ack" => \A j \in 1..Len(r) : \/ r[j] = <<"ack", 1>> /\ s = "ok"
                                         \/ r[j] = <<"ack", 0>> /\ s = "rejected"
  <2> SUFFICES ASSUME c = "ack"
               PROVE  \A j \in 1..Len(r) : \/ r[j] = <<"ack", 1>> /\ s = "ok"
                                           \/ r[j] = <<"ack", 0>> /\ s = "rejected"
    OBVIOUS
  <2>1. \A j \in 1..Len(p) : FALSE
    BY <1>2 DEF Exchange
  <2>2. Len(p) = 0 /\ p = <<>>
    BY ONLY <1>3, <2>1
  <2>3. CASE authUp
    <3>1. r = v
      BY <1>8, <2>2, <2>3
    <3> HIDE DEF r
    <3>2. Len(r) = 1 /\ \A j \in 1..1 : j = 1
      BY <1>8, <3>1
    <3>3. QED
      BY <1>8, <1>9, <3>1, <3>2
  <2>4. CASE ~authUp
    BY <2>1, <2>4
  <2>5. QED
    BY <2>3, <2>4
<1> HIDE DEF p, q, c, r
<1>13. Exchange(c, s, r, t, idLen, token, header, id')
  BY <1>1, <1>2, <1>4, <1>5, <1>9, <1>10, <1>12 DEF Exchange
<1>14. Exchange(c, s, r, t, idLen', token', header', id')
  BY <1>1, <1>13
<1>15. idLen' \in Nat /\ token' \in {Token, WrongToken} /\ header' \in Nat /\ authUp' \in BOOLEAN
  BY <1>1, AuthFacts
<1>16. QED
  BY ONLY AuthInv, <1>3, <1>6, <1>7, <1>9, <1>11, <1>14, <1>15, AuthAfter

LEMMA AuthFails ==
    ASSUME AuthInv, NEW e \in Auth!Ends, Auth!Fail(e)
    PROVE  AuthInv'
<1> DEFINE p == authIn["client"]
           q == authIn["server"]
           c == authPc["client"]
           s == authPc["server"]
<1>1. /\ authPc' = [authPc EXCEPT ![e] = "failed"]
      /\ authPc[e] \in {"ack", "header", "nonce", "call", "body"}
      /\ idLen' = idLen /\ token' = token /\ header' = header /\ id' = id
      /\ authIn' = authIn /\ authUp' = authUp
  BY DEF Auth!Fail, Auth!Goto
<1>2. Exchange(c, s, p, q, idLen, token, header, id)
  BY AuthFacts
<1>3. p \in Seq(Units) /\ q \in Seq(Units) /\ c \in AuthPcs /\ s \in AuthPcs
      /\ "failed" \in AuthPcs
  BY AuthFacts DEF AuthPcs, Auth!Returned
<1>4. idLen' \in Nat /\ token' \in {Token, WrongToken} /\ header' \in Nat /\ authUp' \in BOOLEAN
  BY <1>1, AuthFacts
<1>5. authIn' = [authIn EXCEPT !["client"] = p, !["server"] = q]
  BY <1>1, AuthFacts
<1>6. CASE e = "client"
  <2>1. authPc' = [authPc EXCEPT !["client"] = "failed", !["server"] = s]
    BY <1>1, <1>6, AuthFacts
  <2>2. Exchange("failed", s, p, q, idLen, token, header, id)
    BY <1>1, <1>2, <1>6 DEF Exchange
  <2>3. Exchange("failed", s, p, q, idLen', token', header', id')
    BY <1>1, <2>2
  <2> HIDE DEF p, q, c, s
  <2>4. QED
    BY ONLY AuthInv, <1>3, <1>4, <1>5, <2>1, <2>3, AuthAfter
<1>7. CASE e = "server"
  <2>1. authPc' = [authPc EXCEPT !["client"] = c, !["server"] = "failed"]
    BY <1>1, <1>7, AuthFacts
  <2>2. s \notin {"ok", "rejected"}
    BY <1>1, <1>7
  <2> HIDE DEF p, q, c, s
  <2>3. Exchange(c, "failed", p, q, idLen, token, header, id)
    BY <1>2, <2>2 DEF Exchange
  <2>4. Exchange(c, "failed", p, q, idLen', token', header', id')
    BY <1>1, <2>3
  <2>5. QED
    BY ONLY AuthInv, <1>3, <1>4, <1>5, <2>1, <2>4, AuthAfter
<1>8. QED
  BY <1>6, <1>7 DEF Auth!Ends

LEMMA AuthBreaks ==
    ASSUME AuthInv, Auth!Break
    PROVE  AuthInv'
<1> DEFINE p == authIn["client"]
           q == authIn["server"]
           c == authPc["client"]
           s == authPc["server"]
<1>1. PICK a \in 0..Len(p), b \in 0..Len(q) :
         authIn' = [authIn EXCEPT !["client"] = SubSeq(p, 1, a), !["server"] = SubSeq(q, 1, b)]
  BY DEF Auth!Break
<1>2. /\ authPc' = authPc /\ idLen' = idLen /\ token' = token /\ header' = header /\ id' = id
      /\ authUp' = FALSE
  BY DEF Auth!Break
<1>3. Exchange(c, s, p, q, idLen, token, header, id)
  BY AuthFacts
<1>4. p \in Seq(Units) /\ q \in Seq(Units) /\ c \in AuthPcs /\ s \in AuthPcs /\ idLen \in Nat
  BY AuthFacts
<1>5. authPc' = [authPc EXCEPT !["client"] = c, !["server"] = s]
  BY <1>2, AuthFacts
<1> HIDE DEF p, q, c, s
<1>6. /\ SubSeq(p, 1, a) \in Seq(Units) /\ Len(SubSeq(p, 1, a)) = a
      /\ \A i \in 1..a : SubSeq(p, 1, a)[i] = p[i]
  BY ONLY Prefix, <1>4, a \in 0..Len(p)
<1>7. SubSeq(q, 1, b) \in Seq(Units) /\ Len(SubSeq(q, 1, b)) = b
  BY ONLY Prefix, <1>4, b \in 0..Len(q)
<1>8. /\ p = <<>> => SubSeq(p, 1, a) = <<>>
      /\ Len(p) <= 1 => Len(SubSeq(p, 1, a)) <= 1
      /\ \A i \in 1..a : i \in 1..Len(p)
  BY <1>4, <1>6
<1>9. q = <<>> => SubSeq(q, 1, b) = <<>>
  BY <1>4, <1>7
<1>10. \A n \in {0, 1} : InPacket(idLen, token, n, q) => InPacket(idLen, token, n, SubSeq(q, 1, b))
  BY <1>4, InPacketPrefix
<1>11. Exchange(c, s, SubSeq(p, 1, a), SubSeq(q, 1, b), idLen, token, header, id)
  BY <1>3, <1>6, <1>8, <1>9, <1>10 DEF Exchange
<1>12. Exchange(c, s, SubSeq(p, 1, a), SubSeq(q, 1, b), idLen', token', header', id')
  BY <1>2, <1>11
<1>13. idLen' \in Nat /\ token' \in {Token, WrongToken} /\ header' \in Nat /\ authUp' \in BOOLEAN
  BY <1>2, AuthFacts
<1>14. QED
  BY ONLY AuthInv, <1>1, <1>4, <1>5, <1>6, <1>7, <1>12, <1>13, AuthAfter

LEMMA AuthInit == Init => AuthInv
<1> SUFFICES ASSUME Auth!Init PROVE AuthInv
  BY DEF Init, PartsInit
<1>1. AuthType
  BY DEF Auth!Init, AuthType, AuthPcs, Auth!Returned
<1>2. /\ authPc["client"] = "idle" /\ authPc["server"] = "idle"
      /\ authIn["client"] = <<>> /\ authIn["server"] = <<>>
  BY DEF Auth!Init, Auth!Ends
<1>3. QED
  BY <1>1, <1>2 DEF AuthInv, Exchange

\* The steps of the other parts do not concern the authentication.
LEMMA AuthKept == AuthInv /\ [Next]_vars => AuthInv'
<1> SUFFICES ASSUME AuthInv, [Next]_vars PROVE AuthInv'
  OBVIOUS
<1>1. CASE AuthStep
  BY <1>1, AuthCalls, AuthAnswers, AuthAcknowledged, AuthServerCalls, AuthSendsNonce,
     AuthReadsHeader, AuthVerifies, AuthFails, AuthBreaks
     DEF AuthStep, Auth!Next, Auth!Client, Auth!Server, Auth!Ends
<1>2. CASE UNCHANGED authVars
  BY <1>2 DEF authVars, AuthInv, AuthType
<1>3. QED
  BY <1>1, <1>2 DEF Next, JunkStep, PipeStep, UdpStep, BootStep, vars

\* The exchange keeps its order: nonce, packet, verdict, wherever it is cut off.
THEOREM AuthInvariance == Spec => []AuthInv
BY AuthInit, AuthKept, PTL DEF Spec

\* A server that accepts has the token proved to it and the id as the client holds
\* it; a client that returns without an error was accepted.
THEOREM EndsAgree == Spec => []Agreement
<1>1. AuthInv => Agreement
  BY DEF AuthInv, Exchange, Agreement, Auth!Agreement
<1>2. QED
  BY <1>1, AuthInvariance, PTL

\* Neither end reports a rejection to a client with the right token, whatever the
\* length of its id and wherever the connection breaks.
THEOREM RejectionMeansToken == Spec => []RejectedForToken
<1>1. AuthInv => RejectedForToken
  BY DEF AuthInv, Exchange, RejectedForToken, Auth!RejectedForToken, Auth!Ends
<1>2. QED
  BY <1>1, AuthInvariance, PTL

-----------------------------------------------------------------------------
(* UdpOverTcp: ForwardUDPOverTCP *)

UdpType ==
    /\ framer \in [Udp!Ends -> {"read", "length", "body", "ended"}]
    /\ unframer \in [Udp!Ends -> {"length", "body", "write", "ended"}]
    /\ stream \in [Udp!Ends -> Seq(Nat)]
    /\ need \in [Udp!Ends -> Nat]
    /\ data \in [Udp!Ends -> Seq(Nat)]
    /\ taken \in [Udp!Ends -> Seq(Udp!Packets)]
    /\ delivered \in [Udp!Ends -> Seq(Seq(Nat))]

\* off[k] is where the frame of datagram k ends, in the stream of all frames of D.
Offsets(D, off) ==
    /\ off \in [0..Len(D) -> Nat]
    /\ \A k \in 1..Len(D) : off[k] = off[k - 1] + 2 + Len(D[k])
    /\ \A a, b \in 0..Len(D) : a <= b => off[a] <= off[b]

\* Byte j of the frame of datagram d.
FrameByte(d, j) == IF j <= 2 THEN Udp!Prefix(Len(d))[j] ELSE d[j - 2]

\* s is cut out of the stream of all frames behind its first c bytes.
Cut(D, off, c, s) ==
    \A k \in 1..Len(D) : \A j \in 1..(2 + Len(D[k])), p \in 1..Len(s) :
        c + p = off[k - 1] + j => s[p] = FrameByte(D[k], j)

\* How far a framer has written and an unframer, after m datagrams, has read.
Produced(D, off, fr) ==
    IF fr = "read" THEN off[Len(D)]
    ELSE off[Len(D) - 1] + (IF fr = "length" THEN 0 ELSE 2)
Consumed(off, un, m) ==
    IF un = "write" THEN off[m + 1] ELSE off[m] + (IF un = "length" THEN 0 ELSE 2)

\* Between them, when the unframer has read c bytes, is s.
Wire(D, off, fr, c, s) ==
    /\ Offsets(D, off)
    /\ Cut(D, off, c, s)
    /\ c + Len(s) <= off[Len(D)]
    /\ fr # "ended" => c + Len(s) = Produced(D, off, fr)

\* One direction: the framer fr has taken D, the unframer un has delivered m of them
\* and holds the length nd or the datagram dt, and s is on its way between them.
Flow(D, fr, un, s, nd, dt, m) ==
    /\ un # "ended"
    /\ m <= Len(D)
    /\ un \in {"body", "write"} => m < Len(D)
    /\ un = "body" => nd = Len(D[m + 1])
    /\ un = "write" => dt = D[m + 1]
    /\ fr \in {"length", "body"} => Len(D) >= 1
    /\ \E off : Wire(D, off, fr, Consumed(off, un, m), s)

\* While an end is open, what it reads is in step with what the other end wrote.
InStep(e) ==
    e \notin closed => Flow(taken[Udp!Other(e)], framer[Udp!Other(e)], unframer[e], stream[e],
                           need[e], data[e], Len(delivered[e]))

UdpInv == UdpType /\ \A e \in Udp!Ends : InStep(e)

\* The two bytes of the length hold it.
LEMMA LengthSurvives ==
    ASSUME NEW n \in Sizes
    PROVE  /\ n \in Nat /\ Udp!Prefix(n) \in Seq(Nat) /\ Len(Udp!Prefix(n)) = 2
           /\ Udp!Prefix(n)[1] * UdpByte + Udp!Prefix(n)[2] = n
<1> DEFINE B == UdpByte
<1>1. B \in Nat /\ B > 0 /\ n \in Nat /\ n < B * B
  BY UdpAssumption
<1> HIDE DEF B
<1>2. PICK q \in Nat, r \in Nat : q = n \div B /\ r = n % B /\ r < B /\ n = q * B + r
  BY <1>1, Z3
<1>3. q < B
  <2> SUFFICES ASSUME q >= B PROVE FALSE
    BY <1>1
  <2>1. q * B >= B * B
    BY <1>1, Z3
  <2>2. QED
    BY <1>1, <1>2, <2>1, Z3
<1>4. q % B = q
  BY <1>1, <1>3
<1>5. Udp!Prefix(n) = <<q, r>>
  BY <1>2, <1>4 DEF Udp!Prefix, B
<1>6. <<q, r>> \in Seq(Nat) /\ Len(<<q, r>>) = 2 /\ <<q, r>>[1] = q /\ <<q, r>>[2] = r
  OBVIOUS
<1>7. QED
  BY ONLY <1>1, <1>2, <1>5, <1>6 DEF B

LEMMA UdpPacketFacts ==
    ASSUME NEW d \in Udp!Packets
    PROVE  d \in Seq(Nat) /\ Len(d) \in Sizes /\ Len(d) \in Nat
<1>1. PICK k \in 1..Datagrams, n \in Sizes : d = Udp!Datagram(k, n)
  BY DEF Udp!Packets
<1>2. n \in Nat /\ k \in Nat
  BY UdpAssumption
<1>3. QED
  BY <1>1, <1>2 DEF Udp!Datagram

\* The frame of d, as it is written in two pieces and read in two.
LEMMA FrameBytes ==
    ASSUME NEW d \in Udp!Packets
    PROVE  /\ \A j \in 1..2 : FrameByte(d, 0 + j) = Udp!Prefix(Len(d))[j]
           /\ \A j \in 1..Len(d) : FrameByte(d, 2 + j) = d[j]
<1>1. Len(d) \in Nat
  BY UdpPacketFacts
<1>2. \A j \in 1..2 : 0 + j <= 2 /\ 0 + j = j
  OBVIOUS
<1>3. \A j \in 1..Len(d) : ~(2 + j <= 2) /\ (2 + j) - 2 = j
  BY <1>1
<1>4. \A j \in 1..2 : FrameByte(d, 0 + j) = Udp!Prefix(Len(d))[j]
  BY <1>2 DEF FrameByte
<1>5. \A j \in 1..Len(d) : FrameByte(d, 2 + j) = d[j]
  BY <1>3 DEF FrameByte
<1>6. QED
  BY <1>4, <1>5

\* One more datagram is taken: its frame begins where the last one ends.
LEMMA WireTakes ==
    ASSUME NEW D \in Seq(Udp!Packets), NEW d \in Udp!Packets, NEW off, NEW c \in Nat,
           NEW s \in Seq(Nat), Wire(D, off, "read", c, s)
    PROVE  \E new : /\ Wire(Append(D, d), new, "length", c, s)
                    /\ \A k \in 0..Len(D) : new[k] = off[k]
<1> DEFINE E == Append(D, d)
<1>1. PICK K \in Nat : K = Len(D)
  OBVIOUS
<1>2. /\ E \in Seq(Udp!Packets) /\ Len(E) = K + 1 /\ E[K + 1] = d
      /\ \A k \in 1..K : E[k] = D[k]
  BY <1>1
<1> HIDE DEF E
<1>3. PICK l \in Nat : l = Len(d)
  BY UdpPacketFacts
<1>4. PICK L \in Nat : L = Len(s)
  OBVIOUS
<1>5. /\ off \in [0..K -> Nat]
      /\ \A k \in 1..K : off[k] = off[k - 1] + 2 + Len(D[k])
      /\ \A a, b \in 0..K : a <= b => off[a] <= off[b]
      /\ c + L = off[K]
  BY <1>1, <1>4 DEF Wire, Offsets, Produced
<1> DEFINE new == [k \in 0..(K + 1) |-> IF k <= K THEN off[k] ELSE off[K] + 2 + l]
<1>6. /\ new \in [0..(K + 1) -> Nat] /\ new[K + 1] = off[K] + 2 + l
      /\ \A k \in 0..K : new[k] = off[k]
  BY <1>1, <1>3, <1>5
<1> HIDE DEF new
<1>7. \A k \in 0..K : off[k] \in Nat /\ off[k] <= off[K]
  <2>1. K \in 0..K /\ \A k \in 0..K : k <= K
    BY ONLY K \in Nat
  <2>2. QED
    BY ONLY <1>5, <2>1
<1>8. Offsets(E, new)
  <2>1. ASSUME NEW k \in 1..(K + 1)
        PROVE  new[k] = new[k - 1] + 2 + Len(E[k])
    <3>1. CASE k \in 1..K
      <4>1. k \in 0..K /\ k - 1 \in 0..K
        BY <3>1
      <4>2. QED
        BY <1>2, <1>5, <1>6, <3>1, <4>1
    <3>2. CASE k = K + 1
      <4>1. k - 1 = K /\ K \in 0..K
        BY <3>2
      <4>2. QED
        BY <1>2, <1>3, <1>6, <3>2, <4>1
    <3>3. QED
      BY <3>1, <3>2
  <2>2. ASSUME NEW a \in 0..(K + 1), NEW b \in 0..(K + 1), a <= b
        PROVE  new[a] <= new[b]
    <3>1. CASE b \in 0..K
      <4>1. a \in 0..K
        BY <2>2, <3>1
      <4>2. QED
        BY <1>5, <1>6, <2>2, <3>1, <4>1
    <3>2. CASE b = K + 1 /\ a \in 0..K
      BY <1>3, <1>6, <1>7, <3>2
    <3>3. CASE b = K + 1 /\ a = K + 1
      BY <1>3, <1>6, <1>7, <3>3
    <3>4. QED
      BY <2>2, <3>1, <3>2, <3>3
  <2>3. QED
    BY ONLY <1>2, <1>6, <2>1, <2>2 DEF Offsets
<1>9. ASSUME NEW k \in 1..(K + 1), NEW j \in 1..(2 + Len(E[k])), NEW p \in 1..L,
             c + p = new[k - 1] + j
      PROVE  s[p] = FrameByte(E[k], j)
  <2>1. CASE k \in 1..K
    <3>1. k - 1 \in 0..K /\ E[k] = D[k]
      BY <1>2, <2>1
    <3>2. c + p = off[k - 1] + j /\ j \in 1..(2 + Len(D[k]))
      BY <1>6, <1>9, <3>1
    <3>3. Cut(D, off, c, s)
      BY DEF Wire
    <3>4. QED
      BY <1>1, <1>4, <2>1, <3>1, <3>2, <3>3 DEF Cut
  <2>2. CASE k = K + 1
    <3>1. k - 1 = K /\ K \in 0..K
      BY <2>2
    <3>2. c + p = (c + L) + j
      BY <1>5, <1>6, <1>9, <3>1
    <3>3. j \in Nat /\ j >= 1
      <4>1. Len(E[k]) = l
        BY <1>2, <1>3, <2>2
      <4>2. QED
        BY <4>1
    <3>4. QED
      BY <3>2, <3>3
  <2>3. QED
    BY <2>1, <2>2
<1>10. /\ c + L <= new[K + 1]
       /\ c + L = Produced(E, new, "length")
  <2>1. (K + 1) - 1 = K /\ K \in 0..K /\ off[K] + 0 = off[K] /\ off[K] <= off[K] + 2 + l
    BY <1>3, <1>7
  <2>2. c + L <= new[K + 1]
    BY <1>5, <1>6, <2>1
  <2>3. Produced(E, new, "length") = new[(K + 1) - 1] + 0
    BY <1>2 DEF Produced
  <2>4. QED
    BY <1>5, <1>6, <2>1, <2>2, <2>3
<1>11. Wire(E, new, "length", c, s)
  <2>1. Cut(E, new, c, s)
    BY ONLY <1>2, <1>4, <1>9 DEF Cut
  <2>2. QED
    BY <1>2, <1>4, <1>8, <1>10, <2>1 DEF Wire
<1>12. QED
  BY <1>1, <1>6, <1>11 DEF E

\* w is the piece of the last frame that comes behind its first i bytes, and s ends there.
NextPiece(D, off, c, s, w, i) ==
    LET K == Len(D)
    IN  /\ K >= 1 /\ c + Len(s) = off[K - 1] + i
        /\ i + Len(w) <= 2 + Len(D[K])
        /\ \A j \in 1..Len(w) : FrameByte(D[K], i + j) = w[j]

LEMMA WireGrows ==
    ASSUME NEW D \in Seq(Udp!Packets), NEW off, NEW c \in Nat, NEW s \in Seq(Nat),
           NEW w \in Seq(Nat), NEW i \in Nat,
           Offsets(D, off), Cut(D, off, c, s), NextPiece(D, off, c, s, w, i)
    PROVE  /\ s \o w \in Seq(Nat)
           /\ Cut(D, off, c, s \o w)
           /\ c + Len(s \o w) = off[Len(D) - 1] + (i + Len(w))
           /\ c + Len(s \o w) <= off[Len(D)]
<1> DEFINE t == s \o w
<1>1. PICK K \in Nat : K = Len(D)
  OBVIOUS
<1>2. /\ K >= 1 /\ c + Len(s) = off[K - 1] + i
      /\ i + Len(w) <= 2 + Len(D[K])
      /\ \A j \in 1..Len(w) : FrameByte(D[K], i + j) = w[j]
  BY <1>1 DEF NextPiece
<1>3. PICK L \in Nat : L = Len(s)
  OBVIOUS
<1>4. PICK M \in Nat : M = Len(w)
  OBVIOUS
<1>5. /\ t \in Seq(Nat) /\ Len(t) = L + M
      /\ \A p \in 1..(L + M) : t[p] = IF p <= L THEN s[p] ELSE w[p - L]
  <2>1. /\ t \in Seq(Nat) /\ Len(t) = Len(s) + Len(w)
        /\ \A p \in 1..(Len(s) + Len(w)) : t[p] = IF p <= Len(s) THEN s[p] ELSE w[p - Len(s)]
    BY ONLY Behind, s \in Seq(Nat), w \in Seq(Nat)
  <2>2. QED
    BY ONLY <1>3, <1>4, <2>1
<1> HIDE DEF t
<1>6. K \in 1..K /\ K - 1 \in 0..K /\ D[K] \in Udp!Packets /\ K \in 1..Len(D)
  BY <1>1, <1>2
<1>7. PICK l \in Nat : l = Len(D[K])
  BY <1>6, UdpPacketFacts
<1>8. PICK o \in Nat : o = off[K - 1]
  BY <1>1, <1>6 DEF Offsets
<1>9. off[K] = o + 2 + l
  BY <1>6, <1>7, <1>8 DEF Offsets
<1>10. c + L = o + i /\ i + M <= 2 + l
  BY <1>3, <1>4, <1>7, <1>8, <1>2
<1>11. ASSUME NEW k \in 1..K, NEW j \in 1..(2 + Len(D[k])), NEW p \in 1..(L + M),
             c + p = off[k - 1] + j
      PROVE  t[p] = FrameByte(D[k], j)
  <2>1. CASE p <= L
    <3>1. p \in 1..L /\ t[p] = s[p]
      BY <1>3, <1>5, <2>1
    <3>2. QED
      BY <1>1, <1>3, <1>11, <3>1 DEF Cut
  <2>2. CASE ~(p <= L)
    <3>1. PICK x \in 1..M : p = L + x
      <4>1. p - L \in 1..M /\ p = L + (p - L)
        BY ONLY p \in 1..(L + M), L \in Nat, M \in Nat, <2>2
      <4>2. QED
        BY ONLY <4>1
    <3>2. t[p] = w[x]
      <4>1. p - L = x
        BY <3>1
      <4>2. QED
        BY <1>5, <2>2, <4>1
    <3>3. off[k - 1] + j = o + (i + x)
      <4>1. c + p = o + (i + x)
        BY ONLY <1>10, <3>1, c \in Nat, L \in Nat, o \in Nat, i \in Nat, x \in 1..M, M \in Nat
      <4>2. QED
        BY ONLY <1>11, <4>1
    <3>4. k = K
      <4> SUFFICES ASSUME k # K PROVE FALSE
        OBVIOUS
      <4>1. k \in 0..K /\ k - 1 \in 0..K /\ k <= K - 1 /\ k \in 1..Len(D)
        BY <1>1
      <4>2. off[k] <= o /\ off[k] = off[k - 1] + 2 + Len(D[k])
        BY <1>1, <1>6, <1>8, <4>1 DEF Offsets
      <4>3. PICK y \in Nat : y = off[k - 1]
        BY <1>1, <4>1 DEF Offsets
      <4>4. PICK z \in Nat : z = Len(D[k])
        BY <4>1, UdpPacketFacts
      <4>5. y + 2 + z <= o /\ y + j = o + (i + x) /\ j <= 2 + z /\ j \in Nat
        BY <3>3, <4>2, <4>3, <4>4
      <4>6. QED
        BY ONLY <4>5, o \in Nat, i \in Nat, x \in 1..M, M \in Nat, y \in Nat, z \in Nat
    <3>5. j = i + x
      <4>1. j \in Nat
        BY <1>7, <3>4
      <4>2. o + j = o + (i + x)
        BY <1>8, <3>3, <3>4
      <4>3. QED
        BY ONLY <4>1, <4>2, o \in Nat, i \in Nat, x \in 1..M, M \in Nat
    <3>6. FrameByte(D[K], i + x) = w[x]
      BY <1>4, <1>2
    <3>7. QED
      BY <3>2, <3>4, <3>5, <3>6
  <2>3. QED
    BY <2>1, <2>2
<1>12. Cut(D, off, c, t)
  BY ONLY <1>1, <1>5, <1>11 DEF Cut
<1>13. c + (L + M) = o + (i + M) /\ c + (L + M) <= o + 2 + l
  BY ONLY <1>10, c \in Nat, L \in Nat, M \in Nat, o \in Nat, i \in Nat, l \in Nat
<1>14. QED
  BY <1>1, <1>3, <1>4, <1>5, <1>8, <1>9, <1>12, <1>13 DEF t

\* The first n bytes are read.
LEMMA WireShrinks ==
    ASSUME NEW D \in Seq(Udp!Packets), NEW off, NEW fr, NEW c \in Nat, NEW s \in Seq(Nat),
           NEW n \in 0..Len(s), Wire(D, off, fr, c, s)
    PROVE  LET t == SubSeq(s, n + 1, Len(s))
           IN  t \in Seq(Nat) /\ Wire(D, off, fr, c + n, t)
<1> DEFINE t == SubSeq(s, n + 1, Len(s))
<1>1. PICK L \in Nat : L = Len(s)
  OBVIOUS
<1>2. t \in Seq(Nat) /\ Len(t) = L - n /\ \A p \in 1..(L - n) : t[p] = s[p + n]
  <2>1. t \in Seq(Nat) /\ Len(t) = Len(s) - n /\ \A p \in 1..(Len(s) - n) : t[p] = s[p + n]
    BY ONLY Suffix, s \in Seq(Nat), n \in 0..Len(s)
  <2>2. QED
    BY ONLY <1>1, <2>1
<1> HIDE DEF t
<1>3. ASSUME NEW k \in 1..Len(D), NEW j \in 1..(2 + Len(D[k])), NEW p \in 1..(L - n),
             (c + n) + p = off[k - 1] + j
      PROVE  t[p] = FrameByte(D[k], j)
  <2>1. p + n \in 1..L /\ c + (p + n) = (c + n) + p
    BY <1>1
  <2>2. Cut(D, off, c, s) /\ c + (p + n) = off[k - 1] + j
    BY <1>3, <2>1 DEF Wire
  <2>3. s[p + n] = FrameByte(D[k], j)
    BY <1>1, <2>1, <2>2 DEF Cut
  <2>4. QED
    BY <1>2, <2>3
<1>4. (c + n) + (L - n) = c + L
  BY <1>1
<1>5. (c + n) + Len(t) = c + Len(s)
  BY <1>1, <1>2, <1>4
<1>6. Wire(D, off, fr, c + n, t)
  <2>1. Cut(D, off, c + n, t)
    BY ONLY <1>2, <1>3 DEF Cut
  <2>2. QED
    BY <1>5, <2>1 DEF Wire
<1>7. QED
  BY <1>2, <1>6 DEF t

Unframing == {"length", "body", "write"}

\* How far the unframer has read is a number.
LEMMA ConsumedNat ==
    ASSUME NEW D \in Seq(Udp!Packets), NEW off, NEW un \in Unframing, NEW m \in Nat,
           Offsets(D, off), m <= Len(D), un \in {"body", "write"} => m < Len(D)
    PROVE  Consumed(off, un, m) \in Nat /\ off[m] \in Nat
<1>1. PICK K \in Nat : K = Len(D)
  OBVIOUS
<1>2. m \in 0..K /\ (un = "write" => m + 1 \in 0..K)
  BY <1>1
<1>3. \A k \in 0..K : off[k] \in Nat
  BY <1>1 DEF Offsets
<1>4. QED
  BY <1>2, <1>3 DEF Consumed, Unframing

LEMMA FlowTakes ==
    ASSUME NEW D \in Seq(Udp!Packets), NEW d \in Udp!Packets, NEW un \in Unframing,
           NEW s \in Seq(Nat), NEW nd, NEW dt, NEW m \in Nat, Flow(D, "read", un, s, nd, dt, m)
    PROVE  Flow(Append(D, d), "length", un, s, nd, dt, m)
<1> DEFINE E == Append(D, d)
<1>1. PICK K \in Nat : K = Len(D)
  OBVIOUS
<1>2. Len(E) = K + 1 /\ \A k \in 1..K : E[k] = D[k]
  BY <1>1
<1>3. /\ m <= K /\ (un \in {"body", "write"} => m < K)
      /\ un = "body" => nd = Len(D[m + 1])
      /\ un = "write" => dt = D[m + 1]
  BY <1>1 DEF Flow
<1>4. PICK off : Wire(D, off, "read", Consumed(off, un, m), s)
  BY DEF Flow
<1>5. Consumed(off, un, m) \in Nat
  BY <1>1, <1>3, <1>4, ConsumedNat DEF Wire
<1>6. PICK new : /\ Wire(E, new, "length", Consumed(off, un, m), s)
                 /\ \A k \in 0..Len(D) : new[k] = off[k]
  BY ONLY <1>4, <1>5, WireTakes, D \in Seq(Udp!Packets), d \in Udp!Packets, s \in Seq(Nat)
<1> HIDE DEF E
<1>7. m \in 0..K /\ (un = "write" => m + 1 \in 0..K)
      /\ (un \in {"body", "write"} => m + 1 \in 1..K)
  BY <1>3
<1>8. Consumed(new, un, m) = Consumed(off, un, m)
  BY <1>1, <1>6, <1>7 DEF Consumed
<1>9. \E x : Wire(E, x, "length", Consumed(x, un, m), s)
  BY <1>6, <1>8
<1>10. m <= K + 1 /\ (un \in {"body", "write"} => m < K + 1) /\ K + 1 >= 1
  BY <1>3
<1>11. /\ un = "body" => nd = Len(E[m + 1])
       /\ un = "write" => dt = E[m + 1]
  BY <1>2, <1>3, <1>7
<1>12. Flow(E, "length", un, s, nd, dt, m)
  BY <1>2, <1>9, <1>10, <1>11 DEF Flow, Unframing
<1>13. QED
  BY <1>12 DEF E

LEMMA FlowWrites ==
    ASSUME NEW D \in Seq(Udp!Packets), NEW fr \in {"length", "body"}, NEW un \in Unframing,
           NEW s \in Seq(Nat), NEW nd, NEW dt, NEW m \in Nat, Flow(D, fr, un, s, nd, dt, m)
    PROVE  LET d == D[Len(D)]
               w == IF fr = "length" THEN Udp!Prefix(Len(d)) ELSE d
           IN  /\ s \o w \in Seq(Nat)
               /\ Flow(D, IF fr = "length" THEN "body" ELSE "read", un, s \o w, nd, dt, m)
<1> DEFINE d == D[Len(D)]
           w == IF fr = "length" THEN Udp!Prefix(Len(d)) ELSE d
           i == IF fr = "length" THEN 0 ELSE 2
           q == IF fr = "length" THEN "body" ELSE "read"
<1>1. PICK K \in Nat : K = Len(D) /\ K >= 1
  BY DEF Flow
<1>2. d = D[K] /\ d \in Udp!Packets
  BY <1>1
<1>3. d \in Seq(Nat) /\ Len(d) \in Nat /\ Len(d) \in Sizes
  BY <1>2, UdpPacketFacts
<1>4. PICK off : Wire(D, off, fr, Consumed(off, un, m), s)
  BY DEF Flow
<1>5. PICK c \in Nat : c = Consumed(off, un, m)
  BY <1>4, ConsumedNat DEF Flow, Wire
<1>6. Offsets(D, off) /\ Cut(D, off, c, s) /\ c + Len(s) = off[K - 1] + i
  BY <1>1, <1>4, <1>5 DEF Wire, Produced
<1>7. /\ w \in Seq(Nat) /\ i \in Nat /\ i + Len(w) <= 2 + Len(d)
      /\ \A j \in 1..Len(w) : FrameByte(d, i + j) = w[j]
      /\ i + Len(w) = IF fr = "length" THEN 2 ELSE 2 + Len(d)
  <2>1. CASE fr = "length"
    <3>1. w = Udp!Prefix(Len(d)) /\ i = 0
      BY <2>1
    <3>2. w \in Seq(Nat) /\ Len(w) = 2
      BY <1>3, <3>1, LengthSurvives
    <3>3. \A j \in 1..2 : FrameByte(d, 0 + j) = w[j]
      BY <1>2, <3>1, FrameBytes
    <3>4. QED
      <4>1. \A a \in Nat : 2 <= 2 + a
        OBVIOUS
      <4>2. 2 <= 2 + Len(d) /\ 0 \in Nat /\ 0 + 2 = 2
        BY ONLY <1>3, <4>1
      <4>3. \A j \in 1..Len(w) : FrameByte(d, i + j) = w[j]
        BY ONLY <3>1, <3>2, <3>3
      <4>4. QED
        BY ONLY <2>1, <3>1, <3>2, <4>2, <4>3
  <2>2. CASE fr = "body"
    <3>1. w = d /\ i = 2
      BY <2>2
    <3>2. \A j \in 1..Len(d) : FrameByte(d, 2 + j) = d[j]
      BY <1>2, FrameBytes
    <3>3. QED
      BY ONLY <1>3, <2>2, <3>1, <3>2
  <2>3. QED
    BY <2>1, <2>2
<1> HIDE DEF d, w, i
<1>8. /\ s \o w \in Seq(Nat)
      /\ Cut(D, off, c, s \o w)
      /\ c + Len(s \o w) = off[K - 1] + (i + Len(w))
      /\ c + Len(s \o w) <= off[K]
  <2>1. NextPiece(D, off, c, s, w, i) /\ w \in Seq(Nat) /\ i \in Nat
    BY ONLY <1>1, <1>2, <1>6, <1>7 DEF NextPiece
  <2>2. /\ s \o w \in Seq(Nat)
        /\ Cut(D, off, c, s \o w)
        /\ c + Len(s \o w) = off[Len(D) - 1] + (i + Len(w))
        /\ c + Len(s \o w) <= off[Len(D)]
    BY ONLY <1>6, <2>1, WireGrows, D \in Seq(Udp!Packets), c \in Nat, s \in Seq(Nat)
  <2>3. QED
    BY ONLY <1>1, <2>2
<1>9. Produced(D, off, q) = off[K - 1] + (i + Len(w))
  <2>1. CASE fr = "length"
    BY <1>1, <1>7, <2>1 DEF Produced
  <2>2. CASE fr = "body"
    <3>1. K \in 1..Len(D) /\ K - 1 \in 0..Len(D)
      BY <1>1
    <3>2. off[K] = off[K - 1] + 2 + Len(d) /\ off[K - 1] \in Nat
      BY <1>2, <1>6, <3>1 DEF Offsets
    <3>3. off[K - 1] + 2 + Len(d) = off[K - 1] + (2 + Len(d))
      <4>1. \A a, b \in Nat : a + 2 + b = a + (2 + b)
        OBVIOUS
      <4>2. QED
        BY ONLY <1>3, <3>2, <4>1
    <3>4. QED
      BY <1>1, <1>7, <2>2, <3>2, <3>3 DEF Produced
  <2>3. QED
    BY <2>1, <2>2
<1>10. Wire(D, off, q, c, s \o w)
  BY <1>1, <1>6, <1>8, <1>9 DEF Wire
<1>11. Flow(D, q, un, s \o w, nd, dt, m)
  <2>1. \E x : Wire(D, x, q, Consumed(x, un, m), s \o w)
    BY <1>5, <1>10
  <2>2. Len(D) >= 1
    BY <1>1
  <2>3. QED
    BY <2>1, <2>2 DEF Flow
<1>12. QED
  BY <1>8, <1>11 DEF d, w

\* The length that is read is that of the next datagram.
LEMMA FlowReadsLength ==
    ASSUME NEW D \in Seq(Udp!Packets), NEW fr, NEW s \in Seq(Nat), NEW nd, NEW dt,
           NEW m \in Nat, Flow(D, fr, "length", s, nd, dt, m), Len(s) >= 2
    PROVE  LET n == Udp!Uint16(SubSeq(s, 1, 2))
               t == SubSeq(s, 2 + 1, Len(s))
           IN  n \in Nat /\ t \in Seq(Nat) /\ Flow(D, fr, "body", t, n, dt, m)
<1> DEFINE n == Udp!Uint16(SubSeq(s, 1, 2))
           t == SubSeq(s, 2 + 1, Len(s))
<1>1. PICK K \in Nat : K = Len(D) /\ m <= K
  BY DEF Flow
<1>2. PICK off : Wire(D, off, fr, Consumed(off, "length", m), s)
  BY DEF Flow
<1>3. PICK L \in Nat : L = Len(s) /\ L >= 2
  OBVIOUS
<1>4. off[m] \in Nat
  BY <1>1, <1>2, ConsumedNat DEF Wire, Unframing
<1>5. PICK c \in Nat : c = off[m] /\ c = Consumed(off, "length", m)
  BY <1>4 DEF Consumed
<1>6. c + L <= off[K] /\ Offsets(D, off) /\ Cut(D, off, c, s)
  BY <1>1, <1>2, <1>3, <1>5 DEF Wire
<1>7. m < K
  <2>1. off[m] # off[K]
    BY <1>3, <1>5, <1>6
  <2>2. m # K
    BY <2>1
  <2>3. QED
    BY <1>1, <2>2
<1>8. m + 1 \in 1..K /\ (m + 1) - 1 = m /\ D[m + 1] \in Udp!Packets
  BY <1>1, <1>7
<1>9. PICK d \in Udp!Packets : d = D[m + 1]
  BY <1>8
<1>10. d \in Seq(Nat) /\ Len(d) \in Nat /\ Len(d) \in Sizes
  BY UdpPacketFacts
<1>11. \A j \in 1..2 : s[j] = Udp!Prefix(Len(d))[j]
  <2> SUFFICES ASSUME NEW j \in 1..2 PROVE s[j] = Udp!Prefix(Len(d))[j]
    OBVIOUS
  <2>1. j \in 1..(2 + Len(d)) /\ j \in 1..L /\ c + j = off[(m + 1) - 1] + j /\ 0 + j = j
    <3>1. j \in 1..(2 + Len(d))
      BY ONLY <1>10, j \in 1..2
    <3>2. j \in 1..L /\ 0 + j = j
      BY ONLY <1>3, L \in Nat, j \in 1..2
    <3>3. off[(m + 1) - 1] = c
      BY ONLY <1>5, <1>8
    <3>4. QED
      BY ONLY <3>1, <3>2, <3>3
  <2>2. s[j] = FrameByte(d, j)
    BY <1>1, <1>3, <1>6, <1>8, <1>9, <2>1 DEF Cut
  <2>3. QED
    BY <2>1, <2>2, FrameBytes
<1>12. n = Len(d)
  <2>1. SubSeq(s, 1, 2)[1] = s[1] /\ SubSeq(s, 1, 2)[2] = s[2]
    <3>1. 2 \in 0..Len(s) /\ 1 \in 1..2 /\ 2 \in 1..2
      BY <1>3
    <3>2. \A i \in 1..2 : SubSeq(s, 1, 2)[i] = s[i]
      BY ONLY <3>1, Prefix, s \in Seq(Nat)
    <3>3. QED
      BY ONLY <3>1, <3>2
  <2>2. s[1] * UdpByte + s[2] = Len(d)
    <3>1. s[1] = Udp!Prefix(Len(d))[1] /\ s[2] = Udp!Prefix(Len(d))[2]
      BY <1>11
    <3>2. Udp!Prefix(Len(d))[1] * UdpByte + Udp!Prefix(Len(d))[2] = Len(d)
      BY ONLY <1>10, LengthSurvives
    <3>3. QED
      BY ONLY <3>1, <3>2
  <2>3. QED
    BY ONLY <2>1, <2>2 DEF Udp!Uint16
<1>13. t \in Seq(Nat) /\ Wire(D, off, fr, c + 2, t)
  <2>1. 2 \in 0..Len(s)
    BY <1>3
  <2>2. Wire(D, off, fr, c, s)
    BY <1>2, <1>5
  <2>3. QED
    BY ONLY <2>1, <2>2, WireShrinks, D \in Seq(Udp!Packets), c \in Nat, s \in Seq(Nat)
<1> HIDE DEF n, t
<1>14. Consumed(off, "body", m) = c + 2
  BY <1>5 DEF Consumed
<1>15. Flow(D, fr, "body", t, n, dt, m)
  <2>1. \E x : Wire(D, x, fr, Consumed(x, "body", m), t)
    BY <1>13, <1>14
  <2>2. m <= Len(D) /\ m < Len(D) /\ n = Len(D[m + 1])
    BY <1>1, <1>7, <1>9, <1>12
  <2>3. QED
    BY <2>1, <2>2 DEF Flow
<1>16. QED
  BY <1>10, <1>12, <1>13, <1>15 DEF n, t

\* As many bytes behind it are that datagram.
LEMMA FlowReadsBody ==
    ASSUME NEW D \in Seq(Udp!Packets), NEW fr, NEW s \in Seq(Nat), NEW nd \in Nat, NEW dt,
           NEW m \in Nat, Flow(D, fr, "body", s, nd, dt, m), Len(s) >= nd
    PROVE  LET w == SubSeq(s, 1, nd)
               t == SubSeq(s, nd + 1, Len(s))
           IN  w \in Seq(Nat) /\ t \in Seq(Nat) /\ Flow(D, fr, "write", t, nd, w, m)
<1> DEFINE w == SubSeq(s, 1, nd)
           t == SubSeq(s, nd + 1, Len(s))
<1>1. PICK K \in Nat : K = Len(D) /\ m < K
  BY DEF Flow
<1>2. PICK off : Wire(D, off, fr, Consumed(off, "body", m), s)
  BY DEF Flow
<1>3. PICK L \in Nat : L = Len(s) /\ L >= nd
  OBVIOUS
<1>4. off[m] \in Nat
  BY <1>1, <1>2, ConsumedNat DEF Wire, Unframing
<1>5. PICK c \in Nat : c = off[m] + 2 /\ c = Consumed(off, "body", m)
  BY <1>4 DEF Consumed
<1>6. Offsets(D, off) /\ Cut(D, off, c, s)
  BY <1>2, <1>5 DEF Wire
<1>7. m + 1 \in 1..K /\ (m + 1) - 1 = m /\ D[m + 1] \in Udp!Packets
  BY <1>1
<1>8. PICK d \in Udp!Packets : d = D[m + 1] /\ nd = Len(d)
  BY <1>7 DEF Flow
<1>9. d \in Seq(Nat)
  BY UdpPacketFacts
<1>10. \A j \in 1..nd : s[j] = d[j]
  <2> SUFFICES ASSUME NEW j \in 1..nd PROVE s[j] = d[j]
    OBVIOUS
  <2>1. 2 + j \in 1..(2 + Len(d)) /\ j \in 1..L /\ c + j = off[(m + 1) - 1] + (2 + j)
    <3>1. PICK y \in Nat : y = off[m]
      BY <1>4
    <3>2. off[(m + 1) - 1] = y /\ c = y + 2
      BY <1>5, <1>7, <3>1
    <3>3. 2 + j \in 1..(2 + nd) /\ j \in 1..L /\ (y + 2) + j = y + (2 + j)
      BY ONLY <1>3, j \in 1..nd, nd \in Nat, L \in Nat, y \in Nat
    <3>4. QED
      BY ONLY <1>8, <3>2, <3>3
  <2>2. s[j] = FrameByte(d, 2 + j)
    BY <1>1, <1>3, <1>6, <1>7, <1>8, <2>1 DEF Cut
  <2>3. QED
    BY <1>8, <2>2, FrameBytes
<1>11. nd \in 0..Len(s)
  BY <1>3
<1>12. w \in Seq(Nat) /\ Len(w) = nd /\ \A i \in 1..nd : w[i] = s[i]
  BY ONLY Prefix, <1>11, s \in Seq(Nat)
<1>13. t \in Seq(Nat) /\ Wire(D, off, fr, c + nd, t)
  <2>1. Wire(D, off, fr, c, s)
    BY <1>2, <1>5
  <2>2. QED
    BY ONLY <1>11, <2>1, WireShrinks, D \in Seq(Udp!Packets), c \in Nat, s \in Seq(Nat)
<1> HIDE DEF w, t
<1>14. w = d
  <2>1. \A i \in 1..Len(w) : w[i] = d[i]
    BY ONLY <1>10, <1>12
  <2>2. Len(w) = Len(d)
    BY ONLY <1>8, <1>12
  <2>3. QED
    BY ONLY <1>9, <1>12, <2>1, <2>2, SameElements
<1>15. Consumed(off, "write", m) = c + nd
  <2>1. off[m + 1] = off[m] + 2 + nd
    BY <1>1, <1>6, <1>7, <1>8 DEF Offsets
  <2>2. QED
    BY <1>5, <2>1 DEF Consumed
<1>16. Flow(D, fr, "write", t, nd, w, m)
  <2>1. \E x : Wire(D, x, fr, Consumed(x, "write", m), t)
    BY <1>13, <1>15
  <2>2. m <= Len(D) /\ m < Len(D) /\ w = D[m + 1]
    BY <1>1, <1>8, <1>14
  <2>3. fr \in {"length", "body"} => Len(D) >= 1
    BY DEF Flow
  <2>4. QED
    BY <2>1, <2>2, <2>3 DEF Flow
<1>17. QED
  BY <1>12, <1>13, <1>16 DEF w, t

LEMMA FlowDelivers ==
    ASSUME NEW D \in Seq(Udp!Packets), NEW fr, NEW s \in Seq(Nat), NEW nd, NEW dt,
           NEW m \in Nat, Flow(D, fr, "write", s, nd, dt, m)
    PROVE  m < Len(D) /\ dt = D[m + 1] /\ Flow(D, fr, "length", s, nd, dt, m + 1)
<1>1. m < Len(D) /\ dt = D[m + 1] /\ (fr \in {"length", "body"} => Len(D) >= 1)
  BY DEF Flow
<1>2. PICK off : Wire(D, off, fr, Consumed(off, "write", m), s)
  BY DEF Flow
<1>3. m + 1 <= Len(D) /\ m + 1 \in 0..Len(D) /\ m + 1 \in Nat
  BY <1>1
<1>4. off[m + 1] \in Nat
  BY <1>2, <1>3 DEF Wire, Offsets
<1>5. Consumed(off, "length", m + 1) = Consumed(off, "write", m)
  BY <1>4 DEF Consumed
<1>6. \E x : Wire(D, x, fr, Consumed(x, "length", m + 1), s)
  BY <1>2, <1>5
<1>7. QED
  BY <1>1, <1>3, <1>6 DEF Flow

LEMMA FlowEnds ==
    ASSUME NEW D, NEW fr, NEW un, NEW s, NEW nd, NEW dt, NEW m, Flow(D, fr, un, s, nd, dt, m)
    PROVE  Flow(D, "ended", un, s, nd, dt, m)
<1>1. PICK off : Wire(D, off, fr, Consumed(off, un, m), s)
  BY DEF Flow
<1>2. Wire(D, off, "ended", Consumed(off, un, m), s)
  BY <1>1 DEF Wire
<1>3. \E x : Wire(D, x, "ended", Consumed(x, un, m), s)
  BY <1>2
<1>4. QED
  BY <1>3 DEF Flow

\* An end and the other are all there is.
LEMMA TwoUdpEnds ==
    ASSUME NEW e \in Udp!Ends
    PROVE  /\ Udp!Other(e) \in Udp!Ends /\ Udp!Other(e) # e
           /\ Udp!Other(Udp!Other(e)) = e
           /\ \A x \in Udp!Ends : x = e \/ x = Udp!Other(e)
BY DEF Udp!Ends, Udp!Other

\* What the types give for one end.
LEMMA UdpEndTypes ==
    ASSUME UdpType, NEW e \in Udp!Ends
    PROVE  /\ stream[e] \in Seq(Nat) /\ need[e] \in Nat /\ data[e] \in Seq(Nat)
           /\ taken[e] \in Seq(Udp!Packets) /\ delivered[e] \in Seq(Seq(Nat))
           /\ Len(delivered[e]) \in Nat
           /\ unframer[e] # "ended" => unframer[e] \in Unframing
BY DEF UdpType, Unframing

LEMMA UdpTakes ==
    ASSUME UdpInv, NEW e \in Udp!Ends, NEW n \in Sizes, Udp!Take(e, n)
    PROVE  /\ UdpInv'
           /\ \E d \in Udp!Packets : taken' = [taken EXCEPT ![e] = Append(@, d)]
<1> DEFINE o == Udp!Other(e)
           d == Udp!Datagram(Len(taken[e]) + 1, n)
<1>1. o \in Udp!Ends /\ o # e /\ Udp!Other(o) = e /\ \A x \in Udp!Ends : x = e \/ x = o
  BY TwoUdpEnds
<1>2. /\ framer[e] = "read" /\ Len(taken[e]) + Len(taken[o]) < Datagrams
      /\ taken' = [taken EXCEPT ![e] = Append(taken[e], d)]
      /\ framer' = [framer EXCEPT ![e] = "length"]
      /\ unframer' = unframer /\ closed' = closed /\ stream' = stream /\ need' = need
      /\ data' = data /\ delivered' = delivered
  BY DEF Udp!Take
<1>3. UdpType
  BY DEF UdpInv
<1>4. d \in Udp!Packets
  <2>1. Len(taken[e]) \in Nat /\ Len(taken[o]) \in Nat
    BY <1>1, <1>3, UdpEndTypes
  <2>2. Len(taken[e]) + 1 \in 1..Datagrams
    <3>1. \A a, b \in Nat : a + b < Datagrams => a + 1 \in 1..Datagrams
      BY UdpAssumption
    <3>2. QED
      BY ONLY <1>2, <2>1, <3>1
  <2>3. QED
    BY <2>2 DEF Udp!Packets
<1> HIDE DEF d
<1>5. Append(taken[e], d) \in Seq(Udp!Packets)
  BY <1>3, <1>4, UdpEndTypes
<1>6. UdpType'
  BY <1>2, <1>3, <1>5 DEF UdpType
<1>7. /\ taken'[e] = Append(taken[e], d) /\ framer'[e] = "length"
      /\ taken'[o] = taken[o] /\ framer'[o] = framer[o]
  BY <1>1, <1>2, <1>3 DEF UdpType
<1>8. InStep(e)'
  BY <1>2, <1>7 DEF InStep, UdpInv
<1>9. InStep(o)'
  <2> SUFFICES ASSUME o \notin closed
               PROVE  Flow(Append(taken[e], d), "length", unframer[o], stream[o], need[o],
                           data[o], Len(delivered[o]))
    BY <1>1, <1>2, <1>7 DEF InStep
  <2>1. Flow(taken[e], "read", unframer[o], stream[o], need[o], data[o], Len(delivered[o]))
    BY <1>1, <1>2 DEF InStep, UdpInv
  <2>2. unframer[o] \in Unframing
    BY <1>1, <1>3, <2>1, UdpEndTypes DEF Flow
  <2>3. stream[o] \in Seq(Nat) /\ Len(delivered[o]) \in Nat /\ taken[e] \in Seq(Udp!Packets)
    BY <1>1, <1>3, UdpEndTypes
  <2>4. QED
    BY ONLY <1>4, <2>1, <2>2, <2>3, FlowTakes
<1>10. QED
  BY <1>1, <1>2, <1>4, <1>6, <1>8, <1>9 DEF UdpInv

LEMMA UdpWrites ==
    ASSUME UdpInv, NEW e \in Udp!Ends, Udp!WriteFrame(e)
    PROVE  UdpInv'
<1> DEFINE o == Udp!Other(e)
           D == taken[e]
           d == D[Len(D)]
           w == IF framer[e] = "length" THEN Udp!Prefix(Len(d)) ELSE d
           q == IF framer[e] = "length" THEN "body" ELSE "read"
           s == IF o \in closed THEN stream[o] ELSE stream[o] \o w
<1>1. o \in Udp!Ends /\ o # e /\ Udp!Other(o) = e /\ \A x \in Udp!Ends : x = e \/ x = o
  BY TwoUdpEnds
<1>2. /\ framer[e] \in {"length", "body"}
      /\ stream' = [stream EXCEPT ![o] = s]
      /\ unframer' = unframer /\ closed' = closed /\ need' = need
      /\ data' = data /\ delivered' = delivered /\ taken' = taken
  BY DEF Udp!WriteFrame
<1>3. framer' = [framer EXCEPT ![e] = q]
  BY DEF Udp!WriteFrame
<1>4. UdpType
  BY DEF UdpInv
<1>5. /\ s \in Seq(Nat)
      /\ o \notin closed =>
             Flow(D, q, unframer[o], s, need[o], data[o], Len(delivered[o]))
  <2>1. stream[o] \in Seq(Nat) /\ Len(delivered[o]) \in Nat /\ D \in Seq(Udp!Packets)
    BY <1>1, <1>4, UdpEndTypes
  <2>2. CASE o \in closed
    BY <2>1, <2>2
  <2>3. CASE o \notin closed
    <3>1. Flow(D, framer[e], unframer[o], stream[o], need[o], data[o], Len(delivered[o]))
      BY <1>1, <2>3 DEF InStep, UdpInv
    <3>2. unframer[o] \in Unframing
      BY <1>1, <1>4, <3>1, UdpEndTypes DEF Flow
    <3> HIDE DEF D
    <3>3. /\ stream[o] \o w \in Seq(Nat)
          /\ Flow(D, q, unframer[o], stream[o] \o w, need[o], data[o], Len(delivered[o]))
      BY ONLY <1>2, <2>1, <3>1, <3>2, FlowWrites
    <3>4. QED
      BY <2>3, <3>3
  <2>4. QED
    BY <2>2, <2>3
<1>6. q \in {"read", "length", "body", "ended"}
  OBVIOUS
<1> HIDE DEF s, q
<1>7. UdpType'
  BY <1>1, <1>2, <1>3, <1>4, <1>5, <1>6 DEF UdpType
<1>8. /\ stream'[o] = s /\ framer'[e] = q /\ stream'[e] = stream[e] /\ framer'[o] = framer[o]
  BY <1>1, <1>2, <1>3, <1>4 DEF UdpType
<1>9. InStep(e)'
  BY <1>2, <1>8 DEF InStep, UdpInv
<1>10. InStep(o)'
  BY <1>1, <1>2, <1>5, <1>8 DEF InStep
<1>11. QED
  BY <1>1, <1>7, <1>9, <1>10 DEF UdpInv

LEMMA UdpReads ==
    ASSUME UdpInv, NEW e \in Udp!Ends, Udp!ReadFrame(e)
    PROVE  UdpInv'
<1> DEFINE o == Udp!Other(e)
<1>1. o \in Udp!Ends /\ o # e /\ Udp!Other(o) = e /\ \A x \in Udp!Ends : x = e \/ x = o
  BY TwoUdpEnds
<1>2. /\ unframer[e] \in {"length", "body"} /\ e \notin closed
      /\ framer' = framer /\ closed' = closed /\ delivered' = delivered /\ taken' = taken
  BY DEF Udp!ReadFrame
<1>3. UdpType
  BY DEF UdpInv
<1>4. Flow(taken[o], framer[o], unframer[e], stream[e], need[e], data[e], Len(delivered[e]))
  BY <1>2 DEF InStep, UdpInv
<1>5. /\ stream[e] \in Seq(Nat) /\ need[e] \in Nat /\ data[e] \in Seq(Nat)
      /\ Len(delivered[e]) \in Nat /\ taken[o] \in Seq(Udp!Packets)
  BY <1>1, <1>3, UdpEndTypes
<1>6. ASSUME NEW q \in {"body", "write"}, NEW s \in Seq(Nat), NEW nd \in Nat,
             NEW dt \in Seq(Nat),
             unframer' = [unframer EXCEPT ![e] = q], stream' = [stream EXCEPT ![e] = s],
             need' = [need EXCEPT ![e] = nd], data' = [data EXCEPT ![e] = dt],
             Flow(taken[o], framer[o], q, s, nd, dt, Len(delivered[e]))
      PROVE  UdpInv'
  <2>1. UdpType'
    BY <1>2, <1>3, <1>6 DEF UdpType
  <2>2. /\ unframer'[e] = q /\ stream'[e] = s /\ need'[e] = nd /\ data'[e] = dt
        /\ unframer'[o] = unframer[o] /\ stream'[o] = stream[o] /\ need'[o] = need[o]
        /\ data'[o] = data[o]
    BY <1>1, <1>3, <1>6 DEF UdpType
  <2>3. InStep(e)'
    BY <1>2, <1>6, <2>2 DEF InStep
  <2>4. InStep(o)'
    BY <1>1, <1>2, <2>2 DEF InStep, UdpInv
  <2>5. QED
    BY <1>1, <2>1, <2>3, <2>4 DEF UdpInv
<1>7. CASE unframer[e] = "length"
  <2> DEFINE nd == Udp!Uint16(SubSeq(stream[e], 1, 2))
             s == SubSeq(stream[e], 2 + 1, Len(stream[e]))
  <2>1. /\ Len(stream[e]) >= 2
        /\ unframer' = [unframer EXCEPT ![e] = "body"]
        /\ stream' = [stream EXCEPT ![e] = s]
        /\ need' = [need EXCEPT ![e] = nd] /\ data' = data
    BY <1>7 DEF Udp!ReadFrame
  <2>2. data' = [data EXCEPT ![e] = data[e]]
    BY <1>3, <2>1 DEF UdpType
  <2>3. /\ nd \in Nat /\ s \in Seq(Nat)
        /\ Flow(taken[o], framer[o], "body", s, nd, data[e], Len(delivered[e]))
    <3>1. Flow(taken[o], framer[o], "length", stream[e], need[e], data[e], Len(delivered[e]))
      BY <1>4, <1>7
    <3> HIDE DEF o
    <3>2. QED
      BY ONLY <1>5, <2>1, <3>1, FlowReadsLength
  <2> HIDE DEF nd, s, o
  <2>4. QED
    BY ONLY <1>5, <1>6, <2>1, <2>2, <2>3
<1>8. CASE unframer[e] = "body"
  <2> DEFINE dt == SubSeq(stream[e], 1, need[e])
             s == SubSeq(stream[e], need[e] + 1, Len(stream[e]))
  <2>1. /\ Len(stream[e]) >= need[e]
        /\ unframer' = [unframer EXCEPT ![e] = "write"]
        /\ stream' = [stream EXCEPT ![e] = s]
        /\ data' = [data EXCEPT ![e] = dt] /\ need' = need
    BY <1>8 DEF Udp!ReadFrame
  <2>2. need' = [need EXCEPT ![e] = need[e]]
    BY <1>3, <2>1 DEF UdpType
  <2>3. /\ dt \in Seq(Nat) /\ s \in Seq(Nat)
        /\ Flow(taken[o], framer[o], "write", s, need[e], dt, Len(delivered[e]))
    <3>1. Flow(taken[o], framer[o], "body", stream[e], need[e], data[e], Len(delivered[e]))
      BY <1>4, <1>8
    <3> HIDE DEF o
    <3>2. QED
      BY ONLY <1>5, <2>1, <3>1, FlowReadsBody
  <2> HIDE DEF dt, s, o
  <2>4. QED
    BY ONLY <1>5, <1>6, <2>1, <2>2, <2>3
<1>9. QED
  BY <1>2, <1>7, <1>8

\* What is written to the socket is the next datagram that the other end has taken.
LEMMA UdpDelivers ==
    ASSUME UdpInv, NEW e \in Udp!Ends, Udp!Deliver(e)
    PROVE  LET D == taken[Udp!Other(e)]
               m == Len(delivered[e])
           IN  /\ UdpInv'
               /\ m < Len(D) /\ delivered' = [delivered EXCEPT ![e] = Append(@, D[m + 1])]
<1> DEFINE o == Udp!Other(e)
           D == taken[o]
           m == Len(delivered[e])
<1>1. o \in Udp!Ends /\ o # e /\ Udp!Other(o) = e /\ \A x \in Udp!Ends : x = e \/ x = o
  BY TwoUdpEnds
<1>2. /\ unframer[e] = "write" /\ e \notin closed
      /\ delivered' = [delivered EXCEPT ![e] = Append(delivered[e], data[e])]
      /\ unframer' = [unframer EXCEPT ![e] = "length"]
      /\ framer' = framer /\ closed' = closed /\ stream' = stream /\ need' = need
      /\ data' = data /\ taken' = taken
  BY DEF Udp!Deliver
<1>3. UdpType
  BY DEF UdpInv
<1>4. Flow(D, framer[o], "write", stream[e], need[e], data[e], m)
  BY <1>2 DEF InStep, UdpInv
<1>5. /\ stream[e] \in Seq(Nat) /\ data[e] \in Seq(Nat) /\ m \in Nat /\ D \in Seq(Udp!Packets)
      /\ delivered[e] \in Seq(Seq(Nat))
  BY <1>1, <1>3, UdpEndTypes
<1>6. /\ Append(delivered[e], data[e]) \in Seq(Seq(Nat))
      /\ Len(Append(delivered[e], data[e])) = m + 1
  BY ONLY <1>5
<1> HIDE DEF D, m
<1>7. /\ m < Len(D) /\ data[e] = D[m + 1]
      /\ Flow(D, framer[o], "length", stream[e], need[e], data[e], m + 1)
  BY ONLY <1>4, <1>5, FlowDelivers
<1>8. UdpType'
  BY <1>2, <1>3, <1>6 DEF UdpType
<1>9. /\ delivered'[e] = Append(delivered[e], data[e]) /\ unframer'[e] = "length"
      /\ delivered'[o] = delivered[o] /\ unframer'[o] = unframer[o]
  BY <1>1, <1>2, <1>3 DEF UdpType
<1>10. InStep(e)'
  BY <1>2, <1>6, <1>7, <1>9 DEF InStep, D
<1>11. InStep(o)'
  BY <1>1, <1>2, <1>9 DEF InStep, UdpInv
<1>12. QED
  BY <1>1, <1>2, <1>7, <1>8, <1>10, <1>11 DEF UdpInv, D, m

\* An end closes, and its framer may end: the other end reads what is on its way.
LEMMA UdpCloses ==
    ASSUME UdpInv, NEW e \in Udp!Ends, closed' = closed \cup {e},
           framer' \in {framer, [framer EXCEPT ![e] = "ended"]},
           unframer' \in {unframer, [unframer EXCEPT ![e] = "ended"]},
           stream' = stream, need' = need, data' = data, taken' = taken,
           delivered' = delivered
    PROVE  UdpInv'
<1> DEFINE o == Udp!Other(e)
<1>1. o \in Udp!Ends /\ o # e /\ Udp!Other(o) = e /\ \A x \in Udp!Ends : x = e \/ x = o
  BY TwoUdpEnds
<1>2. UdpType
  BY DEF UdpInv
<1>3. UdpType'
  BY <1>2 DEF UdpType
<1>4. framer'[e] \in {framer[e], "ended"} /\ unframer'[o] = unframer[o]
  BY <1>1, <1>2 DEF UdpType
<1>5. InStep(e)'
  BY DEF InStep
<1>6. InStep(o)'
  <2> SUFFICES ASSUME o \notin closed
               PROVE  Flow(taken[e], framer'[e], unframer[o], stream[o], need[o], data[o],
                           Len(delivered[o]))
    BY <1>1, <1>4 DEF InStep
  <2>1. Flow(taken[e], framer[e], unframer[o], stream[o], need[o], data[o], Len(delivered[o]))
    BY <1>1 DEF InStep, UdpInv
  <2>2. Flow(taken[e], "ended", unframer[o], stream[o], need[o], data[o], Len(delivered[o]))
    BY ONLY <2>1, FlowEnds
  <2>3. QED
    BY <1>4, <2>1, <2>2
<1>7. QED
  BY <1>1, <1>3, <1>5, <1>6 DEF UdpInv

LEMMA UdpInit == Init => UdpInv
<1> SUFFICES ASSUME Udp!Init PROVE UdpInv
  BY DEF Init, PartsInit
<1>1. UdpType
  BY DEF Udp!Init, UdpType
<1>2. ASSUME NEW e \in Udp!Ends PROVE InStep(e)
  <2> DEFINE off == [k \in 0..0 |-> 0]
  <2>1. /\ taken[Udp!Other(e)] = <<>> /\ framer[Udp!Other(e)] = "read"
        /\ unframer[e] = "length" /\ stream[e] = <<>> /\ delivered[e] = <<>>
    BY TwoUdpEnds DEF Udp!Init
  <2>2. Offsets(<<>>, off) /\ off[0] = 0
    BY DEF Offsets
  <2> HIDE DEF off
  <2>3. Cut(<<>>, off, 0, <<>>) /\ Consumed(off, "length", 0) = 0
        /\ Produced(<<>>, off, "read") = 0
    BY <2>2 DEF Cut, Consumed, Produced
  <2>4. Wire(<<>>, off, "read", Consumed(off, "length", 0), <<>>)
    BY <2>2, <2>3 DEF Wire
  <2>5. Flow(<<>>, "read", "length", <<>>, need[e], data[e], 0)
    <3>1. \E x : Wire(<<>>, x, "read", Consumed(x, "length", 0), <<>>)
      BY <2>4
    <3>2. QED
      BY <3>1 DEF Flow
  <2>6. QED
    BY <2>1, <2>5 DEF InStep
<1>3. QED
  BY <1>1, <1>2 DEF UdpInv

\* Every step of the forwarders keeps the invariant and is one of the channel.
LEMMA UdpStepSimulated ==
    ASSUME UdpInv, Udp!Next
    PROVE  UdpInv' /\ [Udp!Channel!Next]_<<taken, delivered>>
<1>1. PICK e \in Udp!Ends :
         Udp!Framer(e) \/ Udp!Unframer(e) \/ Udp!UdpFails(e) \/ Udp!CloseFromOutside(e)
             \/ \E n \in Sizes : Udp!Take(e, n)
  BY DEF Udp!Next
<1>2. ASSUME NEW n \in Sizes, Udp!Take(e, n)
      PROVE  UdpInv' /\ [Udp!Channel!Next]_<<taken, delivered>>
  <2>1. UdpInv' /\ \E d \in Udp!Packets : taken' = [taken EXCEPT ![e] = Append(@, d)]
    BY <1>2, UdpTakes
  <2>2. delivered' = delivered
    BY <1>2 DEF Udp!Take
  <2>3. QED
    BY <2>1, <2>2 DEF Udp!Channel!Next, Udp!Channel!Take
<1>3. CASE Udp!WriteFrame(e)
  BY <1>3, UdpWrites DEF Udp!WriteFrame
<1>4. CASE Udp!ReadFrame(e)
  BY <1>4, UdpReads DEF Udp!ReadFrame
<1>5. CASE Udp!Deliver(e)
  <2>1. /\ UdpInv' /\ Len(delivered[e]) < Len(taken[Udp!Other(e)])
        /\ delivered' = [delivered EXCEPT ![e] =
                             Append(@, taken[Udp!Other(e)][Len(delivered[e]) + 1])]
    BY <1>5, UdpDelivers
  <2>2. taken' = taken
    BY <1>5 DEF Udp!Deliver
  <2>3. QED
    BY <2>1, <2>2 DEF Udp!Channel!Next, Udp!Channel!Deliver
<1>6. CASE Udp!FramerEnds(e) \/ Udp!UnframerEnds(e) \/ Udp!Return(e)
  BY <1>6, UdpCloses DEF Udp!FramerEnds, Udp!UnframerEnds, Udp!Return, Udp!CloseConns
<1>7. CASE Udp!UdpFails(e) \/ Udp!CloseFromOutside(e)
  BY <1>7, UdpCloses DEF Udp!UdpFails, Udp!CloseFromOutside, Udp!CloseConns
<1>8. QED
  BY <1>1, <1>2, <1>3, <1>4, <1>5, <1>6, <1>7 DEF Udp!Framer, Udp!Unframer

\* The steps of the other parts do not concern the forwarders.
LEMMA UdpKept == UdpInv /\ [Next]_vars => UdpInv' /\ [Udp!Channel!Next]_<<taken, delivered>>
<1> SUFFICES ASSUME UdpInv, [Next]_vars
             PROVE  UdpInv' /\ [Udp!Channel!Next]_<<taken, delivered>>
  OBVIOUS
<1>1. CASE UdpStep
  BY <1>1, UdpStepSimulated DEF UdpStep
<1>2. CASE UNCHANGED udpVars
  BY <1>2 DEF udpVars, UdpInv, UdpType, InStep
<1>3. QED
  BY <1>1, <1>2 DEF Next, JunkStep, AuthStep, PipeStep, BootStep, vars

\* What travels to an open end is, from where its unframer stands, the frames of the
\* datagrams that the other end has taken, as far as its framer has written them.
THEOREM UdpInvariance == Spec => []UdpInv
BY UdpInit, UdpKept, PTL DEF Spec

\* A pair of ForwardUDPOverTCP implements the datagram channel, for every size of a
\* byte and all datagrams whose length two bytes hold: contents, boundaries and order
\* survive the byte stream, and the shutdown of either end at any moment.
THEOREM ChannelImplemented == Spec => ImplementsChannel
<1>1. Init => Udp!Channel!Init
  BY DEF Init, PartsInit, Udp!Init, Udp!Channel!Init
<1>2. QED
  BY <1>1, UdpKept, UdpInvariance, PTL
     DEF Spec, ImplementsChannel, Udp!ImplementsChannel, Udp!Channel!Spec
=============================================================================
