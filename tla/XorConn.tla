------------------------------- MODULE XorConn -------------------------------
(***************************************************************************)
(* obfuscatedConn (pkg/server/server.go and pkg/client/client.go): every   *)
(* Write xors its bytes with the key from the key's start, every Read does *)
(* the same with whatever bytes it got.  TCP delivers a byte stream: it    *)
(* keeps no boundaries between Writes.                                     *)
(*                                                                         *)
(* The key's bytes are all different, so a byte is decoded exactly when    *)
(* Read applies the key byte that Write applied.  Bytes are numbered; on   *)
(* the wire a byte is its number and the index of the key byte applied.    *)
(* (A Read that fails returns its bytes as they are; TCP returns none.)    *)
(***************************************************************************)
EXTENDS Integers, Sequences

CONSTANTS
    KeyLen,      \* len(xorKey)
    MaxWrite,    \* bound: bytes per Write, and per Read
    MaxBytes     \* bound: bytes written in all

VARIABLES
    written,   \* bytes handed to Write so far
    wire,      \* bytes in the network, as [num, key]
    received   \* what Read returned: the byte's number, 0 if garbled

vars == <<written, wire, received>>

\* The key byte that byte i of one Read or Write is xored with.
KeyIndex(i) == (i - 1) % KeyLen

Init == written = 0 /\ wire = <<>> /\ received = <<>>

\* Write(b) with n bytes.
Write(n) ==
    /\ written + n <= MaxBytes
    /\ wire' = wire \o [i \in 1..n |-> [num |-> written + i, key |-> KeyIndex(i)]]
    /\ written' = written + n
    /\ UNCHANGED received

Decoded(n) == [i \in 1..n |-> IF wire[i].key = KeyIndex(i) THEN wire[i].num ELSE 0]

\* Read returns the first n bytes that have arrived, decoded.
Read(n) ==
    /\ n <= Len(wire)
    /\ received' = received \o Decoded(n)
    /\ wire' = SubSeq(wire, n + 1, Len(wire))
    /\ UNCHANGED written

Next == \E n \in 1..MaxWrite : Write(n) \/ Read(n)

Spec == Init /\ [][Next]_vars

-----------------------------------------------------------------------------
(* What the README promises, and the code does not keep *)

\* README.md:47 and 101: with "enable_obfuscation" at both ends the control channel
\* runs over obfuscatedConn.  What is read there is what was written.
StreamDecoded == \A i \in DOMAIN received : received[i] = i
=============================================================================
