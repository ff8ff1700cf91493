--------------------------- MODULE DatagramChannel ---------------------------
(***************************************************************************)
(* What a pair of ForwardUDPOverTCP promises: the datagrams that one end   *)
(* takes from its socket come out at the other end whole, unchanged, in    *)
(* the order taken and each at most once; some of the last may be lost.    *)
(***************************************************************************)
EXTENDS Integers, Sequences

CONSTANTS Ends, Other(_), Datagrams

VARIABLES taken,     \* datagrams taken at each end, each as its bytes
          delivered  \* datagrams delivered at each end

Init == taken = [e \in Ends |-> <<>>] /\ delivered = [e \in Ends |-> <<>>]

Take(e) ==
    /\ \E d \in Datagrams : taken' = [taken EXCEPT ![e] = Append(@, d)]
    /\ UNCHANGED delivered

Deliver(e) ==
    /\ Len(delivered[e]) < Len(taken[Other(e)])
    /\ delivered' = [delivered EXCEPT ![e] = Append(@, taken[Other(e)][Len(@) + 1])]
    /\ UNCHANGED taken

Next == \E e \in Ends : Take(e) \/ Deliver(e)

Spec == Init /\ [][Next]_<<taken, delivered>>
=============================================================================
