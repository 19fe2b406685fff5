-------------------------------- MODULE Ring --------------------------------
(***************************************************************************)
(* What a pool promises: its members stand in a ring, the next one to look *)
(* at first.  A member keeps its index until it is removed.                *)
(***************************************************************************)
EXTENDS Integers, SequencesExt

CONSTANTS Size, Data, NoIndex

VARIABLES ring,  \* the members, as pairs of an index and the data
          ret    \* what the last call returned: an index, or NoIndex

vars == <<ring, ret>>

Indices == {ring[p][1] : p \in DOMAIN ring}
At(idx) == CHOOSE p \in DOMAIN ring : ring[p][1] = idx

Init == ring = <<>> /\ ret = NoIndex

(* A new member is the last one to be looked at.                           *)
Add(d) == \/ /\ \E idx \in (0..Size-1) \ Indices :
                  ring' = Append(ring, <<idx, d>>) /\ ret' = idx
          \/ /\ Len(ring) = Size
             /\ UNCHANGED ring /\ ret' = NoIndex

TakeOut(idx) == \/ /\ idx \in Indices
                   /\ ring' = RemoveAt(ring, At(idx)) /\ ret' = idx
                \/ /\ idx \notin Indices
                   /\ UNCHANGED ring /\ ret' = NoIndex

SetData(idx, d) == /\ idx \in Indices
                   /\ ring' = [ring EXCEPT ![At(idx)] = <<idx, d>>]
                   /\ ret' = idx

(* The first member goes to the back.                                      *)
Forward == /\ ring # <<>>
           /\ ring' = Append(Tail(ring), Head(ring))
           /\ ret' = Head(ring)[1]

(* Looking at the first member, or at one by its index.                    *)
Look == /\ UNCHANGED ring
        /\ \/ ring = <<>> /\ ret' = NoIndex
           \/ ring # <<>> /\ ret' = Head(ring)[1]
           \/ ret' \in Indices \cup {NoIndex}

Clear == ring' = <<>> /\ UNCHANGED ret

Next == \/ \E d \in Data : Add(d) \/ \E idx \in 0..Size-1 : SetData(idx, d)
        \/ \E idx \in 0..Size-1 : TakeOut(idx)
        \/ Forward \/ Look \/ Clear

Spec == Init /\ [][Next]_vars
=============================================================================
