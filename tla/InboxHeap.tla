----------------------------- MODULE InboxHeap -----------------------------
(***************************************************************************)
(* receivedMessageWindow keeps its ids in a binary heap beside the map, to *)
(* find the oldest one: the heap, with the two loops of remember that      *)
(* repair it, next to the Inbox, whose decisions are about the set.        *)
(*                                                                         *)
(* A turn of a loop is a step.  remember holds the window's mutex until    *)
(* the loop has ended, so nothing of the Inbox is looked at in between:    *)
(* its next step comes when the heap is in order again.                    *)
(***************************************************************************)
EXTENDS Inbox

VARIABLES
    heap,   \* w.heap; the code counts from 0
    loop,   \* the loop that repairs it: "up", "down" or "none"
    at      \* the i of that loop, 0 outside

heapVars == <<heap, loop, at>>

Parent(i) == i \div 2

\* Fault: only the left child is looked at.
LeftChild(i) == 2 * i

SmallerChild(i) ==
    IF 2 * i + 1 <= Len(heap) /\ heap[2 * i + 1] < heap[2 * i]
    THEN 2 * i + 1 ELSE 2 * i

\* The id at i changes places with the one at j, and the loop goes on there.
SwapTo(j) ==
    /\ heap' = [heap EXCEPT ![at] = heap[j], ![j] = heap[at]]
    /\ at' = j
    /\ UNCHANGED loop

Ordered == loop' = "none" /\ at' = 0 /\ UNCHANGED heap

Risen == at > 1 => heap[Parent(at)] <= heap[at]

Rise ==
    /\ loop = "up"
    /\ \/ Risen /\ Ordered
       \/ ~Risen /\ SwapTo(Parent(at))

Sunk == 2 * at <= Len(heap) => heap[at] <= heap[SmallerChild(at)]

Sink ==
    /\ loop = "down"
    /\ \/ Sunk /\ Ordered
       \/ ~Sunk /\ SwapTo(SmallerChild(at))

\* A full heap gives its first place to the new id, another one grows.
Enter(m) ==
    \/ /\ Len(heap) = Window
       /\ heap' = [heap EXCEPT ![1] = m] /\ loop' = "down" /\ at' = 1
    \/ /\ Len(heap) # Window
       /\ heap' = Append(heap, m) /\ loop' = "up" /\ at' = Len(heap) + 1

\* remember updates the heap whenever it updates the map.
FollowWindow ==
    \/ receivedIDs' = receivedIDs /\ UNCHANGED heapVars
    \/ \E m \in receivedIDs' \ receivedIDs : Enter(m)

HeapInit == Init /\ heap = <<>> /\ loop = "none" /\ at = 0

HeapNext ==
    \/ loop = "none" /\ Next /\ FollowWindow
    \/ (Rise \/ Sink) /\ UNCHANGED vars

\* A loop of the code runs to its end.
HeapSpec ==
    /\ HeapInit /\ [][HeapNext]_<<vars, heapVars>>
    /\ Fairness /\ WF_heapVars(Rise \/ Sink)

\* The heap holds each id of the map once, at all times, and when remember has
\* returned its first element is the oldest of them, so that remember compares
\* with and forgets the id Inbox says.
HeapIsWindow ==
    /\ {heap[i] : i \in 1..Len(heap)} = receivedIDs
    /\ Len(heap) = Cardinality(receivedIDs)
    /\ loop = "none" /\ heap # <<>> => Oldest(heap[1])

=============================================================================
