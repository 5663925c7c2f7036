---------------------------- MODULE SpanDelivery ----------------------------
(***************************************************************************)
(* What the export path of the SDK promises an exporter at its weakest.    *)
(* Spans are numbered in the order _enqueue accepts them.  They reach the  *)
(* exporter in that order and each at most once; any of them may be lost   *)
(* on the way, which the SDK calls fire-and-forget.                        *)
(***************************************************************************)
EXTENDS Integers, Sequences

VARIABLES
    count,    \* spans accepted so far
    pending,  \* accepted, neither delivered nor lost, oldest first
    out       \* delivered to the exporter, in order of delivery

vars == <<count, pending, out>>

TypeOK ==
    /\ count \in Nat
    /\ pending \in Seq(Nat)
    /\ out \in Seq(Nat)

Init ==
    /\ count = 0
    /\ pending = <<>>
    /\ out = <<>>

\* One call of _enqueue accepts one span ...
AcceptOne ==
    /\ count' = count + 1
    /\ pending' = Append(pending, count + 1)
    /\ UNCHANGED out

\* ... or two: a root brings the aggregate of the buffered micro-spans along.
AcceptTwo ==
    /\ count' = count + 2
    /\ pending' = Append(Append(pending, count + 1), count + 2)
    /\ UNCHANGED out

Deliver ==
    \E n \in 1..Len(pending) :
        /\ out' = out \o SubSeq(pending, 1, n)
        /\ pending' = SubSeq(pending, n + 1, Len(pending))
        /\ UNCHANGED count

Lose ==
    \E n \in 1..Len(pending) :
        /\ pending' = SubSeq(pending, n + 1, Len(pending))
        /\ UNCHANGED <<count, out>>

Next == AcceptOne \/ AcceptTwo \/ Deliver \/ Lose

Spec == Init /\ [][Next]_vars
-----------------------------------------------------------------------------
Increasing(s) == \A i, j \in 1..Len(s) : i < j => s[i] < s[j]

\* An exporter sees no span twice and no span before an older one.
InOrder == Increasing(out)
=============================================================================
