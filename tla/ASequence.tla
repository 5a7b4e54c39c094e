------------------------------- MODULE ASequence -------------------------------
(***************************************************************************)
(* Words the invariants have for sequences whose elements have no common   *)
(* type worth a name: records of several shapes, as in messages and in the *)
(* steps of a call.                                                        *)
(***************************************************************************)
EXTENDS Integers, Sequences

ASeq(s) == Len(s) \in Nat /\ s = [k \in 1..Len(s) |-> s[k]]

Elements(s) == {s[k] : k \in 1..Len(s)}

\* q is s and then t.
IsJoined(s, t, q) ==
    /\ ASeq(s) /\ ASeq(t) /\ ASeq(q) /\ Len(q) = Len(s) + Len(t)
    /\ \A k \in 1..Len(s) : q[k] = s[k]
    /\ \A k \in 1..Len(t) : q[Len(s) + k] = t[k]
==============================================================================
