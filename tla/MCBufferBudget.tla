--------------------------- MODULE MCBufferBudget ---------------------------
(* Two sessions, three flows, four payloads of one or two bytes.  Every    *)
(* limit is one byte short of what the payloads under it would need.       *)
EXTENDS BufferBudget

CONSTANTS c1, c2, c3, c4, f1, f2, f3, s1, s2

MCChunk == {c1, c2, c3, c4}
MCFlow == {f1, f2, f3}
MCSession == {s1, s2}
MCFlowOf == [c \in MCChunk |-> CASE c \in {c1, c2} -> f1 [] c = c3 -> f2 [] c = c4 -> f3]
MCSessionOf == [f \in MCFlow |-> IF f = f3 THEN s2 ELSE s1]
MCBytes == [c \in MCChunk |-> CASE c = c1 -> {1, 2} [] c = c2 -> {3}
                                [] c = c3 -> {4, 5} [] c = c4 -> {6, 7}]
=============================================================================
