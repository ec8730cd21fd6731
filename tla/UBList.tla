------------------------------- MODULE UBList -------------------------------
(***************************************************************************)
(* The list of unsequenced blocks of a receive window (ublist.h, ublist.c) *)
(* and the 32-bit sequence numbers it is made of.  A list is a sequence of *)
(* records [head, tail): headSeq[i] and tailSeq[i] of ALTUS_UB_List, the   *)
(* first "count" entries only.  The operators are pure: altusUBCheck       *)
(* yields the code it returns and the list it leaves behind.               *)
(***************************************************************************)
EXTENDS Integers, Sequences, SequencesExt, FiniteSetsExt

CONSTANTS
    SeqSpace,  \* number of sequence numbers: 2^32 in the code, even
    MaxUB      \* ALTUS_MAX_UNSEQ_BLOCK_COUNT: 8 in the code

ASSUME SeqSpaceAssumption == SeqSpace \in Nat /\ SeqSpace > 2 /\ SeqSpace % 2 = 0
ASSUME MaxUBAssumption == MaxUB \in Nat \ {0}

-----------------------------------------------------------------------------
Seqs == 0 .. (SeqSpace - 1)

\* unsigned addition and subtraction of sequence numbers
Plus(a, n) == (a + n) % SeqSpace
Minus(a, b) == (a - b) % SeqSpace

\* (int)(a - b) > 0
After(a, b) == Minus(a, b) \in 1 .. ((SeqSpace \div 2) - 1)

-----------------------------------------------------------------------------
Result(code, list) == [code |-> code, list |-> list]

\* The iteration at entry i of the loop returns.  The loop falls through at
\* an entry that ends before seq, unless it is the last one; at distance
\* SeqSpace / 2 neither comparison holds and it falls through as well.
Stops(l, i, seq) ==
    \/ After(l[i].head, seq)
    \/ After(l[i].tail, seq)
    \/ seq = l[i].tail
    \/ After(seq, l[i].tail) /\ i = Len(l)

\* Entry i starts after seq: the block goes before it or is joined to it.
PutBefore(l, i, b) ==
    CASE After(l[i].head, b.tail) ->
            IF Len(l) < MaxUB THEN Result("NEW_UB_ADDED", InsertAt(l, i, b))
                              ELSE Result("FULL", l)
      [] b.tail = l[i].head ->
            Result("UB_EXTENDED", ReplaceAt(l, i, [l[i] EXCEPT !.head = b.head]))
      [] OTHER -> Result("MALICIOUS_INPUT", l)

\* Mutant: a gap closed exactly is recorded, but the two entries stay apart.
PutBehind_NoMerge(l, i, b) ==
    IF i = Len(l) \/ After(l[i+1].head, b.tail) \/ b.tail = l[i+1].head
    THEN Result("UB_EXTENDED", ReplaceAt(l, i, [l[i] EXCEPT !.tail = b.tail]))
    ELSE Result("MALICIOUS_INPUT", l)

\* The block begins where entry i ends; it may close the gap to entry i+1.
PutBehind(l, i, b) ==
    IF i = Len(l) \/ After(l[i+1].head, b.tail)
    THEN Result("UB_EXTENDED", ReplaceAt(l, i, [l[i] EXCEPT !.tail = b.tail]))
    ELSE IF b.tail = l[i+1].head
    THEN Result("UB_EXTENDED",
                RemoveAt(ReplaceAt(l, i, [l[i] EXCEPT !.tail = l[i+1].tail]), i + 1))
    ELSE Result("MALICIOUS_INPUT", l)

\* The block lies behind the last entry.
PutLast(l, b) ==
    IF Len(l) < MaxUB THEN Result("NEW_UB_ADDED", Append(l, b))
                      ELSE Result("FULL", l)

altusUBCheck(l, seq, length) ==
    LET b == [head |-> seq, tail |-> Plus(seq, length)]
        stops == {i \in DOMAIN l : Stops(l, i, seq)}
        i == Min(stops)
    IN  CASE l = << >> -> Result("NEW_UB_ADDED", << b >>)
          [] l # << >> /\ stops = {} -> Result("MALICIOUS_INPUT", l)
          [] OTHER ->
                IF After(l[i].head, seq) THEN PutBefore(l, i, b)
                ELSE IF After(l[i].tail, seq) THEN Result("MALICIOUS_INPUT", l)
                ELSE IF seq = l[i].tail THEN PutBehind(l, i, b)
                ELSE PutLast(l, b)

altusUBPop(l) == Tail(l)
=============================================================================
