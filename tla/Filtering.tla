------------------------------ MODULE Filtering ------------------------------
(***************************************************************************)
(* Array.filter(): the elements of seq in S, in order.  It is SelectSeq    *)
(* for a test by a set, written out because the provers know nothing of    *)
(* SelectSeq.                                                              *)
(***************************************************************************)
LOCAL INSTANCE Naturals
LOCAL INSTANCE Sequences

Filter(seq, S) ==
  LET kept[n \in 0 .. Len(seq)] ==
        IF n = 0 THEN <<>>
        ELSE IF seq[n] \in S THEN Append(kept[n - 1], seq[n]) ELSE kept[n - 1]
  IN  kept[Len(seq)]

=============================================================================
