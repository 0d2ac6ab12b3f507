----------------------------- MODULE Intervals -----------------------------
(***************************************************************************)
(* The interval arithmetic of the availability report.  An interval is     *)
(* <<start, end>>, the end left out; the lists of the code are sets here,  *)
(* and union's result, which is in order, a sequence.                      *)
(***************************************************************************)
EXTENDS Integers, SequencesExt

(* The order of tuples: by start, then by end.                             *)
Precedes(i, j) == i[1] < j[1] \/ (i[1] = j[1] /\ i[2] < j[2])

sorted(intervals) ==
    CHOOSE s \in [1 .. Cardinality(intervals) -> intervals] :
        Range(s) = intervals /\ \A m, n \in DOMAIN s : m < n => Precedes(s[m], s[n])

Joins(last, i) == i[1] <= last[2]

(* union: merged, in order.                                                *)
Merge(merged, i) ==
    IF merged # <<>> /\ Joins(Last(merged), i)
    THEN Append(Front(merged), <<Last(merged)[1], Max({Last(merged)[2], i[2]})>>)
    ELSE Append(merged, i)

union(intervals) == FoldLeft(Merge, <<>>, sorted({i \in intervals : i[2] > i[1]}))

(* What a hole leaves of a piece.                                          *)
cut(piece, hole) ==
    IF hole[2] <= piece[1] \/ hole[1] >= piece[2] THEN {piece}
    ELSE (IF hole[1] > piece[1] THEN {<<piece[1], hole[1]>>} ELSE {})
         \cup (IF hole[2] < piece[2] THEN {<<hole[2], piece[2]>>} ELSE {})

Punch(pieces, hole) == UNION {cut(piece, hole) : piece \in pieces}

subtract(intervals, holes) == FoldLeft(Punch, Range(union(intervals)), union(holes))

clip(intervals, start, end) ==
    {<<Max({i[1], start}), Min({i[2], end})>> :
        i \in {j \in intervals : j[2] > start /\ j[1] < end}}

Longer(sum, i) == sum + i[2] - i[1]

seconds(intervals) == FoldLeft(Longer, 0, union(intervals))
=============================================================================
