------------------------------ MODULE TextOps ------------------------------
(* Operations on a text and their transformation (the_lab/collab.py, and its   *)
(* port dashboard/src/lib/ot.ts, which joins components less often).           *)
(*                                                                            *)
(* A text is a sequence of letters, which are positive numbers.  An operation  *)
(* is a sequence of components; each inserts or deletes a piece at a position  *)
(* in the text as the components before it leave it.                           *)
EXTENDS Integers, SequencesExt

NoText == <<0>>  \* the result of an operation that does not fit the text

Insert(p, s) == [ins |-> TRUE, p |-> p, s |-> s]
Delete(p, s) == [ins |-> FALSE, p |-> p, s |-> s]

Put(text, p, s) == SubSeq(text, 1, p) \o s \o SubSeq(text, p + 1, Len(text))
Cut(text, p, n) == SubSeq(text, 1, p) \o SubSeq(text, p + n + 1, Len(text))

Fits(text, c) ==
    IF c.ins THEN c.p \in 0..Len(text)
    ELSE /\ c.p \in 0..(Len(text) - Len(c.s))
         /\ SubSeq(text, c.p + 1, c.p + Len(c.s)) = c.s

RECURSIVE ApplyOp(_, _)
ApplyOp(text, op) ==
    IF op = << >> THEN text
    ELSE LET c == Head(op)
         IN IF text = NoText \/ ~Fits(text, c) THEN NoText
            ELSE ApplyOp(IF c.ins THEN Put(text, c.p, c.s) ELSE Cut(text, c.p, Len(c.s)), Tail(op))

\* _append: the server joins pieces that touch or overlap, a dashboard those that
\* follow each other.
Joins(who, last, c) ==
    /\ last.ins = c.ins
    /\ IF who = "server"
       THEN IF c.ins THEN c.p \in last.p..(last.p + Len(last.s))
            ELSE last.p \in c.p..(c.p + Len(c.s))
       ELSE c.p = IF c.ins THEN last.p + Len(last.s) ELSE last.p

AppendPiece(who, dest, c) ==
    IF c.s = << >> THEN dest
    ELSE IF dest = << >> \/ ~Joins(who, Last(dest), c) THEN Append(dest, c)
    ELSE LET last == Last(dest)
         IN Append(Front(dest),
                   IF c.ins THEN Insert(last.p, Put(last.s, c.p - last.p, c.s))
                   ELSE Delete(c.p, Put(c.s, last.p - c.p, last.s)))

RECURSIVE AppendAll(_, _, _)
AppendAll(who, dest, op) ==
    IF op = << >> THEN dest ELSE AppendAll(who, AppendPiece(who, dest, Head(op)), Tail(op))

\* _transform_position
Moved(pos, c, after) ==
    IF c.ins THEN IF c.p < pos \/ (c.p = pos /\ after) THEN pos + Len(c.s) ELSE pos
    ELSE IF pos <= c.p THEN pos
    ELSE IF pos <= c.p + Len(c.s) THEN c.p ELSE pos - Len(c.s)

\* The error of two deletions that do not agree on what they delete: a component that
\* fits no text, so that an operation with it is refused.  A left operation keeps it.
Clash       == Insert(-1, <<0>>)
Clashes(op) == \E k \in DOMAIN op : op[k].p < 0

\* transform_component: the pieces c becomes once "other" has been applied.  Of
\* two inserts at one place the right one moves.
Pieces(c, other, right) ==
    LET end == c.p + Len(c.s)
        otherEnd == other.p + Len(other.s)
        Clip(n) == IF n < 0 THEN 0 ELSE IF n > Len(c.s) THEN Len(c.s) ELSE n
        head == SubSeq(c.s, 1, Clip(other.p - c.p))
        tail == SubSeq(c.s, Clip(otherEnd - c.p) + 1, Len(c.s))
        from == IF c.p > other.p THEN c.p ELSE other.p
        upTo == IF end < otherEnd THEN end ELSE otherEnd
    IN IF c.ins THEN <<Insert(Moved(c.p, other, right), c.s)>>
       ELSE IF other.ins
       THEN <<Delete(c.p, head),
              Delete(c.p + Len(other.s), SubSeq(c.s, Len(head) + 1, Len(c.s)))>>
       ELSE IF c.p >= otherEnd THEN <<Delete(c.p - Len(other.s), c.s)>>
       ELSE IF end <= other.p THEN <<c>>
       ELSE IF SubSeq(c.s, from - c.p + 1, upTo - c.p)
               # SubSeq(other.s, from - other.p + 1, upTo - other.p) THEN <<Clash>>
       ELSE <<Delete(Moved(c.p, other, FALSE), head \o tail)>>

\* transform_x: two operations on one text, each as it is after the other.
RECURSIVE TransformX(_, _, _)

\* One component of the right operation goes past the left one, into newRight.
RECURSIVE Pass(_, _, _, _, _)
Pass(who, left, newLeft, c, newRight) ==
    IF left = << >> THEN [left |-> newLeft, right |-> AppendPiece(who, newRight, c)]
    ELSE LET done == AppendAll(who, newLeft, Pieces(Head(left), c, FALSE))
             next == AppendAll(who, << >>, Pieces(c, Head(left), TRUE))
             split == TransformX(who, Tail(left), next)
         IN CASE Len(next) = 1 -> Pass(who, Tail(left), done, Head(next), newRight)
              [] next = << >> -> [left |-> AppendAll(who, done, Tail(left)), right |-> newRight]
              [] OTHER -> [left |-> AppendAll(who, done, split.left),
                           right |-> AppendAll(who, newRight, split.right)]

TransformX(who, left, right) ==
    IF right = << >> THEN [left |-> left, right |-> << >>]
    ELSE LET but == TransformX(who, left, Front(right))
         IN Pass(who, but.left, << >>, Last(right), but.right)

\* What an operation becomes after those others (the server's side of it).
RECURSIVE AfterAll(_, _)
AfterAll(op, others) ==
    IF others = << >> THEN op
    ELSE AfterAll(TransformX("server", op, Head(others)).left, Tail(others))

\* _diff_ops: what lies between the common prefix and suffix is replaced.
DiffOps(old, new) ==
    LET shorter == Min({Len(old), Len(new)})
        prefix == Max({k \in 0..shorter : SubSeq(old, 1, k) = SubSeq(new, 1, k)})
        suffix == Max({k \in 0..(shorter - prefix) :
                          SubSeq(old, Len(old) - k + 1, Len(old))
                          = SubSeq(new, Len(new) - k + 1, Len(new))})
        removed == SubSeq(old, prefix + 1, Len(old) - suffix)
        added == SubSeq(new, prefix + 1, Len(new) - suffix)
    IN (IF removed = << >> THEN << >> ELSE <<Delete(prefix, removed)>>)
       \o (IF added = << >> THEN << >> ELSE <<Insert(prefix, added)>>)
=============================================================================
