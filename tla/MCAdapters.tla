---------------------------- MODULE MCAdapters -----------------------------
(* Instances of Adapters for TLC. *)
EXTENDS Adapters

CONSTANTS i1, i2, i3

Aware(h) == [aware |-> TRUE, hour |-> h]
Naive(h) == [aware |-> FALSE, hour |-> h]

\* The clocks of the host go forward by an hour between the naive dates at 11 and at 36.
MCDates == {Aware(0), Aware(18), Aware(36), Naive(0), Naive(11), Naive(36), Naive(60)}
MCStamp == [d \in MCDates |-> IF d.aware \/ d.hour < 24 THEN d.hour ELSE d.hour - 1]

\* With a window of one day: i1 has a zone, and dates with one lie in the window and less than
\* a day beyond it.  i2 has none, and of the dates without one the last is in the window, the
\* second only by its timestamp, the first not at all.  i3 has no date.
MCStartsAt == [i \in Items |-> CASE i = i1 -> Aware(0) [] i = i2 -> Naive(36) [] OTHER -> NoDate]

MCCity == [i \in Items |-> CASE i = i1 -> NoCity [] i = i2 -> "there" [] OTHER -> "here"]

MCVenue == [i \in Items |-> IF i = i1 THEN Blank ELSE "hall"]

\* A nearer result than the one that shares venue and time; wording that gives the farthest
\* away, with and without room for it in the block; two that are equally near.
MCCandidates ==
  LET By(a, b, c) == [i \in Items |-> CASE i = i1 -> a [] i = i2 -> b [] OTHER -> c]
  IN {[on |-> Naive(36), city |-> NoCity,  venue |-> "hall", cosine |-> By(9, 6, 7), lexical |-> By(0, 0, 0)],
      [on |-> Aware(18), city |-> NoCity,  venue |-> "hall", cosine |-> By(7, 6, 5), lexical |-> By(0, 0, 9)],
      [on |-> Naive(60), city |-> "there", venue |-> Blank,  cosine |-> By(9, 9, 8), lexical |-> By(0, 0, 0)],
      [on |-> NoDate,    city |-> "here",  venue |-> "hall", cosine |-> By(8, 7, 9), lexical |-> By(0, 9, 0)]}
=============================================================================
