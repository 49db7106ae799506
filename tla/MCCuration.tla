---------------------------- MODULE MCCuration -----------------------------
(* Instances of Curation for TLC. *)
EXTENDS Curation

\* Two links of one page, two of other pages, one that is blank and one that cannot be split.
MCLinks == {"a", "a?utm", "b", "c", "", "a:x"}
MCCanonical == [l \in MCLinks |-> CASE l \in {"a", "a?utm"} -> "a" [] l = "" -> NoUrl [] OTHER -> l]
MCTexts == {<<>>, <<"fr", "", "en", "fr">>}
MCAnswers ==
  {<<>>, <<"b">>, <<"", "c">>, <<"a", "b">>, <<"b", "a">>, <<"c", "a">>, <<"a", "a?utm">>,
   <<BadRow, "b", "c", "a">>, <<"a", "b", "a:x">>, <<"a", "a:x">>}
\* Replies that are whole, partial, repeating and out of range.
MCOrders == {<<>>, <<2, 1>>, <<2>>, <<3, 2, 2>>, <<1, 1, 0>>}
\* As by default, top_n is more than the bot delivers; beside it fewer places, with more
\* slots than places, and a cap that leaves out the last result; and no place and no slot.
MCDefault  == {[top_n |-> 2, exploration_slots |-> 1, max_results_shown |-> 1]}
MCSettings == MCDefault \cup
  {[top_n |-> 1, exploration_slots |-> 1, max_results_shown |-> -1],
   [top_n |-> 1, exploration_slots |-> 2, max_results_shown |-> 1],
   [top_n |-> 0, exploration_slots |-> 0, max_results_shown |-> 1]}
\* Every order of two likings and an aversion, and no taste at all.
MCTastes == {taste \in [Items -> {-1, 2, 3}] : IsInjective(taste)} \cup {[i \in Items |-> 0]}
\* Dates say nothing here: which results are compared is left to the deduper.
MCDates == {}
MCStamp == [d \in MCDates |-> 0]
MCStartsAt == [i \in Items |-> NoDate]
MCCity == [i \in Items |-> NoCity]
MCSymmetry == Permutations(Items)

\* The definitions of Lists, which count places, agree with those that build a list up.
ASSUME ListsAgree ==
  LET Elements == 1..3
      Short == BoundedSeq(Elements, 4)
      AddNew(list, x) == IF Contains(list, x) THEN list ELSE Append(list, x)
      Of(s, key, k) == SelectSeq(s, LAMBDA x : key[x] = k)
  IN /\ \A s \in Short : Distinct(s) = FoldLeft(AddNew, <<>>, s)
     /\ \A s \in Short, S \in SUBSET Elements :
          Keep(s, S) = SelectSeq(s, LAMBDA x : x \in S)
     /\ \A s \in Short, key \in [Elements -> {-1, 0, 2}] :
          StableSort(s, key) = Of(s, key, 2) \o Of(s, key, 0) \o Of(s, key, -1)
     /\ \A each \in BoundedSeq(BoundedSeq(1..2, 2), 3) : Flatten(each) = FlattenSeq(each)
=============================================================================
