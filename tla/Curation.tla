------------------------------ MODULE Curation ------------------------------
(***************************************************************************)
(* One run of the pipeline after another, with what passes from stage to   *)
(* stage: the searches, their ranked lists, the fused candidates, the      *)
(* linked and unseen results, the order, and the batch delivered.  Runs    *)
(* that overlap are the subject of Assistant, what a reconcile does to the *)
(* corpus that of Dedup.                                                   *)
(***************************************************************************)
EXTENDS Ranking, Stores

CONSTANTS
  Texts,        \* the replies of the expander: sequences of texts, "" for a blank
  Answers,      \* the replies of one web search: sequences of links and bad rows
  Orders,       \* the replies of the reranker
  Tastes,       \* the taste scores that results may have
  NoQuery,
  Events        \* the disturbances: failing calls, deletions

ASSUME CurationAssumption ==
  /\ Texts \subseteq Seq(STRING)
  /\ Answers \subseteq Seq(Links \cup {BadRow})
  /\ Orders \subseteq Seq(Int)
  /\ Tastes \subseteq [Items -> Int]
  /\ NoQuery \notin Queries

VARIABLES
  db,           \* the SQLite store
  stage,        \* where the run is suspended
  query,        \* the saved search of the run
  searches,     \* the texts searched for
  lists,        \* the ranked lists of urls
  unseen,       \* the results handed to the ranker
  batch,        \* the order of the run whose results are being sent, and what it was made of
  ranking,      \* the settings of the ranker, read at start, and the cap of the search
  cached,       \* the searches whose domain is known
  saved,        \* the searches ever saved
  deleted       \* those deleted

hand == <<query, searches, lists, unseen, batch>>
vars == <<db, stage, hand, ranking, cached, saved, deleted>>

Stages == {"none", "classifying", "expanding", "searching", "reconciling", "ranking", "sending"}
NoBatch == [from |-> <<>>, taste |-> <<>>, order |-> <<>>]

Init ==
  /\ db = Empty
  /\ stage = "none"
  /\ query = NoQuery
  /\ searches = <<>>
  /\ lists = <<>>
  /\ unseen = <<>>
  /\ batch = NoBatch
  /\ ranking \in Settings
  /\ cached = {}
  /\ saved = {}
  /\ deleted = {}

Save(q) ==
  /\ q \notin saved
  /\ db' = SqlUpsert(db, q)
  /\ saved' = saved \cup {q}
  /\ UNCHANGED <<stage, hand, ranking, cached, deleted>>

\* The delete button, also while a run of the search is under way.
DeleteSearch(q) ==
  /\ "delete" \in Events
  /\ q \in Listed(db)
  /\ db' = SqlDelete(db, q)
  /\ deleted' = deleted \cup {q}
  /\ UNCHANGED <<stage, hand, ranking, cached, saved>>

\* run: the row is read, and its domain looked up.
Begin(q) ==
  /\ stage = "none"
  /\ q \in Listed(db)
  /\ query' = q
  /\ stage' = IF q \in cached THEN "expanding" ELSE "classifying"
  /\ UNCHANGED <<db, searches, lists, unseen, batch, ranking, cached, saved, deleted>>

\* The domain, or the fallback, is written back with the whole row.
Classified ==
  /\ stage = "classifying"
  /\ db' = SqlUpsert(db, query)
  /\ cached' = cached \cup {query}
  /\ stage' = "expanding"
  /\ UNCHANGED <<hand, ranking, saved, deleted>>

Expanded ==
  /\ stage = "expanding"
  /\ \E reply \in Texts : searches' = Expand(reply)
  /\ stage' = "searching"
  /\ UNCHANGED <<db, query, lists, unseen, batch, ranking, cached, saved, deleted>>

Lists == {Search(reply) : reply \in {r \in Answers : ~SearchRaises(r)}}

\* Every search has answered.
Searched ==
  /\ stage = "searching"
  /\ lists' \in [DOMAIN searches -> Lists]
  /\ searches' = <<>>
  /\ stage' = "reconciling"
  /\ UNCHANGED <<db, query, unseen, batch, ranking, cached, saved, deleted>>

\* Mutant: what was delivered is not marked.
FinishUnmarked(store, order) == db' = store

\* The run returned an order: the first of it are delivered and marked.  A scheduled run
\* dates its search if that is still there; a manual run of a search that is not fails.
Finish(store, order) ==
  \E scheduled \in BOOLEAN :
    LET live   == query \in Listed(store)
        marked == MarkShown(store, IF live \/ scheduled THEN ToSet(Deliver(order, ranking)) ELSE {})
    IN db' = IF live /\ scheduled THEN SqlUpsert(marked, query) ELSE marked

\* The deduper has a canonical result for each candidate; several may have the same.  They
\* are linked to the search, read back and filtered; nothing is awaited if none is left.
Reconciled ==
  /\ stage = "reconciling"
  /\ \E merged \in {Merge(lists)} : \E found \in [ToSet(merged) -> Items] :
       LET stored == [db EXCEPT !.corpus = @ \cup Range(found)]
           linked == SqlLink(stored, query, [k \in DOMAIN merged |-> found[merged[k]]])
       IN /\ unseen' = Unseen(linked, query)
          /\ IF unseen' = <<>> THEN Finish(linked, <<>>) ELSE db' = linked
  /\ stage' = IF unseen' = <<>> THEN "sending" ELSE "ranking"
  /\ lists' = <<>>
  /\ UNCHANGED <<query, searches, batch, ranking, cached, saved, deleted>>

\* The reranker answered.
Ranked ==
  /\ stage = "ranking"
  /\ \E taste \in {Restrict(t, ToSet(unseen)) : t \in Tastes}, reply \in Orders :
       LET order == Rank(unseen, taste, reply, ranking) IN
       /\ batch' = [from |-> unseen, taste |-> taste, order |-> order]
       /\ Finish(db, order)
  /\ unseen' = <<>>
  /\ stage' = "sending"
  /\ UNCHANGED <<query, searches, lists, ranking, cached, saved, deleted>>

\* The deliveries of the run are sent.
Sent ==
  /\ stage = "sending"
  /\ query' = NoQuery
  /\ batch' = NoBatch
  /\ stage' = "none"
  /\ UNCHANGED <<db, searches, lists, unseen, ranking, cached, saved, deleted>>

\* A call raises, or one of the searches cannot read one of its links: the run is over and
\* what it had in hand is lost.
CallFails ==
  /\ \/ "call" \in Events /\ stage \notin {"none", "sending"}
     \/ stage = "searching" /\ \E reply \in Answers : SearchRaises(reply)
  /\ stage' = "none"
  /\ query' = NoQuery
  /\ searches' = <<>>
  /\ lists' = <<>>
  /\ unseen' = <<>>
  /\ UNCHANGED <<db, batch, ranking, cached, saved, deleted>>

Next ==
  \/ Classified \/ Expanded \/ Searched \/ Reconciled \/ Ranked \/ Sent \/ CallFails
  \/ \E q \in Queries : Save(q) \/ DeleteSearch(q) \/ Begin(q)

Spec == Init /\ [][Next]_vars

-----------------------------------------------------------------------------
(* Properties the code has. *)

\* The variables keep their shape, and a run has in hand what its stage needs: at least one
\* search, none twice.
TypeOK ==
  /\ db \in Store
  /\ stage \in Stages
  /\ query \in Queries \cup {NoQuery}
  /\ stage = "searching" => searches # <<>> /\ IsInjective(searches)
  /\ stage = "ranking" => unseen # <<>>
  /\ ranking \in Settings
  /\ IsInjective(unseen) /\ ToSet(unseen) \subseteq Items
  /\ cached \subseteq saved /\ deleted \subseteq saved /\ saved \subseteq Queries

\* The order in which the searches' lists are handed to the merger decides nothing but
\* ties.
FusionIgnoresArrival == IgnoresArrival(lists)

\* Whatever the reranker replies, no result is lost or ranked twice, but for those of the
\* head that explorers displace.
ReplyLosesNothing == LosesNothing(batch.from, batch.taste, batch.order, ranking)

\* The exploration slots go to the results the taste is least sure of, at the end.
ExplorersAreUncertain == ExploresTheUncertain(batch.from, batch.taste, batch.order, ranking)

\* A result is passed over only for new ones: a run that had unseen results to rank delivers
\* at least one of them and none that was delivered before, so what its cap leaves behind
\* comes up after finitely many runs.  Only the deletion of the search meanwhile, a cap that
\* is not positive, or a configuration with neither places nor slots ends a run without a
\* delivery.
PassedOverOnlyForNew ==
  [][stage = "ranking" /\ stage' = "sending" =>
       LET new == db'.shown \ db.shown
       IN /\ new \subseteq ToSet(unseen)
          /\ new = {} => \/ query \in deleted
                         \/ ranking.max_results_shown <= 0
                         \/ ranking.top_n = 0 /\ ranking.exploration_slots = 0
          /\ new # {} => new = ToSet(Deliver(batch'.order, ranking))]_vars

-----------------------------------------------------------------------------
(* A property the documentation claims and the code lacks. *)

\* preferences.md: exploration slots bring fresh results before the owner.
ExplorersAreDelivered ==
  ToSet(Explorers(batch.from, batch.taste, ranking)) \subseteq ToSet(Deliver(batch.order, ranking))
=============================================================================
