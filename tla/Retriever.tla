----------------------------- MODULE Retriever -----------------------------
(***************************************************************************)
(* The retrieval corpus of gpumon/rca/rag.py and embeddings.py, used by    *)
(* threads without a lock: the event loop indexes a resolved incident      *)
(* while diagnosis threads search.  One action is what one thread does     *)
(* between two accesses to what they share (the lists, the IDF table and   *)
(* its dirty flag).                                                        *)
(*                                                                         *)
(* A text is the set of its terms: words for the TF-IDF retriever, hash    *)
(* buckets for the hashing embedder.  What makes two Titan vectors alike   *)
(* is the model's affair; sharing a term stands for it.  Every weight is   *)
(* positive, so a score is positive when query and document share a term   *)
(* that has one; how the positive scores rank is left open.                *)
(*                                                                         *)
(* A definition named X_Y, before X, is X with the mistake Y, and is used  *)
(* by no action.                                                           *)
(***************************************************************************)
EXTENDS Integers, Sequences, FiniteSets

CONSTANTS
  Documents,      \* runbooks and resolved incidents
  KindOf,         \* "runbook" or "incident"
  TermsOf,        \* the terms of each document
  Corpora,        \* what the constructor may load: lists of documents
  Queries,        \* what a diagnosis may ask for: sets of terms
  Threads,        \* diagnosis threads
  K,              \* results per search
  Backends,       \* what build_retriever may choose
  EmbedMayFail,   \* AWS mode: invoke_model may raise
  MaxDocs         \* bounds the corpus

Terms == UNION ({TermsOf[d] : d \in Documents} \cup Queries)

ASSUME CorpusAssumption ==
  /\ KindOf \in [Documents -> {"runbook", "incident"}]
  /\ DOMAIN TermsOf = Documents
  /\ Corpora \subseteq Seq(Documents)
ASSUME RetrieverAssumption ==
  /\ Backends \subseteq {"tfidf", "embedding"}
  /\ EmbedMayFail \in BOOLEAN
  /\ K \in Nat
  /\ MaxDocs \in Nat

VARIABLES
  backend,  \* the retriever built
  docs,     \* _docs
  entries,  \* _tf or _vecs: the document each one was computed from
  idf,      \* how many entries _idf was fitted to
  dirty,    \* _dirty
  adding,   \* where the running add() stands: "idle", "document" or "entry"
  search,   \* where each thread's retrieve() stands
  raced,    \* history: documents whose entry was added while a fit was under way
  lost      \* history: documents whose embedding failed

vars == <<backend, docs, entries, idf, dirty, adding, search, raced, lost>>

Idle == [pc |-> "idle", kind |-> "runbook", query |-> {}, known |-> 0, fit |-> 0,
         weights |-> {}, next |-> 1, hits |-> {}, result |-> {}]

(* build_retriever, and KnowledgeBase's constructor: runbooks from disk, then
   the seed incidents, before any other thread exists. *)
Init ==
  /\ backend \in Backends
  /\ docs \in Corpora
  /\ entries = docs
  /\ idf = 0
  /\ dirty = TRUE
  /\ adding = "idle"
  /\ search = [t \in Threads |-> Idle]
  /\ raced = {}
  /\ lost = {}

-----------------------------------------------------------------------------
(* index_incident: add().  The event loop runs one at a time. *)

AddDocument(d) ==
  /\ adding = "idle"
  /\ Len(docs) < MaxDocs
  /\ KindOf[d] = "incident"
  /\ docs' = Append(docs, d)
  /\ adding' = "document"
  /\ UNCHANGED <<backend, entries, idf, dirty, search, raced, lost>>

(* Threads whose fit has read the entries and has not yet cleared the flag. *)
Fitting == {t \in Threads : search[t].pc \in {"fitted", "published"}}

AddEntry ==
  /\ adding = "document"
  /\ entries' = Append(entries, docs[Len(docs)])
  /\ raced' = IF Fitting # {} THEN raced \cup {Len(docs)} ELSE raced
  /\ adding' = "entry"
  /\ UNCHANGED <<backend, docs, idf, dirty, search, lost>>

(* The embedder raises: the document stays, without a vector of its own. *)
AddFail ==
  /\ EmbedMayFail
  /\ backend = "embedding"
  /\ adding = "document"
  /\ lost' = lost \cup {Len(docs)}
  /\ adding' = "idle"
  /\ UNCHANGED <<backend, docs, entries, idf, dirty, search, raced>>

AddEnd_Clean ==
  /\ adding = "entry"
  /\ adding' = "idle"
  /\ UNCHANGED <<backend, docs, entries, idf, dirty, search, raced, lost>>

AddEnd ==
  /\ adding = "entry"
  /\ dirty' = IF backend = "tfidf" THEN TRUE ELSE dirty
  /\ adding' = "idle"
  /\ UNCHANGED <<backend, docs, entries, idf, search, raced, lost>>

-----------------------------------------------------------------------------
(* retrieve(): a search of the runbooks, then one of the incidents *)

(* The documents whose add() has returned. *)
Added == IF adding = "idle" THEN Len(docs) ELSE Len(docs) - 1

(* The thread goes on to step pc; the corpus stays as it is. *)
Step(t, from, next) ==
  /\ search[t].pc = from
  /\ search' = [search EXCEPT ![t] = next]
  /\ UNCHANGED <<backend, docs, entries, adding, raced, lost>>

Goto(t, pc) == [search[t] EXCEPT !.pc = pc]

Retrieve(t, query) ==
  /\ Step(t, "idle", [Idle EXCEPT !.pc = "test", !.query = query, !.known = Added])
  /\ UNCHANGED <<idf, dirty>>

(* One search is over with the given hits. *)
Ended(t, found) ==
  LET s == [search[t] EXCEPT !.result = @ \cup found, !.hits = {}, !.weights = {},
                             !.next = 1, !.fit = 0]
  IN  IF s.kind = "runbook"
      THEN [s EXCEPT !.pc = "test", !.kind = "incident", !.known = Added]
      ELSE [s EXCEPT !.pc = "done"]

SearchNothing(t) ==
  /\ docs = <<>>
  /\ Step(t, "test", Ended(t, {}))
  /\ UNCHANGED <<idf, dirty>>

Test(t) ==
  /\ docs # <<>>
  /\ Step(t, "test", Goto(t, IF backend = "tfidf" /\ dirty THEN "fit" ELSE "query"))
  /\ UNCHANGED <<idf, dirty>>

(* _fit_idf counts terms until it has come to the end of the entries ... *)
Fit(t) ==
  /\ Step(t, "fit", [Goto(t, "fitted") EXCEPT !.fit = Len(entries)])
  /\ UNCHANGED <<idf, dirty>>

(* ... and stores the table ... *)
Publish(t) ==
  /\ Step(t, "fitted", Goto(t, "published"))
  /\ idf' = search[t].fit
  /\ UNCHANGED dirty

(* ... and clears the flag. *)
Clear(t) ==
  /\ Step(t, "published", Goto(t, "query"))
  /\ dirty' = FALSE
  /\ UNCHANGED idf

(* The terms that weigh something after a fit to n entries. *)
Weighted(n) ==
  IF backend = "tfidf" THEN UNION {TermsOf[entries[i]] : i \in 1 .. n} ELSE Terms

Query(t) ==
  /\ Step(t, "query", [Goto(t, "score") EXCEPT !.weights = search[t].query \cap Weighted(idf)])
  /\ UNCHANGED <<idf, dirty>>

(* The embedder raises, and the diagnosis with it. *)
QueryFail(t) ==
  /\ EmbedMayFail
  /\ backend = "embedding"
  /\ Step(t, "query", Idle)
  /\ UNCHANGED <<idf, dirty>>

(* zip() over the live lists ends with the shorter one. *)
Scorable == IF Len(docs) < Len(entries) THEN Len(docs) ELSE Len(entries)

(* Two vectors have a positive cosine. *)
Alike(terms, others) == terms \cap others # {}

Hit(t, i) == Alike(search[t].weights, TermsOf[entries[i]] \cap Weighted(idf))

Score_AnyKind(t) ==
  LET i == search[t].next
  IN  /\ i <= Scorable
      /\ Step(t, "score", [search[t] EXCEPT !.next = i + 1,
                                            !.hits = IF Hit(t, i) THEN @ \cup {i} ELSE @])
      /\ UNCHANGED <<idf, dirty>>

Score(t) ==
  LET i == search[t].next
  IN  /\ i <= Scorable
      /\ Step(t, "score",
              [search[t] EXCEPT
                 !.next = i + 1,
                 !.hits = IF KindOf[docs[i]] = search[t].kind /\ Hit(t, i) THEN @ \cup {i} ELSE @])
      /\ UNCHANGED <<idf, dirty>>

Best_All(hits) == {hits}

(* The K best of the hits. *)
Best(hits) ==
  {best \in SUBSET hits :
     Cardinality(best) = IF Cardinality(hits) < K THEN Cardinality(hits) ELSE K}

Rank(t) ==
  /\ search[t].next > Scorable
  /\ \E best \in Best(search[t].hits) : Step(t, "score", Ended(t, best))
  /\ UNCHANGED <<idf, dirty>>

(* The thread has what it asked for; the pool uses it again. *)
Return(t) ==
  /\ Step(t, "done", Idle)
  /\ UNCHANGED <<idf, dirty>>

Add == AddEntry \/ AddFail \/ AddEnd \/ \E d \in Documents : AddDocument(d)

Search(t) ==
  \/ \E query \in Queries : Retrieve(t, query)
  \/ SearchNothing(t) \/ Test(t)
  \/ Fit(t) \/ Publish(t) \/ Clear(t)
  \/ Query(t) \/ QueryFail(t)
  \/ Score(t) \/ Rank(t) \/ Return(t)

Next == Add \/ \E t \in Threads : Search(t)

Spec == Init /\ [][Next]_vars

-----------------------------------------------------------------------------
(* Properties *)

(* No more than 2 * K documents, the K best runbooks and the K best incidents,
   ground a diagnosis, and no position is outside the corpus. *)
TypeOK ==
  /\ backend \in Backends
  /\ docs \in Seq(Documents)
  /\ entries \in Seq(Documents)
  /\ idf \in 0 .. Len(entries)
  /\ dirty \in BOOLEAN
  /\ adding \in {"idle", "document", "entry"}
  /\ search \in [Threads ->
       [pc : {"idle", "test", "fit", "fitted", "published", "query", "score", "done"},
        kind : {"runbook", "incident"}, query : Queries \cup {{}}, known : 0 .. Len(docs),
        fit : 0 .. Len(entries), weights : SUBSET Terms, next : 1 .. Len(docs) + 1,
        hits : SUBSET (1 .. Len(docs)), result : SUBSET (1 .. Len(docs))]]
  /\ raced \in SUBSET (1 .. Len(docs))
  /\ lost \in SUBSET (1 .. Len(docs))
  /\ \A t \in Threads : Cardinality(search[t].result) <= 2 * K

(* No add() up to the document failed: its entry is its own. *)
Aligned(i) == \A l \in lost : i < l

(* A document is found once it is indexed: a search that has scored everything
   has hit every document of its kind that was added before it began and that
   shares with the query a term of some document whose add() no fit overtook.
   The dirty flag, set last by add() and cleared last by _fit_idf, is all that
   makes the search see a table with that term (rag.py:64, 72 and 90). *)
IndexedIsFound ==
  \A t \in Threads : search[t].pc = "score" /\ search[t].next > Scorable =>
    \A i, q \in 1 .. search[t].known :
      /\ Aligned(i) /\ i <= Scorable
      /\ KindOf[docs[i]] = search[t].kind
      /\ q \notin raced
      /\ search[t].query \cap TermsOf[docs[i]] \cap Weighted(q) # {}
      => i \in search[t].hits

(* What a diagnosis is grounded in shares a term with its signals and is of the
   kind it is shown as, although documents and entries grow, one after the
   other, while it is scored (rag.py:62-63, 94): until an embedding fails. *)
HitsAreDeserved ==
  \A t \in Threads : \A i \in search[t].hits : Aligned(i) =>
    /\ KindOf[docs[i]] = search[t].kind
    /\ search[t].query \cap TermsOf[docs[i]] # {}

-----------------------------------------------------------------------------
(* Inductive invariants *)

(* Entries are of the documents in order, up to the first one that failed. *)
EntriesFollow ==
  /\ Len(entries) <= Len(docs)
  /\ adding = "document" => Len(entries) < Len(docs)
  /\ lost = {} => Len(entries) = IF adding = "document" THEN Len(docs) - 1 ELSE Len(docs)
  /\ lost # {} => \E l \in lost : l <= Len(entries) + 1
  /\ \A i \in 1 .. Len(entries) : Aligned(i) => entries[i] = docs[i]
  /\ backend = "tfidf" => lost = {}

(* The documents whose entry is there, when none has failed. *)
Entered == IF adding = "document" THEN Len(docs) - 1 ELSE Len(docs)

(* Every fit under way, the table once the flag is clear, and the table under a
   search, cover each document whose add() was not overtaken. *)
FitsCover ==
  backend = "tfidf" =>
    \A q \in 1 .. Entered : q \notin raced =>
      /\ \A t \in Fitting : search[t].fit >= q
      /\ \A t \in Threads : search[t].pc = "published" => idf >= q
      /\ ~dirty /\ q <= Added => idf >= q
      /\ \A t \in Threads : search[t].pc \in {"query", "score"} /\ q <= search[t].known => idf >= q

(* How far a search has come. *)
SearchesFollow ==
  \A t \in Threads :
    LET s == search[t]
    IN  /\ s.known <= Added
        /\ s.pc = "score" =>
             /\ s.weights \subseteq s.query
             /\ \A q \in 1 .. s.known : q \notin raced => s.query \cap Weighted(q) \subseteq s.weights
             /\ s.next - 1 <= Len(entries)
             /\ \A i \in 1 .. s.next - 1, q \in 1 .. s.known :
                  /\ Aligned(i)
                  /\ KindOf[docs[i]] = s.kind
                  /\ q \notin raced
                  /\ s.query \cap TermsOf[docs[i]] \cap Weighted(q) # {}
                  => i \in s.hits
        /\ s.pc # "score" => s.hits = {} /\ s.next = 1
        /\ s.hits \subseteq 1 .. s.next - 1
=============================================================================
