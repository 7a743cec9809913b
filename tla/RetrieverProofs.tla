--------------------------- MODULE RetrieverProofs ---------------------------
(***************************************************************************)
(* Retrieval without a lock finds what was indexed, and nothing it should  *)
(* not, for any number of threads, documents and queries.                  *)
(***************************************************************************)
EXTENDS Retriever, FiniteSetTheorems, TLAPS

Searches == [pc : {"idle", "test", "fit", "fitted", "published", "query", "score", "done"},
             kind : {"runbook", "incident"}, query : SUBSET Terms, known : Nat, fit : Nat,
             weights : SUBSET Terms, next : Nat \ {0}, hits : SUBSET Nat, result : SUBSET Nat]

(* The types, as wide as the argument allows. *)
Shape ==
  /\ docs \in Seq(Documents)
  /\ entries \in Seq(Documents)
  /\ idf \in Nat
  /\ dirty \in BOOLEAN
  /\ adding \in {"idle", "document", "entry"}
  /\ lost \in SUBSET Nat
  /\ search \in [Threads -> Searches]

RetrievalInv ==
  Shape /\ EntriesFollow /\ FitsCover /\ SearchesFollow /\ HitsAreDeserved

(* A retriever that nobody has searched. *)
LEMMA RetrievalInit == Init => RetrievalInv
<1> SUFFICES ASSUME Init PROVE RetrievalInv
  OBVIOUS
<1>1. docs \in Seq(Documents) /\ Len(docs) \in Nat
  BY CorpusAssumption DEF Init
<1>2. Shape
  BY <1>1 DEF Init, Shape, Searches, Idle
<1>3. EntriesFollow
  BY <1>1 DEF Init, EntriesFollow
<1>4. FitsCover
  BY DEF Init, FitsCover, Fitting, Idle
<1>5. SearchesFollow /\ HitsAreDeserved
  BY <1>1 DEF Init, SearchesFollow, HitsAreDeserved, Idle, Added
<1> QED BY <1>2, <1>3, <1>4, <1>5 DEF RetrievalInv

-----------------------------------------------------------------------------
(* add() *)

(* What the lists and counts of a corpus are. *)
LEMMA Lengths ==
  ASSUME RetrievalInv
  PROVE  /\ Len(docs) \in Nat /\ Len(entries) \in Nat /\ Len(entries) <= Len(docs)
         /\ Scorable = Len(entries)
         /\ Added <= Len(docs) /\ Added \in Int
         /\ backend = "tfidf" => Len(entries) = Entered /\ Added <= Entered
         /\ \A t \in Threads : search[t].known <= Added /\ search[t].known \in Nat
  BY DEF RetrievalInv, Shape, EntriesFollow, SearchesFollow, Scorable, Added, Entered, Searches

(* A corpus that only grows keeps what the searches have found. *)
LEMMA GrowingKeepsSearches ==
  ASSUME RetrievalInv, UNCHANGED <<search, backend>>,
         Added <= Added', Added' \in Int, lost \subseteq lost', raced \subseteq raced',
         docs' \in Seq(Documents), entries' \in Seq(Documents),
         Len(docs) <= Len(docs'), \A i \in 1 .. Len(docs) : docs'[i] = docs[i],
         Len(entries) <= Len(entries'), \A i \in 1 .. Len(entries) : entries'[i] = entries[i]
  PROVE  SearchesFollow' /\ HitsAreDeserved'
<1>1. ASSUME NEW i, Aligned(i)' PROVE Aligned(i)
  BY <1>1 DEF Aligned
<1>2. ASSUME NEW t \in Threads, NEW q \in 1 .. search[t].known PROVE Weighted(q)' = Weighted(q)
  <2>1. CASE backend = "tfidf"
    <3>1. q \in Nat /\ q <= Len(entries)
      BY <2>1, Lengths
    <3>2. \A i \in 1 .. q : i \in 1 .. Len(entries)
      BY <3>1, Lengths
    <3>3. \A i \in 1 .. q : entries'[i] = entries[i]
      BY <3>2
    <3> QED BY <2>1, <3>3 DEF Weighted
  <2>2. CASE backend # "tfidf"
    BY <2>2 DEF Weighted, Terms
  <2> QED BY <2>1, <2>2
<1>3. ASSUME NEW t \in Threads
      PROVE  /\ search[t].next - 1 \in Nat
             /\ search[t].pc = "score" => \A i \in 1 .. search[t].next - 1 : docs'[i] = docs[i]
  <2>1. search[t].next \in Nat \ {0}
    BY DEF RetrievalInv, Shape, Searches
  <2>2. search[t].pc = "score" => search[t].next - 1 <= Len(entries)
    BY DEF RetrievalInv, SearchesFollow
  <2>3. search[t].pc = "score" => \A i \in 1 .. search[t].next - 1 : i \in 1 .. Len(docs)
    BY <2>1, <2>2, Lengths
  <2> QED BY <2>1, <2>3
<1>4. SearchesFollow'
  <2> SUFFICES ASSUME NEW t \in Threads
               PROVE  LET s == search[t]
                      IN  /\ s.known <= Added'
                          /\ s.pc = "score" =>
                               /\ s.weights \subseteq s.query
                               /\ \A q \in 1 .. s.known :
                                    q \notin raced' => s.query \cap Weighted(q)' \subseteq s.weights
                               /\ s.next - 1 <= Len(entries')
                               /\ \A i \in 1 .. s.next - 1, q \in 1 .. s.known :
                                    /\ Aligned(i)'
                                    /\ KindOf[docs'[i]] = s.kind
                                    /\ q \notin raced'
                                    /\ s.query \cap TermsOf[docs'[i]] \cap Weighted(q)' # {}
                                    => i \in s.hits
                          /\ s.pc # "score" => s.hits = {} /\ s.next = 1
                          /\ s.hits \subseteq 1 .. s.next - 1
    BY DEF SearchesFollow
  <2> DEFINE s == search[t]
  <2>1. /\ s.known <= Added'
        /\ s.pc # "score" => s.hits = {} /\ s.next = 1
        /\ s.hits \subseteq 1 .. s.next - 1
    BY Lengths DEF RetrievalInv, SearchesFollow
  <2>2. ASSUME s.pc = "score" PROVE s.weights \subseteq s.query /\ s.next - 1 <= Len(entries')
    BY <2>2, <1>3, Lengths DEF RetrievalInv, SearchesFollow
  <2>3. ASSUME s.pc = "score", NEW q \in 1 .. s.known, q \notin raced'
        PROVE  s.query \cap Weighted(q)' \subseteq s.weights
    BY <1>2, <2>3 DEF RetrievalInv, SearchesFollow
  <2>4. ASSUME s.pc = "score", NEW i \in 1 .. s.next - 1, NEW q \in 1 .. s.known,
               Aligned(i)', KindOf[docs'[i]] = s.kind, q \notin raced',
               s.query \cap TermsOf[docs'[i]] \cap Weighted(q)' # {}
        PROVE  i \in s.hits
    <3>1. Aligned(i) /\ docs'[i] = docs[i] /\ q \notin raced /\ Weighted(q)' = Weighted(q)
      BY <1>1, <1>2, <1>3, <2>4
    <3> QED BY <2>4, <3>1 DEF RetrievalInv, SearchesFollow
  <2> QED BY <2>1, <2>2, <2>3, <2>4
<1>5. HitsAreDeserved'
  <2> SUFFICES ASSUME NEW t \in Threads, NEW i \in search[t].hits, Aligned(i)'
               PROVE  /\ KindOf[docs'[i]] = search[t].kind
                      /\ search[t].query \cap TermsOf[docs'[i]] # {}
    BY DEF HitsAreDeserved
  <2>1. search[t].pc = "score" /\ i \in 1 .. search[t].next - 1
    BY DEF RetrievalInv, SearchesFollow
  <2> QED BY <1>1, <1>3, <2>1 DEF RetrievalInv, HitsAreDeserved
<1> QED BY <1>4, <1>5

(* The document is appended: it is not added yet. *)
LEMMA AddDocumentInv == ASSUME RetrievalInv, NEW d \in Documents, AddDocument(d) PROVE RetrievalInv'
<1>1. /\ adding = "idle" /\ adding' = "document"
      /\ docs' = Append(docs, d)
      /\ UNCHANGED <<backend, entries, idf, dirty, search, raced, lost>>
  BY DEF AddDocument
<1>2. /\ docs' \in Seq(Documents)
      /\ Len(docs') = Len(docs) + 1
      /\ \A i \in 1 .. Len(docs) : docs'[i] = docs[i]
      /\ Len(docs) \in Nat
  BY <1>1 DEF RetrievalInv, Shape
<1>3. Shape'
  BY <1>1, <1>2 DEF RetrievalInv, Shape
<1>4. EntriesFollow'
  <2>1. ASSUME NEW i \in 1 .. Len(entries), Aligned(i)' PROVE entries'[i] = docs'[i]
    BY <1>1, <1>2, <2>1, Lengths DEF RetrievalInv, EntriesFollow, Aligned
  <2> QED BY <1>1, <1>2, <2>1, Lengths DEF RetrievalInv, EntriesFollow
<1>5. Added' = Added /\ Entered' = Entered
  BY <1>1, <1>2 DEF Added, Entered
<1>6. FitsCover'
  BY <1>1, <1>5 DEF RetrievalInv, FitsCover, Fitting
<1>7. SearchesFollow' /\ HitsAreDeserved'
  BY <1>1, <1>2, <1>3, <1>5, Lengths, GrowingKeepsSearches DEF Shape
<1> QED BY <1>3, <1>4, <1>6, <1>7 DEF RetrievalInv

(* Its entry is appended: a fit under way makes it one that was overtaken. *)
LEMMA AddEntryInv == ASSUME RetrievalInv, AddEntry PROVE RetrievalInv'
<1> DEFINE d == docs[Len(docs)]
<1>1. /\ adding = "document" /\ adding' = "entry"
      /\ entries' = Append(entries, d)
      /\ raced' = IF Fitting # {} THEN raced \cup {Len(docs)} ELSE raced
      /\ UNCHANGED <<backend, docs, idf, dirty, search, lost>>
  BY DEF AddEntry
<1>2. d \in Documents
  <2>1. Len(docs) \in 1 .. Len(docs)
    BY <1>1, Lengths DEF RetrievalInv, EntriesFollow
  <2> QED BY <2>1 DEF RetrievalInv, Shape
<1>3. /\ entries' \in Seq(Documents)
      /\ Len(entries') = Len(entries) + 1
      /\ \A i \in 1 .. Len(entries) : entries'[i] = entries[i]
      /\ entries'[Len(entries) + 1] = d
      /\ Len(entries) \in Nat
  BY <1>1, <1>2 DEF RetrievalInv, Shape
<1> HIDE DEF d
<1>4. Shape'
  BY <1>1, <1>3 DEF RetrievalInv, Shape
<1>5. EntriesFollow'
  <2>1. ASSUME NEW i \in 1 .. Len(entries'), Aligned(i) PROVE entries'[i] = docs[i]
    <3>1. CASE i \in 1 .. Len(entries)
      BY <1>3, <2>1, <3>1 DEF RetrievalInv, EntriesFollow
    <3>2. CASE i = Len(entries) + 1
      <4>1. lost = {}
        BY <2>1, <3>2, <1>3 DEF RetrievalInv, EntriesFollow, Aligned, Shape
      <4>2. i = Len(docs)
        BY <1>1, <3>2, <4>1, Lengths DEF RetrievalInv, EntriesFollow
      <4> QED BY <1>3, <3>2, <4>2 DEF d
    <3> QED BY <1>3, <3>1, <3>2
  <2>2. Aligned(1)' <=> Aligned(1)
    BY <1>1 DEF Aligned
  <2>3. ASSUME NEW i \in 1 .. Len(entries'), Aligned(i)' PROVE entries'[i] = docs'[i]
    BY <1>1, <2>1, <2>3 DEF Aligned
  <2>4. lost' # {} => \E l \in lost' : l <= Len(entries') + 1
    BY <1>1, <1>3 DEF RetrievalInv, EntriesFollow, Shape
  <2> QED BY <1>1, <1>3, <2>3, <2>4, Lengths DEF RetrievalInv, EntriesFollow
<1>6. Added' = Added /\ Entered' = Len(docs) /\ Entered = Len(docs) - 1
  BY <1>1 DEF Added, Entered
<1>7. FitsCover'
  <2> SUFFICES ASSUME backend = "tfidf", NEW q \in 1 .. Entered', q \notin raced'
               PROVE  /\ \A t \in Fitting : search[t].fit >= q
                      /\ \A t \in Threads : search[t].pc = "published" => idf >= q
                      /\ ~dirty /\ q <= Added => idf >= q
                      /\ \A t \in Threads :
                           search[t].pc \in {"query", "score"} /\ q <= search[t].known => idf >= q
    BY <1>1, <1>6 DEF FitsCover, Fitting
  <2>1. CASE q \in 1 .. Entered
    BY <1>1, <2>1 DEF RetrievalInv, FitsCover
  <2>2. CASE q = Len(docs)
    <3>1. Fitting = {}
      BY <1>1, <2>2
    <3>2. Added = Len(docs) - 1 /\ \A t \in Threads : search[t].known <= Len(docs) - 1
      BY <1>1, Lengths DEF Added
    <3>3. ~(q <= Added) /\ \A t \in Threads : ~(q <= search[t].known)
      BY <2>2, <3>2, Lengths
    <3> QED BY <3>1, <3>3 DEF Fitting
  <2> QED BY <1>6, <2>1, <2>2, Lengths
<1>8. SearchesFollow' /\ HitsAreDeserved'
  BY <1>1, <1>3, <1>4, <1>6, Lengths, GrowingKeepsSearches DEF Shape
<1> QED BY <1>4, <1>5, <1>7, <1>8 DEF RetrievalInv

(* The entry never comes, which only the embedding retriever can meet. *)
LEMMA AddFailInv == ASSUME RetrievalInv, AddFail PROVE RetrievalInv'
<1>1. /\ adding = "document" /\ adding' = "idle" /\ backend = "embedding"
      /\ lost' = lost \cup {Len(docs)}
      /\ UNCHANGED <<backend, docs, entries, idf, dirty, search, raced>>
  BY DEF AddFail
<1>2. Shape'
  BY <1>1, Lengths DEF RetrievalInv, Shape
<1>3. Added' = Added + 1
  BY <1>1, Lengths DEF Added
<1>4. EntriesFollow'
  <2>1. ASSUME NEW i \in 1 .. Len(entries), Aligned(i)' PROVE entries'[i] = docs'[i]
    BY <1>1, <2>1 DEF RetrievalInv, EntriesFollow, Aligned
  <2>2. \E l \in lost' : l <= Len(entries) + 1
    BY <1>1, Lengths DEF RetrievalInv, EntriesFollow
  <2>3. lost' # {}
    BY <1>1
  <2> QED BY <1>1, <2>1, <2>2, <2>3, Lengths DEF EntriesFollow
<1>5. FitsCover'
  BY <1>1 DEF FitsCover
<1>6. SearchesFollow' /\ HitsAreDeserved'
  BY <1>1, <1>2, <1>3, Lengths, GrowingKeepsSearches DEF Shape
<1> QED BY <1>2, <1>4, <1>5, <1>6 DEF RetrievalInv

(* add() returns: the flag is set before the document counts as added. *)
LEMMA AddEndInv == ASSUME RetrievalInv, AddEnd PROVE RetrievalInv'
<1>1. /\ adding = "entry" /\ adding' = "idle"
      /\ dirty' = IF backend = "tfidf" THEN TRUE ELSE dirty
      /\ UNCHANGED <<backend, docs, entries, idf, search, raced, lost>>
  BY DEF AddEnd
<1>2. Shape'
  BY <1>1 DEF RetrievalInv, Shape
<1>3. Added' = Added + 1 /\ Entered' = Entered
  BY <1>1, Lengths DEF Added, Entered
<1>4. EntriesFollow'
  BY <1>1 DEF RetrievalInv, EntriesFollow, Aligned
<1>5. FitsCover'
  BY <1>1, <1>3 DEF RetrievalInv, FitsCover, Fitting
<1>6. SearchesFollow' /\ HitsAreDeserved'
  BY <1>1, <1>2, <1>3, Lengths, GrowingKeepsSearches DEF Shape
<1> QED BY <1>2, <1>4, <1>5, <1>6 DEF RetrievalInv

-----------------------------------------------------------------------------
(* retrieve() *)

(* What a thread does leaves the lists alone. *)
LEMMA StepLeavesCorpus ==
  ASSUME RetrievalInv, NEW t \in Threads, NEW from, NEW next \in Searches, Step(t, from, next),
         idf' \in Nat, dirty' \in BOOLEAN
  PROVE  /\ Shape' /\ EntriesFollow'
         /\ search[t].pc = from /\ search[t] \in Searches
         /\ search'[t] = next
         /\ \A u \in Threads \ {t} : search'[u] = search[u]
         /\ UNCHANGED <<backend, docs, entries, adding, raced, lost>>
         /\ Added' = Added /\ Entered' = Entered
         /\ \A q : Weighted(q)' = Weighted(q)
         /\ \A i : Aligned(i)' = Aligned(i)
<1>1. UNCHANGED <<backend, docs, entries, adding, raced, lost>>
      /\ search' = [search EXCEPT ![t] = next] /\ search[t].pc = from
  BY DEF Step
<1>2. Shape' /\ search[t] \in Searches
  BY <1>1 DEF RetrievalInv, Shape
<1>3. EntriesFollow'
  BY <1>1 DEF RetrievalInv, EntriesFollow, Aligned
<1>4. Added' = Added /\ Entered' = Entered
  BY <1>1 DEF Added, Entered
<1>5. \A q : Weighted(q)' = Weighted(q)
  BY <1>1 DEF Weighted, Terms
<1>6. \A i : Aligned(i)' = Aligned(i)
  BY <1>1 DEF Aligned
<1>7. search'[t] = next /\ \A u \in Threads \ {t} : search'[u] = search[u]
  BY <1>1 DEF RetrievalInv, Shape
<1> QED BY <1>1, <1>2, <1>3, <1>4, <1>5, <1>6, <1>7

(* A step between two searches, or before the scoring, has nothing found yet. *)
LEMMA BeforeScoring ==
  ASSUME RetrievalInv, NEW t \in Threads, NEW from, NEW next \in Searches, Step(t, from, next),
         idf' \in Nat, dirty' \in BOOLEAN,
         next.pc # "score", next.hits = {}, next.next = 1, next.known <= Added
  PROVE  SearchesFollow' /\ HitsAreDeserved'
<1>1. /\ search'[t] = next
      /\ \A u \in Threads \ {t} : search'[u] = search[u]
      /\ UNCHANGED <<docs, entries, raced>>
      /\ Added' = Added
      /\ \A q : Weighted(q)' = Weighted(q)
      /\ \A i : Aligned(i)' = Aligned(i)
  BY StepLeavesCorpus
<1>2. SearchesFollow'
  BY <1>1 DEF RetrievalInv, SearchesFollow
<1>3. HitsAreDeserved'
  BY <1>1 DEF RetrievalInv, HitsAreDeserved
<1> QED BY <1>2, <1>3

(* A step that takes no part in a fit keeps the table covering what it covers:
   a search that begins to use it found the flag clear, or has just cleared it. *)
LEMMA OutsideFits ==
  ASSUME RetrievalInv, NEW t \in Threads, NEW from, NEW next \in Searches, Step(t, from, next),
         UNCHANGED <<idf, dirty>>,
         next.pc \notin {"fitted", "published"},
         next.pc \in {"query", "score"} =>
           \/ from \in {"query", "score"} /\ next.known = search[t].known
           \/ backend = "tfidf" => ~dirty
         , next.known <= Added
  PROVE  FitsCover'
<1>1. /\ search'[t] = next
      /\ search[t].pc = from
      /\ \A u \in Threads \ {t} : search'[u] = search[u]
      /\ UNCHANGED <<backend, docs, entries, adding, raced, lost>>
      /\ Added' = Added /\ Entered' = Entered
  BY StepLeavesCorpus DEF RetrievalInv, Shape
<1> SUFFICES ASSUME backend = "tfidf", NEW q \in 1 .. Entered, q \notin raced
             PROVE  /\ \A u \in Fitting' : search'[u].fit >= q
                    /\ \A u \in Threads : search'[u].pc = "published" => idf >= q
                    /\ ~dirty /\ q <= Added => idf >= q
                    /\ \A u \in Threads :
                         search'[u].pc \in {"query", "score"} /\ q <= search'[u].known => idf >= q
  BY <1>1 DEF FitsCover
<1>2. /\ \A u \in Fitting : search[u].fit >= q
      /\ \A u \in Threads : search[u].pc = "published" => idf >= q
      /\ ~dirty /\ q <= Added => idf >= q
      /\ \A u \in Threads : search[u].pc \in {"query", "score"} /\ q <= search[u].known => idf >= q
  BY DEF RetrievalInv, FitsCover
<1>3. \A u \in Fitting' : u \in Fitting /\ search'[u] = search[u]
  BY <1>1 DEF Fitting
<1>4. q <= next.known => q <= Added
  BY Lengths DEF Searches
<1>5. next.pc \in {"query", "score"} /\ q <= next.known => idf >= q
  BY <1>1, <1>2, <1>4
<1> QED BY <1>1, <1>2, <1>3, <1>5

(* retrieve() begins. *)
LEMMA RetrieveInv ==
  ASSUME RetrievalInv, NEW t \in Threads, NEW query \in Queries, Retrieve(t, query)
  PROVE  RetrievalInv'
<1> DEFINE next == [Idle EXCEPT !.pc = "test", !.query = query, !.known = Added]
<1>1. query \subseteq Terms /\ Added \in Nat
  <2>1. query \subseteq Terms
    BY DEF Terms
  <2>2. Added \in Nat
    BY Lengths DEF RetrievalInv, SearchesFollow
  <2> QED BY <2>1, <2>2
<1>2. next \in Searches /\ next.pc = "test" /\ next.hits = {} /\ next.next = 1 /\ next.known = Added
  <2>1. Idle \in Searches /\ Idle.hits = {} /\ Idle.next = 1
    BY DEF Idle, Searches
  <2> QED BY <1>1, <2>1 DEF Searches
<1>3. Step(t, "idle", next) /\ UNCHANGED <<idf, dirty>>
  BY DEF Retrieve
<1>4. idf' \in Nat /\ dirty' \in BOOLEAN
  BY <1>3 DEF RetrievalInv, Shape
<1> HIDE DEF next
<1> QED BY <1>2, <1>3, <1>4, Lengths, StepLeavesCorpus, BeforeScoring, OutsideFits DEF RetrievalInv

(* One search ends, and the next one begins. *)
LEMMA EndedInv ==
  ASSUME RetrievalInv, NEW t \in Threads, NEW from, NEW found \in SUBSET Nat,
         Step(t, from, Ended(t, found)), UNCHANGED <<idf, dirty>>
  PROVE  RetrievalInv'
<1> DEFINE next == Ended(t, found)
<1>1. search[t] \in Searches /\ Added \in Nat /\ search[t].known <= Added
  BY Lengths DEF RetrievalInv, Shape
<1>2. /\ next \in Searches /\ next.pc \in {"test", "done"} /\ next.hits = {} /\ next.next = 1
      /\ next.known <= Added
  <2> DEFINE result == search[t].result \cup found
             s == [search[t] EXCEPT !.result = result, !.hits = {}, !.weights = {},
                                    !.next = 1, !.fit = 0]
  <2>1. result \in SUBSET Nat
    BY <1>1 DEF Searches
  <2>2. next = IF s.kind = "runbook"
               THEN [s EXCEPT !.pc = "test", !.kind = "incident", !.known = Added]
               ELSE [s EXCEPT !.pc = "done"]
    BY DEF Ended
  <2> HIDE DEF result
  <2>3. ASSUME NEW r \in Searches
        PROVE  LET after == [r EXCEPT !.result = result, !.hits = {}, !.weights = {},
                                      !.next = 1, !.fit = 0]
               IN  /\ after \in Searches
                   /\ after.hits = {} /\ after.next = 1 /\ after.known = r.known
    <3> DEFINE after == [r EXCEPT !.result = result, !.hits = {}, !.weights = {},
                                  !.next = 1, !.fit = 0]
    <3>1. after \in Searches
      <4> DEFINE some == [r EXCEPT !.result = result, !.hits = {}, !.weights = {}]
                 most == [some EXCEPT !.next = 1]
      <4>1. some \in Searches
        BY <2>1 DEF Searches
      <4>2. after = [most EXCEPT !.fit = 0]
        OBVIOUS
      <4> HIDE DEF some, after
      <4>3. most \in Searches
        BY <4>1 DEF Searches
      <4> HIDE DEF most
      <4> QED BY <4>2, <4>3 DEF Searches
    <3>2. after.hits = {} /\ after.next = 1
      BY DEF Searches
    <3>3. after.known = r.known
      BY DEF Searches
    <3> QED BY <3>1, <3>2, <3>3
  <2>4. s \in Searches /\ s.hits = {} /\ s.next = 1 /\ s.known <= Added
    BY <1>1, <2>3
  <2>5. ASSUME NEW r \in Searches
        PROVE  LET after == [r EXCEPT !.pc = "test", !.kind = "incident", !.known = Added]
               IN  /\ after \in Searches /\ after.pc = "test" /\ after.known = Added
                   /\ after.hits = r.hits /\ after.next = r.next
    BY <1>1 DEF Searches
  <2>6. ASSUME NEW r \in Searches
        PROVE  LET after == [r EXCEPT !.pc = "done"]
               IN  /\ after \in Searches /\ after.pc = "done" /\ after.known = r.known
                   /\ after.hits = r.hits /\ after.next = r.next
    BY DEF Searches
  <2> HIDE DEF s, next
  <2>7. Added <= Added
    BY <1>1
  <2> QED BY <2>2, <2>4, <2>5, <2>6, <2>7
<1>3. idf' \in Nat /\ dirty' \in BOOLEAN
  BY DEF RetrievalInv, Shape
<1> HIDE DEF next
<1> QED BY <1>2, <1>3, StepLeavesCorpus, BeforeScoring, OutsideFits DEF RetrievalInv, next

(* A step that changes nothing but where the thread stands. *)
LEMMA GotoInv ==
  ASSUME RetrievalInv, NEW t \in Threads, NEW from \in {"test", "done"},
         NEW next \in Searches, Step(t, from, next), UNCHANGED <<idf, dirty>>,
         next.pc \in {"fit", "query", "idle"}, next.hits = {}, next.next = 1,
         next.known <= Added,
         next.pc = "query" => (backend = "tfidf" => ~dirty)
  PROVE  RetrievalInv'
<1>1. idf' \in Nat /\ dirty' \in BOOLEAN
  BY DEF RetrievalInv, Shape
<1> QED BY <1>1, StepLeavesCorpus, BeforeScoring, OutsideFits DEF RetrievalInv

LEMMA TestInv == ASSUME RetrievalInv, NEW t \in Threads, Test(t) PROVE RetrievalInv'
<1> DEFINE next == Goto(t, IF backend = "tfidf" /\ dirty THEN "fit" ELSE "query")
<1>1. search[t] \in Searches /\ search[t].hits = {} /\ search[t].next = 1 /\ search[t].known <= Added
  BY Lengths DEF RetrievalInv, Shape, SearchesFollow, Test, Step
<1>2. /\ next \in Searches /\ next.hits = {} /\ next.next = 1 /\ next.known <= Added
      /\ next.pc = IF backend = "tfidf" /\ dirty THEN "fit" ELSE "query"
  BY <1>1 DEF Goto, Searches
<1>3. Step(t, "test", next) /\ UNCHANGED <<idf, dirty>>
  BY DEF Test
<1> HIDE DEF next
<1> QED BY <1>2, <1>3, GotoInv

LEMMA ReturnInv ==
  ASSUME RetrievalInv, NEW t \in Threads, Return(t) PROVE RetrievalInv'
<1>1. Idle \in Searches /\ Idle.hits = {} /\ Idle.next = 1 /\ Idle.known = 0 /\ Idle.pc = "idle"
  BY DEF Idle, Searches
<1>2. 0 <= Added
  BY Lengths DEF RetrievalInv, SearchesFollow
<1> QED BY <1>1, <1>2, GotoInv DEF Return

(* The embedder raises, and the search is over. *)
LEMMA QueryFailInv == ASSUME RetrievalInv, NEW t \in Threads, QueryFail(t) PROVE RetrievalInv'
<1>1. Idle \in Searches /\ Idle.hits = {} /\ Idle.next = 1 /\ Idle.known = 0 /\ Idle.pc = "idle"
  BY DEF Idle, Searches
<1>2. 0 <= Added
  BY Lengths DEF RetrievalInv, SearchesFollow
<1>3. idf' \in Nat /\ dirty' \in BOOLEAN /\ Step(t, "query", Idle) /\ UNCHANGED <<idf, dirty>>
  BY DEF RetrievalInv, Shape, QueryFail
<1> QED BY <1>1, <1>2, <1>3, StepLeavesCorpus, BeforeScoring, OutsideFits DEF RetrievalInv

-----------------------------------------------------------------------------
(* _fit_idf *)

(* A fit has read every entry there is. *)
LEMMA FitInv == ASSUME RetrievalInv, NEW t \in Threads, Fit(t) PROVE RetrievalInv'
<1> DEFINE next == [Goto(t, "fitted") EXCEPT !.fit = Len(entries)]
<1>1. search[t] \in Searches /\ search[t].hits = {} /\ search[t].next = 1 /\ search[t].known <= Added
  BY Lengths DEF RetrievalInv, Shape, SearchesFollow, Fit, Step
<1>2. /\ next \in Searches /\ next.hits = {} /\ next.next = 1 /\ next.known <= Added
      /\ next.pc = "fitted" /\ next.fit = Len(entries)
  BY <1>1, Lengths DEF Goto, Searches
<1>3. Step(t, "fit", next) /\ UNCHANGED <<idf, dirty>>
  BY DEF Fit
<1>4. idf' \in Nat /\ dirty' \in BOOLEAN
  BY <1>3 DEF RetrievalInv, Shape
<1> HIDE DEF next
<1>5. /\ search'[t] = next
      /\ \A u \in Threads \ {t} : search'[u] = search[u]
      /\ UNCHANGED <<backend, raced, adding>>
      /\ Added' = Added /\ Entered' = Entered
  BY <1>2, <1>3, <1>4, StepLeavesCorpus
<1>6. FitsCover'
  <2> SUFFICES ASSUME backend = "tfidf", NEW q \in 1 .. Entered, q \notin raced
               PROVE  /\ \A u \in Fitting' : search'[u].fit >= q
                      /\ \A u \in Threads : search'[u].pc = "published" => idf >= q
                      /\ ~dirty /\ q <= Added => idf >= q
                      /\ \A u \in Threads :
                           search'[u].pc \in {"query", "score"} /\ q <= search'[u].known => idf >= q
    BY <1>3, <1>5 DEF FitsCover
  <2>1. /\ \A u \in Fitting : search[u].fit >= q
        /\ \A u \in Threads : search[u].pc = "published" => idf >= q
        /\ ~dirty /\ q <= Added => idf >= q
        /\ \A u \in Threads : search[u].pc \in {"query", "score"} /\ q <= search[u].known => idf >= q
    BY DEF RetrievalInv, FitsCover
  <2>2. next.fit >= q
    <3>1. next.fit = Entered /\ Entered \in Nat
      BY <1>2, Lengths
    <3> QED BY <3>1
  <2>3. \A u \in Fitting' : u = t \/ (u \in Fitting /\ search'[u] = search[u])
    BY <1>5 DEF Fitting
  <2> QED BY <1>2, <1>5, <2>1, <2>2, <2>3
<1> QED BY <1>2, <1>3, <1>4, <1>6, StepLeavesCorpus, BeforeScoring DEF RetrievalInv

(* Whichever fit is published last, it covers what every fit under way does. *)
LEMMA PublishInv == ASSUME RetrievalInv, NEW t \in Threads, Publish(t) PROVE RetrievalInv'
<1> DEFINE next == Goto(t, "published")
<1>1. search[t] \in Searches /\ search[t].hits = {} /\ search[t].next = 1 /\ search[t].known <= Added
      /\ t \in Fitting
  BY Lengths DEF RetrievalInv, Shape, SearchesFollow, Publish, Step, Fitting
<1>2. /\ next \in Searches /\ next.hits = {} /\ next.next = 1 /\ next.known <= Added
      /\ next.pc = "published" /\ next.fit = search[t].fit
  BY <1>1 DEF Goto, Searches
<1>3. Step(t, "fitted", next) /\ UNCHANGED dirty /\ idf' = search[t].fit
  BY DEF Publish
<1>4. idf' \in Nat /\ dirty' \in BOOLEAN
  BY <1>1, <1>3 DEF RetrievalInv, Shape, Searches
<1> HIDE DEF next
<1>5. /\ search'[t] = next
      /\ \A u \in Threads \ {t} : search'[u] = search[u]
      /\ UNCHANGED <<backend, raced, adding>>
      /\ Added' = Added /\ Entered' = Entered
  BY <1>2, <1>3, <1>4, StepLeavesCorpus
<1>6. FitsCover'
  <2> SUFFICES ASSUME backend = "tfidf", NEW q \in 1 .. Entered, q \notin raced
               PROVE  (\A u \in Fitting' : search'[u].fit >= q) /\ idf' >= q
    BY <1>3, <1>5 DEF FitsCover
  <2>1. \A u \in Fitting : search[u].fit >= q
    BY DEF RetrievalInv, FitsCover
  <2>2. \A u \in Fitting' : u \in Fitting /\ search'[u].fit = search[u].fit
    BY <1>1, <1>2, <1>5 DEF Fitting
  <2> QED BY <1>1, <1>3, <2>1, <2>2
<1> QED BY <1>2, <1>3, <1>4, <1>6, StepLeavesCorpus, BeforeScoring DEF RetrievalInv

(* The flag is cleared over a table that covers what was not overtaken. *)
LEMMA ClearInv == ASSUME RetrievalInv, NEW t \in Threads, Clear(t) PROVE RetrievalInv'
<1> DEFINE next == Goto(t, "query")
<1>1. search[t] \in Searches /\ search[t].hits = {} /\ search[t].next = 1 /\ search[t].known <= Added
      /\ search[t].pc = "published"
  BY Lengths DEF RetrievalInv, Shape, SearchesFollow, Clear, Step
<1>2. next \in Searches /\ next.hits = {} /\ next.next = 1 /\ next.known <= Added /\ next.pc = "query"
  BY <1>1 DEF Goto, Searches
<1>3. Step(t, "published", next) /\ UNCHANGED idf /\ dirty' = FALSE
  BY DEF Clear
<1>4. idf' \in Nat /\ dirty' \in BOOLEAN
  BY <1>3 DEF RetrievalInv, Shape
<1> HIDE DEF next
<1>5. /\ search'[t] = next
      /\ \A u \in Threads \ {t} : search'[u] = search[u]
      /\ UNCHANGED <<backend, raced, adding>>
      /\ Added' = Added /\ Entered' = Entered
  BY <1>2, <1>3, <1>4, StepLeavesCorpus
<1>6. FitsCover'
  <2> SUFFICES ASSUME backend = "tfidf", NEW q \in 1 .. Entered, q \notin raced
               PROVE  (\A u \in Fitting' : search'[u].fit >= q) /\ idf >= q
    BY <1>3, <1>5 DEF FitsCover
  <2>1. (\A u \in Fitting : search[u].fit >= q) /\ idf >= q
    BY <1>1 DEF RetrievalInv, FitsCover
  <2>2. \A u \in Fitting' : u \in Fitting /\ search'[u] = search[u]
    BY <1>2, <1>5 DEF Fitting
  <2> QED BY <2>1, <2>2
<1> QED BY <1>2, <1>3, <1>4, <1>6, StepLeavesCorpus, BeforeScoring DEF RetrievalInv

-----------------------------------------------------------------------------
(* Scoring *)

(* The query weighs what the table weighs. *)
LEMMA QueryInv == ASSUME RetrievalInv, NEW t \in Threads, Query(t) PROVE RetrievalInv'
<1> DEFINE weights == search[t].query \cap Weighted(idf)
           next    == [Goto(t, "score") EXCEPT !.weights = weights]
<1>1. search[t] \in Searches /\ search[t].hits = {} /\ search[t].next = 1 /\ search[t].known <= Added
      /\ search[t].pc = "query" /\ search[t].query \subseteq Terms
  BY Lengths DEF RetrievalInv, Shape, SearchesFollow, Query, Step, Searches
<1>2. weights \subseteq Terms
  BY <1>1
<1> HIDE DEF weights
<1>3. /\ next \in Searches /\ next.hits = {} /\ next.next = 1 /\ next.pc = "score"
      /\ next.known = search[t].known /\ next.weights = weights
      /\ next.query = search[t].query /\ next.kind = search[t].kind
  BY <1>1, <1>2 DEF Goto, Searches
<1>4. Step(t, "query", next) /\ UNCHANGED <<idf, dirty>>
  BY DEF Query, weights
<1>5. idf' \in Nat /\ dirty' \in BOOLEAN /\ idf \in Nat
  BY <1>4 DEF RetrievalInv, Shape
<1> HIDE DEF next
<1>6. /\ search'[t] = next
      /\ \A u \in Threads \ {t} : search'[u] = search[u]
      /\ UNCHANGED <<backend, docs, entries, raced>>
      /\ Added' = Added
      /\ \A q : Weighted(q)' = Weighted(q)
      /\ \A i : Aligned(i)' = Aligned(i)
      /\ Shape' /\ EntriesFollow'
  BY <1>3, <1>4, <1>5, StepLeavesCorpus
<1>7. FitsCover'
  BY <1>1, <1>3, <1>4, OutsideFits
<1>8. ASSUME NEW q \in 1 .. next.known, q \notin raced
      PROVE  next.query \cap Weighted(q) \subseteq next.weights
  <2>1. CASE backend = "tfidf"
    <3>1. q \in 1 .. Entered /\ q <= search[t].known
      BY <1>3, <2>1, Lengths
    <3>2. idf >= q
      BY <1>1, <1>8, <2>1, <3>1 DEF RetrievalInv, FitsCover
    <3>3. 1 .. q \subseteq 1 .. idf
      BY <1>5, <3>1, <3>2
    <3>4. Weighted(q) \subseteq Weighted(idf)
      BY <2>1, <3>3 DEF Weighted
    <3> QED BY <1>3, <3>4 DEF weights
  <2>2. CASE backend # "tfidf"
    BY <1>3, <2>2 DEF Weighted, weights
  <2> QED BY <2>1, <2>2
<1>9. SearchesFollow'
  <2>1. next.weights \subseteq next.query
    BY <1>3 DEF weights
  <2>2. next.known <= Added /\ next.next - 1 = 0 /\ Len(entries) \in Nat
    BY <1>1, <1>3, Lengths
  <2>3. 1 .. next.next - 1 = {}
    BY <2>2
  <2> QED BY <1>3, <1>6, <1>8, <2>1, <2>2, <2>3 DEF RetrievalInv, SearchesFollow
<1>10. HitsAreDeserved'
  BY <1>3, <1>6 DEF RetrievalInv, HitsAreDeserved
<1> QED BY <1>6, <1>7, <1>9, <1>10 DEF RetrievalInv

(* A document is a hit of a search whose query shares a term with it that the
   table had when it came to count: then the table has it now. *)
LEMMA ScoreHits ==
  ASSUME RetrievalInv, NEW t \in Threads, search[t].pc = "score",
         search[t].next <= Scorable, Aligned(search[t].next)
  PROVE  LET s == search[t]
             i == s.next
         IN  /\ Hit(t, i) => s.query \cap TermsOf[docs[i]] # {}
             /\ \A q \in 1 .. s.known :
                  q \notin raced /\ s.query \cap TermsOf[docs[i]] \cap Weighted(q) # {} => Hit(t, i)
<1> DEFINE s == search[t]
           i == s.next
<1>1. i \in 1 .. Len(entries) /\ entries[i] = docs[i]
  <2>1. i \in Nat \ {0} /\ i <= Len(entries) /\ Len(entries) \in Nat
    BY Lengths DEF RetrievalInv, Shape, Searches
  <2> QED BY <2>1 DEF RetrievalInv, EntriesFollow
<1>2. s.weights \subseteq s.query
  BY DEF RetrievalInv, SearchesFollow
<1>3. Hit(t, i) <=> s.weights \cap (TermsOf[docs[i]] \cap Weighted(idf)) # {}
  BY <1>1 DEF Hit, Alike
<1>4. ASSUME NEW q \in 1 .. s.known, q \notin raced,
             s.query \cap TermsOf[docs[i]] \cap Weighted(q) # {}
      PROVE  Hit(t, i)
  <2>1. s.query \cap Weighted(q) \subseteq s.weights
    BY <1>4 DEF RetrievalInv, SearchesFollow
  <2>2. Weighted(q) \subseteq Weighted(idf)
    <3>1. CASE backend = "tfidf"
      <4>1. q \in 1 .. Entered /\ q <= s.known
        BY <3>1, Lengths
      <4>2. idf >= q
        BY <1>4, <3>1, <4>1 DEF RetrievalInv, FitsCover
      <4>3. 1 .. q \subseteq 1 .. idf
        BY <4>1, <4>2 DEF RetrievalInv, Shape
      <4> QED BY <3>1, <4>3 DEF Weighted
    <3>2. CASE backend # "tfidf"
      BY <3>2 DEF Weighted
    <3> QED BY <3>1, <3>2
  <2> QED BY <1>3, <1>4, <2>1, <2>2
<1> QED BY <1>2, <1>3, <1>4

(* One more document is scored. *)
LEMMA ScoreInv == ASSUME RetrievalInv, NEW t \in Threads, Score(t) PROVE RetrievalInv'
<1> DEFINE s    == search[t]
           i    == s.next
           hits == IF KindOf[docs[i]] = s.kind /\ Hit(t, i) THEN s.hits \cup {i} ELSE s.hits
           next == [s EXCEPT !.next = i + 1, !.hits = hits]
<1>1. s \in Searches /\ s.pc = "score" /\ i \in Nat \ {0} /\ i <= Len(entries)
      /\ s.hits \subseteq 1 .. i - 1
  BY Lengths DEF RetrievalInv, Shape, Searches, SearchesFollow, Score, Step
<1>2. hits \subseteq 1 .. i /\ hits \subseteq s.hits \cup {i} /\ s.hits \subseteq hits
  BY <1>1
<1> HIDE DEF hits
<1>3. /\ next \in Searches /\ next.pc = "score" /\ next.hits = hits /\ next.next = i + 1
      /\ next.known = s.known /\ next.weights = s.weights /\ next.query = s.query
      /\ next.kind = s.kind
  <2>1. hits \in SUBSET Nat /\ i + 1 \in Nat \ {0}
    BY <1>1, <1>2
  <2> HIDE DEF i
  <2> QED BY <1>1, <2>1 DEF Searches
<1>4. Step(t, "score", next) /\ UNCHANGED <<idf, dirty>>
  BY DEF Score, hits
<1>5. idf' \in Nat /\ dirty' \in BOOLEAN
  BY <1>4 DEF RetrievalInv, Shape
<1> HIDE DEF next
<1>6. /\ search'[t] = next
      /\ \A u \in Threads \ {t} : search'[u] = search[u]
      /\ UNCHANGED <<backend, docs, entries, raced>>
      /\ Added' = Added
      /\ \A q : Weighted(q)' = Weighted(q)
      /\ \A n : Aligned(n)' = Aligned(n)
      /\ Shape' /\ EntriesFollow'
  BY <1>3, <1>4, <1>5, StepLeavesCorpus
<1>7. FitsCover'
  BY <1>1, <1>3, <1>4, Lengths, OutsideFits
<1>8. ASSUME NEW n \in 1 .. next.next - 1, NEW q \in 1 .. next.known,
             Aligned(n), KindOf[docs[n]] = next.kind, q \notin raced,
             next.query \cap TermsOf[docs[n]] \cap Weighted(q) # {}
      PROVE  n \in next.hits
  <2>1. n \in 1 .. i - 1 \/ n = i
    BY <1>1, <1>3
  <2>2. CASE n \in 1 .. i - 1
    BY <1>1, <1>2, <1>3, <1>8, <2>2 DEF RetrievalInv, SearchesFollow
  <2>3. CASE n = i
    <3>1. Hit(t, i)
      BY <1>1, <1>3, <1>8, <2>3, ScoreHits, Lengths
    <3> QED BY <1>3, <1>8, <2>3, <3>1 DEF hits
  <2> QED BY <2>1, <2>2, <2>3
<1>9. SearchesFollow'
  <2>1. /\ next.known <= Added
        /\ next.weights \subseteq next.query
        /\ \A q \in 1 .. next.known : q \notin raced => next.query \cap Weighted(q) \subseteq next.weights
    BY <1>1, <1>3 DEF RetrievalInv, SearchesFollow
  <2>2. next.next - 1 <= Len(entries) /\ next.hits \subseteq 1 .. next.next - 1
    BY <1>1, <1>2, <1>3
  <2> QED BY <1>3, <1>6, <1>8, <2>1, <2>2 DEF RetrievalInv, SearchesFollow
<1>10. HitsAreDeserved'
  <2>1. ASSUME NEW n \in next.hits, Aligned(n)
        PROVE  KindOf[docs[n]] = next.kind /\ next.query \cap TermsOf[docs[n]] # {}
    <3>1. CASE n \in s.hits
      BY <1>3, <2>1, <3>1 DEF RetrievalInv, HitsAreDeserved
    <3>2. CASE n \notin s.hits
      <4>1. n = i /\ KindOf[docs[i]] = s.kind /\ Hit(t, i)
        BY <1>2, <1>3, <2>1, <3>2 DEF hits
      <4> QED BY <1>1, <1>3, <2>1, <4>1, ScoreHits, Lengths
    <3> QED BY <3>1, <3>2
  <2> QED BY <1>6, <2>1 DEF RetrievalInv, HitsAreDeserved
<1> QED BY <1>6, <1>7, <1>9, <1>10 DEF RetrievalInv

(* The best of the hits are the result. *)
LEMMA RankInv == ASSUME RetrievalInv, NEW t \in Threads, Rank(t) PROVE RetrievalInv'
<1>1. PICK best \in Best(search[t].hits) : Step(t, "score", Ended(t, best))
  BY DEF Rank
<1>2. best \in SUBSET Nat
  BY DEF Best, RetrievalInv, Shape, Searches
<1> QED BY <1>1, <1>2, EndedInv DEF Rank

-----------------------------------------------------------------------------
(* Every step of the event loop and of the threads keeps the invariant. *)
LEMMA RetrievalNext == ASSUME RetrievalInv, [Next]_vars PROVE RetrievalInv'
<1>1. CASE Add
  BY <1>1, AddDocumentInv, AddEntryInv, AddFailInv, AddEndInv DEF Add
<1>2. ASSUME NEW t \in Threads, Search(t) PROVE RetrievalInv'
  <2>1. CASE SearchNothing(t)
    BY <2>1, EndedInv DEF SearchNothing
  <2> QED BY <1>2, <2>1, RetrieveInv, TestInv, FitInv, PublishInv, ClearInv, QueryInv,
             QueryFailInv, ScoreInv, RankInv, ReturnInv DEF Search
<1>3. CASE UNCHANGED vars
  <2>1. Shape' /\ EntriesFollow'
    BY <1>3 DEF vars, RetrievalInv, Shape, EntriesFollow, Aligned
  <2>2. FitsCover'
    BY <1>3 DEF vars, RetrievalInv, FitsCover, Entered, Added, Fitting
  <2>3. Added' = Added /\ docs \in Seq(Documents) /\ entries \in Seq(Documents)
    BY <1>3 DEF vars, RetrievalInv, Shape, Added
  <2>4. SearchesFollow' /\ HitsAreDeserved'
    BY <1>3, <2>3, Lengths, GrowingKeepsSearches DEF vars
  <2> QED BY <2>1, <2>2, <2>4 DEF RetrievalInv
<1> QED BY <1>1, <1>2, <1>3 DEF Next

(* What grounds a diagnosis shares a term with its signals and is of the kind
   it is shown as, until an embedding fails (rag.py:95-99, :117). *)
THEOREM HitsStayDeserved == Spec => []HitsAreDeserved
<1>1. RetrievalInv => HitsAreDeserved
  BY DEF RetrievalInv
<1> QED BY <1>1, RetrievalInit, RetrievalNext, PTL DEF Spec

(* Every document whose add() returned before the search, and was overtaken by
   no fit, is found, whatever add() and the other threads do meanwhile
   (rag.py:64, 72 and 90). *)
THEOREM IndexedStaysFound == Spec => []IndexedIsFound
<1>1. RetrievalInv => IndexedIsFound
  <2> SUFFICES ASSUME RetrievalInv, NEW t \in Threads, search[t].pc = "score",
                      search[t].next > Scorable,
                      NEW i \in 1 .. search[t].known, NEW q \in 1 .. search[t].known,
                      Aligned(i), i <= Scorable, KindOf[docs[i]] = search[t].kind, q \notin raced,
                      search[t].query \cap TermsOf[docs[i]] \cap Weighted(q) # {}
               PROVE  i \in search[t].hits
    BY DEF IndexedIsFound
  <2>1. i \in 1 .. search[t].next - 1
    BY Lengths DEF RetrievalInv, Shape, Searches
  <2> QED BY <2>1 DEF RetrievalInv, SearchesFollow
<1> QED BY <1>1, RetrievalInit, RetrievalNext, PTL DEF Spec

-----------------------------------------------------------------------------
(* Types, and how much grounds a diagnosis *)

(* What a search may be, in the corpus of the moment. *)
SearchesHere ==
  [pc : {"idle", "test", "fit", "fitted", "published", "query", "score", "done"},
   kind : {"runbook", "incident"}, query : Queries \cup {{}}, known : 0 .. Len(docs),
   fit : 0 .. Len(entries), weights : SUBSET Terms, next : 1 .. Len(docs) + 1,
   hits : SUBSET (1 .. Len(docs)), result : SUBSET (1 .. Len(docs))]

(* The search of the runbooks finds at most K of them, and so does the search
   of the incidents after it. *)
Bounded(s) ==
  /\ s.kind = "runbook" => s.result = {}
  /\ IsFiniteSet(s.result)
  /\ Cardinality(s.result) <= IF s.pc = "done" THEN 2 * K ELSE K

TypedInv ==
  /\ TypeOK
  /\ \A t \in Threads : Bounded(search[t])

(* A thread of the pool that is not searching. *)
LEMMA IdleTyped ==
  ASSUME Len(docs) \in Nat, Len(entries) \in Nat
  PROVE  Idle \in SearchesHere /\ Bounded(Idle) /\ Idle.result = {}
<1>1. IsFiniteSet({}) /\ Cardinality({}) = 0
  BY FS_EmptySet
<1>2. Idle \in SearchesHere
  BY DEF SearchesHere, Idle
<1>3. Idle.kind = "runbook" /\ Idle.result = {} /\ Idle.pc = "idle"
  BY DEF Idle
<1> QED BY <1>1, <1>2, <1>3, RetrieverAssumption DEF Bounded

LEMMA TypedInit == Init => TypedInv
<1> SUFFICES ASSUME Init PROVE TypedInv
  OBVIOUS
<1>1. docs \in Seq(Documents) /\ Len(docs) \in Nat
  BY CorpusAssumption DEF Init
<1>2. IsFiniteSet({}) /\ Cardinality({}) = 0
  BY FS_EmptySet
<1>3. Idle \in SearchesHere /\ Bounded(Idle) /\ Idle.result = {}
  BY <1>1, IdleTyped DEF Init
<1>4. /\ search \in [Threads -> SearchesHere]
      /\ \A t \in Threads : search[t] = Idle
  BY <1>3 DEF Init
<1>5. \A t \in Threads : Bounded(search[t]) /\ Cardinality(search[t].result) <= 2 * K
  BY <1>2, <1>3, <1>4, RetrieverAssumption
<1> QED BY <1>1, <1>4, <1>5 DEF Init, TypedInv, TypeOK, SearchesHere

(* A search stays typed while the corpus grows. *)
LEMMA GrowingKeepsTypes ==
  ASSUME TypedInv, UNCHANGED <<backend, search>>,
         docs' \in Seq(Documents), entries' \in Seq(Documents),
         Len(docs) <= Len(docs'), Len(entries) <= Len(entries'),
         idf' \in 0 .. Len(entries'), dirty' \in BOOLEAN,
         adding' \in {"idle", "document", "entry"},
         raced' \in SUBSET (1 .. Len(docs')), lost' \in SUBSET (1 .. Len(docs'))
  PROVE  TypedInv'
<1>1. /\ Len(docs) \in Nat /\ Len(docs') \in Nat /\ Len(entries) \in Nat /\ Len(entries') \in Nat
      /\ search \in [Threads -> SearchesHere]
  BY DEF TypedInv, TypeOK, SearchesHere
<1>2. ASSUME NEW s \in SearchesHere PROVE s \in SearchesHere'
  BY <1>1 DEF SearchesHere
<1>3. search' \in [Threads -> SearchesHere']
  BY <1>1, <1>2
<1> QED BY <1>3 DEF TypedInv, TypeOK, SearchesHere

(* A step of one thread leaves the others and the corpus alone. *)
LEMMA StepTyped ==
  ASSUME TypedInv, NEW t \in Threads, NEW from, NEW next \in SearchesHere, Bounded(next),
         Step(t, from, next), idf' \in 0 .. Len(entries), dirty' \in BOOLEAN
  PROVE  TypedInv'
<1>1. /\ search \in [Threads -> SearchesHere]
      /\ search' = [search EXCEPT ![t] = next]
      /\ UNCHANGED <<backend, docs, entries, adding, raced, lost>>
  BY DEF TypedInv, TypeOK, SearchesHere, Step
<1>2. /\ search' \in [Threads -> SearchesHere]
      /\ \A u \in Threads : search'[u] = IF u = t THEN next ELSE search[u]
  BY <1>1
<1>3. \A u \in Threads : Bounded(search'[u])
  BY <1>2 DEF TypedInv
<1>4. \A u \in Threads : Cardinality(search'[u].result) <= 2 * K
  <2>1. ASSUME NEW u \in Threads PROVE Cardinality(search'[u].result) <= 2 * K
    <3>1. Cardinality(search'[u].result) \in Nat
      BY <1>3, FS_CardinalityType DEF Bounded
    <3> QED BY <1>3, <3>1, RetrieverAssumption DEF Bounded
  <2> QED BY <2>1
<1>5. SearchesHere' = SearchesHere
  BY <1>1 DEF SearchesHere
<1> QED BY <1>1, <1>2, <1>3, <1>4, <1>5 DEF TypedInv, TypeOK, SearchesHere

(* What one thread knows before it steps. *)
LEMMA ThreadTypes ==
  ASSUME TypedInv, RetrievalInv, NEW t \in Threads
  PROVE  /\ search[t] \in SearchesHere /\ Bounded(search[t])
         /\ Len(docs) \in Nat /\ Len(entries) \in Nat /\ Added \in 0 .. Len(docs)
         /\ idf \in 0 .. Len(entries) /\ dirty \in BOOLEAN
<1>1. Added \in 0 .. Len(docs)
  BY Lengths DEF RetrievalInv, Shape
<1> QED BY <1>1 DEF TypedInv, TypeOK, SearchesHere

(* A step that only says where the thread stands, before it has its result. *)
LEMMA GotoTyped ==
  ASSUME TypedInv, RetrievalInv, NEW t \in Threads, search[t].pc # "done",
         NEW pc \in {"test", "fit", "fitted", "published", "query", "score"}
  PROVE  Goto(t, pc) \in SearchesHere /\ Bounded(Goto(t, pc))
<1> DEFINE next == Goto(t, pc)
<1>1. search[t] \in SearchesHere /\ Bounded(search[t])
  BY ThreadTypes
<1>2. next \in SearchesHere
  BY <1>1 DEF Goto, SearchesHere
<1>3. next.kind = search[t].kind /\ next.result = search[t].result /\ next.pc = pc
  BY <1>1 DEF Goto, SearchesHere
<1> QED BY <1>1, <1>2, <1>3 DEF Bounded

(* Replacing one field of a search. *)
LEMMA Refit ==
  ASSUME NEW s \in SearchesHere, NEW n \in 0 .. Len(entries)
  PROVE  LET next == [s EXCEPT !.fit = n]
         IN  /\ next \in SearchesHere
             /\ next.kind = s.kind /\ next.result = s.result /\ next.pc = s.pc
<1> DEFINE F == 0 .. Len(entries)
           D == 0 .. Len(docs)
           E == 1 .. Len(docs) + 1
           H == SUBSET (1 .. Len(docs))
<1> HIDE DEF F, D, E, H
<1>1. SearchesHere =
        [pc : {"idle", "test", "fit", "fitted", "published", "query", "score", "done"},
         kind : {"runbook", "incident"}, query : Queries \cup {{}}, known : D,
         fit : F, weights : SUBSET Terms, next : E, hits : H, result : H]
  BY DEF SearchesHere, F, D, E, H
<1>2. n \in F
  BY DEF F
<1> QED BY <1>1, <1>2

LEMMA Renext ==
  ASSUME NEW s \in SearchesHere, NEW n \in 1 .. Len(docs) + 1
  PROVE  LET next == [s EXCEPT !.next = n]
         IN  /\ next \in SearchesHere
             /\ next.kind = s.kind /\ next.result = s.result /\ next.pc = s.pc
<1> DEFINE F == 0 .. Len(entries)
           D == 0 .. Len(docs)
           E == 1 .. Len(docs) + 1
           H == SUBSET (1 .. Len(docs))
<1> HIDE DEF F, D, E, H
<1>1. SearchesHere =
        [pc : {"idle", "test", "fit", "fitted", "published", "query", "score", "done"},
         kind : {"runbook", "incident"}, query : Queries \cup {{}}, known : D,
         fit : F, weights : SUBSET Terms, next : E, hits : H, result : H]
  BY DEF SearchesHere, F, D, E, H
<1>2. n \in E
  BY DEF E
<1> QED BY <1>1, <1>2

(* One of the two searches of retrieve() is over. *)
LEMMA EndedTyped ==
  ASSUME TypedInv, RetrievalInv, NEW t \in Threads, search[t].pc # "done",
         NEW found \in SUBSET (1 .. Len(docs)), Cardinality(found) <= K
  PROVE  Ended(t, found) \in SearchesHere /\ Bounded(Ended(t, found))
<1> DEFINE old == search[t]
           result == old.result \cup found
<1>1. old \in SearchesHere /\ Bounded(old) /\ Len(docs) \in Nat /\ Added \in 0 .. Len(docs)
      /\ Len(entries) \in Nat
  BY ThreadTypes
<1>2. IsFiniteSet(found) /\ Cardinality(found) \in Nat
  <2>1. IsFiniteSet(1 .. Len(docs))
    BY <1>1, FS_Interval
  <2>2. IsFiniteSet(found)
    BY <2>1, FS_Subset
  <2> QED BY <2>2, FS_CardinalityType
<1>3. result \in SUBSET (1 .. Len(docs)) /\ IsFiniteSet(result)
  BY <1>1, <1>2, FS_Union DEF SearchesHere, Bounded
<1>4. /\ Cardinality(result) \in Nat
      /\ Cardinality(result) <= IF old.kind = "runbook" THEN K ELSE 2 * K
  <2>1. CASE old.kind = "runbook"
    <3>1. result = found
      BY <1>1, <2>1 DEF Bounded
    <3> QED BY <1>2, <2>1, <3>1
  <2>2. CASE old.kind # "runbook"
    <3>1. /\ IsFiniteSet(old.result) /\ Cardinality(old.result) <= K
          /\ Cardinality(old.result) \in Nat
      BY <1>1, FS_CardinalityType DEF Bounded
    <3>2. IsFiniteSet(old.result \cap found) /\ Cardinality(old.result \cap found) \in Nat
      BY <1>2, FS_Subset, FS_CardinalityType
    <3>3. /\ Cardinality(result) = Cardinality(old.result) + Cardinality(found)
                                    - Cardinality(old.result \cap found)
          /\ Cardinality(result) \in Nat
      BY <1>2, <1>3, <3>1, FS_Union, FS_CardinalityType
    <3> HIDE DEF result
    <3> QED BY <1>2, <2>2, <3>1, <3>2, <3>3, RetrieverAssumption
  <2> QED BY <2>1, <2>2
<1> DEFINE s1 == [old EXCEPT !.result = result]
           s2 == [s1 EXCEPT !.hits = {}, !.weights = {}]
           s3 == [s2 EXCEPT !.next = 1, !.fit = 0]
<1> HIDE DEF old, result
<1>5. s1 \in SearchesHere /\ s1.result = result /\ s1.kind = old.kind
  BY <1>1, <1>3 DEF SearchesHere
<1> HIDE DEF s1
<1>6. s2 \in SearchesHere /\ s2.result = result /\ s2.kind = old.kind
  BY <1>5 DEF SearchesHere
<1> HIDE DEF s2
<1>7. s3 \in SearchesHere /\ s3.result = result /\ s3.kind = old.kind
  <2> DEFINE some == [s2 EXCEPT !.next = 1]
  <2>1. some \in SearchesHere /\ some.result = result /\ some.kind = old.kind
    <3>1. 1 \in 1 .. Len(docs) + 1
      BY <1>1
    <3> QED BY <1>6, <3>1, Renext
  <2>2. s3 = [some EXCEPT !.fit = 0]
    OBVIOUS
  <2> HIDE DEF some, s3
  <2> QED BY <1>1, <2>1, <2>2, Refit
<1>8. Ended(t, found) = IF s3.kind = "runbook"
                        THEN [s3 EXCEPT !.pc = "test", !.kind = "incident", !.known = Added]
                        ELSE [s3 EXCEPT !.pc = "done"]
  BY DEF Ended, s1, s2, s3, result, old
<1> HIDE DEF s3
<1>9. CASE old.kind = "runbook"
  <2> DEFINE next == [s3 EXCEPT !.pc = "test", !.kind = "incident", !.known = Added]
  <2>1. next \in SearchesHere /\ next.result = result /\ next.kind = "incident" /\ next.pc = "test"
    BY <1>1, <1>7 DEF SearchesHere
  <2>2. Ended(t, found) = next
    BY <1>7, <1>8, <1>9
  <2> HIDE DEF next
  <2> QED BY <1>3, <1>4, <1>9, <2>1, <2>2 DEF Bounded
<1>10. CASE old.kind # "runbook"
  <2> DEFINE next == [s3 EXCEPT !.pc = "done"]
  <2>1. next \in SearchesHere /\ next.result = result /\ next.kind = old.kind /\ next.pc = "done"
    BY <1>7 DEF SearchesHere
  <2>2. Ended(t, found) = next
    BY <1>7, <1>8, <1>10
  <2> HIDE DEF next
  <2> QED BY <1>3, <1>4, <1>10, <2>1, <2>2 DEF Bounded
<1> QED BY <1>9, <1>10

LEMMA AddTyped == ASSUME TypedInv, RetrievalInv, Add PROVE TypedInv'
<1>1. /\ docs \in Seq(Documents) /\ entries \in Seq(Documents)
      /\ Len(docs) \in Nat /\ Len(entries) \in Nat
      /\ idf \in 0 .. Len(entries) /\ dirty \in BOOLEAN
      /\ adding \in {"idle", "document", "entry"}
      /\ raced \in SUBSET (1 .. Len(docs)) /\ lost \in SUBSET (1 .. Len(docs))
  BY DEF TypedInv, TypeOK
<1>2. adding = "document" => Len(docs) > 0 /\ docs[Len(docs)] \in Documents
  BY <1>1 DEF RetrievalInv, EntriesFollow
<1>3. CASE AddEntry
  <2>1. entries' \in Seq(Documents) /\ Len(entries') = Len(entries) + 1
    <3>1. docs[Len(docs)] \in Documents /\ entries' = Append(entries, docs[Len(docs)])
      BY <1>2, <1>3 DEF AddEntry
    <3> QED BY <1>1, <3>1
  <2>2. raced' \in SUBSET (1 .. Len(docs))
    <3>1. Len(docs) \in 1 .. Len(docs)
      BY <1>1, <1>2, <1>3 DEF AddEntry
    <3>2. raced' \in {raced \cup {Len(docs)}, raced}
      BY <1>3 DEF AddEntry
    <3> QED BY <1>1, <3>1, <3>2
  <2>3. /\ UNCHANGED <<backend, search, docs, idf, dirty, lost>> /\ adding' = "entry"
        /\ idf' \in 0 .. Len(entries') /\ Len(docs) <= Len(docs') /\ Len(entries) <= Len(entries')
    BY <1>1, <1>3, <2>1 DEF AddEntry
  <2> QED BY <1>1, <2>1, <2>2, <2>3, GrowingKeepsTypes
<1>4. CASE AddFail
  <2>1. /\ UNCHANGED <<backend, search, docs, entries, idf, dirty, raced>> /\ adding' = "idle"
    BY <1>4 DEF AddFail
  <2>2. lost' \in SUBSET (1 .. Len(docs))
    <3>1. Len(docs) \in 1 .. Len(docs)
      BY <1>1, <1>2, <1>4 DEF AddFail
    <3> QED BY <1>1, <1>4, <3>1 DEF AddFail
  <2>3. Len(docs) <= Len(docs') /\ Len(entries) <= Len(entries')
    BY <1>1, <2>1
  <2>4. /\ docs' \in Seq(Documents) /\ entries' \in Seq(Documents)
        /\ idf' \in 0 .. Len(entries') /\ dirty' \in BOOLEAN
        /\ adding' \in {"idle", "document", "entry"}
        /\ raced' \in SUBSET (1 .. Len(docs')) /\ lost' \in SUBSET (1 .. Len(docs'))
    BY <1>1, <2>1, <2>2
  <2>5. UNCHANGED <<backend, search>>
    BY <2>1
  <2> QED BY <2>3, <2>4, <2>5, GrowingKeepsTypes
<1>5. CASE AddEnd
  <2>1. /\ UNCHANGED <<backend, search, docs, entries, idf, raced, lost>> /\ adding' = "idle"
        /\ dirty' \in BOOLEAN
    BY <1>1, <1>5 DEF AddEnd
  <2>2. Len(docs) <= Len(docs') /\ Len(entries) <= Len(entries')
    BY <1>1, <2>1
  <2>3. /\ docs' \in Seq(Documents) /\ entries' \in Seq(Documents)
        /\ idf' \in 0 .. Len(entries')
        /\ adding' \in {"idle", "document", "entry"}
        /\ raced' \in SUBSET (1 .. Len(docs')) /\ lost' \in SUBSET (1 .. Len(docs'))
    BY <1>1, <2>1
  <2>4. UNCHANGED <<backend, search>>
    BY <2>1
  <2> QED BY <2>1, <2>2, <2>3, <2>4, GrowingKeepsTypes
<1>6. ASSUME NEW d \in Documents, AddDocument(d) PROVE TypedInv'
  <2>1. docs' \in Seq(Documents) /\ Len(docs') = Len(docs) + 1
    BY <1>1, <1>6 DEF AddDocument
  <2> QED BY <1>1, <1>6, <2>1, GrowingKeepsTypes DEF AddDocument
<1> QED BY <1>3, <1>4, <1>5, <1>6 DEF Add

LEMMA SearchTyped ==
  ASSUME TypedInv, RetrievalInv, NEW t \in Threads, Search(t) PROVE TypedInv'
<1> DEFINE old == search[t]
<1>1. /\ old \in SearchesHere /\ Bounded(old)
      /\ Len(docs) \in Nat /\ Len(entries) \in Nat /\ Added \in 0 .. Len(docs)
      /\ idf \in 0 .. Len(entries) /\ dirty \in BOOLEAN
  BY ThreadTypes
<1>2. Idle \in SearchesHere /\ Bounded(Idle) /\ Idle.result = {}
  BY <1>1, IdleTyped
<1>3. ASSUME NEW query \in Queries, Retrieve(t, query) PROVE TypedInv'
  <2> DEFINE next == [Idle EXCEPT !.pc = "test", !.query = query, !.known = Added]
  <2>1. /\ next \in SearchesHere
        /\ next.kind = Idle.kind /\ next.result = {} /\ next.pc = "test"
    <3>1. /\ Added \in 0 .. Len(docs) /\ 0 \in 0 .. Len(entries)
          /\ 1 \in 1 .. Len(docs) + 1 /\ query \in Queries \cup {{}}
      BY <1>1
    <3>2. next = [pc |-> "test", kind |-> "runbook", query |-> query, known |-> Added, fit |-> 0,
                  weights |-> {}, next |-> 1, hits |-> {}, result |-> {}]
      <4> DEFINE one == [Idle EXCEPT !.pc = "test"]
                 two == [one EXCEPT !.query = query]
      <4>1. one = [pc |-> "test", kind |-> "runbook", query |-> {}, known |-> 0, fit |-> 0,
                   weights |-> {}, next |-> 1, hits |-> {}, result |-> {}]
        BY DEF Idle
      <4>2. next = [two EXCEPT !.known = Added]
        BY DEF Idle
      <4> HIDE DEF one, next
      <4>3. two = [pc |-> "test", kind |-> "runbook", query |-> query, known |-> 0, fit |-> 0,
                   weights |-> {}, next |-> 1, hits |-> {}, result |-> {}]
        BY <4>1
      <4> HIDE DEF two
      <4> QED BY <4>2, <4>3
    <3> HIDE DEF next
    <3>3. next.kind = "runbook" /\ next.result = {} /\ next.pc = "test" /\ Idle.kind = "runbook"
      BY <3>2 DEF Idle
    <3> QED BY <3>1, <3>2, <3>3 DEF SearchesHere
  <2>2. Step(t, "idle", next) /\ UNCHANGED <<idf, dirty>>
    BY <1>3 DEF Retrieve
  <2> HIDE DEF next
  <2>3. Bounded(next)
    BY <1>2, <2>1, FS_EmptySet, RetrieverAssumption DEF Bounded
  <2> QED BY <1>1, <2>1, <2>2, <2>3, StepTyped
<1>4. CASE SearchNothing(t)
  <2>1. {} \in SUBSET (1 .. Len(docs)) /\ Cardinality({}) <= K
    BY FS_EmptySet, RetrieverAssumption
  <2>2. Step(t, "test", Ended(t, {})) /\ UNCHANGED <<idf, dirty>> /\ old.pc # "done"
    BY <1>4 DEF SearchNothing, Step
  <2> QED BY <1>1, <2>1, <2>2, EndedTyped, StepTyped
<1>5. CASE Test(t)
  <2> DEFINE pc == IF backend = "tfidf" /\ dirty THEN "fit" ELSE "query"
  <2>1. Step(t, "test", Goto(t, pc)) /\ UNCHANGED <<idf, dirty>> /\ old.pc # "done"
    BY <1>5 DEF Test, Step
  <2>2. pc \in {"test", "fit", "fitted", "published", "query", "score"}
    OBVIOUS
  <2> HIDE DEF pc
  <2> QED BY <1>1, <2>1, <2>2, GotoTyped, StepTyped
<1>6. CASE Fit(t)
  <2> DEFINE at == Goto(t, "fitted")
             next == [at EXCEPT !.fit = Len(entries)]
  <2>1. Step(t, "fit", next) /\ UNCHANGED <<idf, dirty>> /\ old.pc # "done"
    BY <1>6 DEF Fit, Step
  <2>2. at \in SearchesHere /\ Bounded(at)
    BY <2>1, GotoTyped
  <2> HIDE DEF at
  <2>3. /\ next \in SearchesHere
        /\ next.kind = at.kind /\ next.result = at.result /\ next.pc = at.pc
    BY <1>1, <2>2, Refit
  <2> HIDE DEF next
  <2>4. Bounded(next)
    BY <2>2, <2>3 DEF Bounded
  <2> QED BY <1>1, <2>1, <2>3, <2>4, StepTyped
<1>7. CASE Publish(t)
  <2>1. Step(t, "fitted", Goto(t, "published")) /\ idf' = old.fit /\ dirty' = dirty /\ old.pc # "done"
    BY <1>7 DEF Publish, Step
  <2>2. old.fit \in 0 .. Len(entries)
    BY <1>1 DEF SearchesHere
  <2> QED BY <1>1, <2>1, <2>2, GotoTyped, StepTyped
<1>8. CASE Clear(t)
  <2>1. Step(t, "published", Goto(t, "query")) /\ dirty' = FALSE /\ idf' = idf /\ old.pc # "done"
    BY <1>8 DEF Clear, Step
  <2> QED BY <1>1, <2>1, GotoTyped, StepTyped
<1>9. CASE Query(t)
  <2> DEFINE at == Goto(t, "score")
             weights == old.query \cap Weighted(idf)
             next == [at EXCEPT !.weights = weights]
  <2>1. Step(t, "query", next) /\ UNCHANGED <<idf, dirty>> /\ old.pc # "done"
    BY <1>9 DEF Query, Step
  <2>2. at \in SearchesHere /\ Bounded(at)
    BY <2>1, GotoTyped
  <2>3. weights \in SUBSET Terms
    BY <1>1 DEF SearchesHere, Terms
  <2> HIDE DEF at, weights
  <2>4. /\ next \in SearchesHere
        /\ next.kind = at.kind /\ next.result = at.result /\ next.pc = at.pc
    BY <2>2, <2>3 DEF SearchesHere
  <2> HIDE DEF next
  <2>5. Bounded(next)
    BY <2>2, <2>4 DEF Bounded
  <2> QED BY <1>1, <2>1, <2>4, <2>5, StepTyped
<1>10. CASE QueryFail(t)
  BY <1>1, <1>2, <1>10, StepTyped DEF QueryFail
<1>11. CASE Score(t)
  <2> DEFINE i == old.next
             hits == IF KindOf[docs[i]] = old.kind /\ Hit(t, i) THEN old.hits \cup {i} ELSE old.hits
             next == [old EXCEPT !.next = i + 1, !.hits = hits]
  <2>1. /\ i <= Scorable /\ old.pc = "score" /\ UNCHANGED <<idf, dirty>>
        /\ Step(t, "score", next)
    BY <1>11 DEF Score, Step
  <2>2. i \in 1 .. Len(docs) /\ i + 1 \in 1 .. Len(docs) + 1
    BY <1>1, <2>1, Lengths DEF SearchesHere
  <2>3. hits \in SUBSET (1 .. Len(docs))
    BY <1>1, <2>2 DEF SearchesHere
  <2> HIDE DEF hits, i, old
  <2>4. /\ next \in SearchesHere
        /\ next.kind = old.kind /\ next.result = old.result /\ next.pc = old.pc
    BY <1>1, <2>2, <2>3 DEF SearchesHere
  <2> HIDE DEF next
  <2>5. Bounded(next)
    BY <1>1, <2>4 DEF Bounded
  <2> QED BY <1>1, <2>1, <2>4, <2>5, StepTyped
<1>12. CASE Rank(t)
  <2>1. PICK best \in Best(old.hits) : Step(t, "score", Ended(t, best))
    BY <1>12 DEF Rank
  <2>2. old.pc # "done" /\ UNCHANGED <<idf, dirty>>
    BY <1>12, <2>1 DEF Rank, Step
  <2>3. old.hits \in SUBSET (1 .. Len(docs)) /\ best \in SUBSET old.hits
    BY <1>1 DEF SearchesHere, Best
  <2>4. Cardinality(old.hits) \in Nat
    <3>1. IsFiniteSet(1 .. Len(docs))
      BY <1>1, FS_Interval
    <3>2. IsFiniteSet(old.hits)
      BY <2>3, <3>1, FS_Subset
    <3> QED BY <3>2, FS_CardinalityType
  <2>5. best \in SUBSET (1 .. Len(docs)) /\ Cardinality(best) <= K
    BY <2>3, <2>4, RetrieverAssumption DEF Best
  <2> QED BY <1>1, <2>1, <2>2, <2>5, EndedTyped, StepTyped
<1>13. CASE Return(t)
  BY <1>1, <1>2, <1>13, StepTyped DEF Return
<1> QED BY <1>3, <1>4, <1>5, <1>6, <1>7, <1>8, <1>9, <1>10, <1>11, <1>12, <1>13 DEF Search

(* No more than 2 * K documents ground a diagnosis, and no search looks outside
   the corpus, whatever is indexed while it scores (rag.py:95-99 and
   the slices of retrieve and search). *)
THEOREM AtMostTwiceK == Spec => []TypeOK
<1>1. ASSUME TypedInv, RetrievalInv, [Next]_vars PROVE TypedInv'
  <2>1. CASE UNCHANGED vars
    <3>1. /\ docs' \in Seq(Documents) /\ entries' \in Seq(Documents)
          /\ Len(docs) <= Len(docs') /\ Len(entries) <= Len(entries')
          /\ idf' \in 0 .. Len(entries') /\ dirty' \in BOOLEAN
          /\ adding' \in {"idle", "document", "entry"}
          /\ raced' \in SUBSET (1 .. Len(docs')) /\ lost' \in SUBSET (1 .. Len(docs'))
          /\ UNCHANGED <<backend, search>>
      BY <1>1, <2>1 DEF vars, TypedInv, TypeOK
    <3> QED BY <1>1, <3>1, GrowingKeepsTypes
  <2> QED BY <1>1, <2>1, AddTyped, SearchTyped DEF Next
<1>2. TypedInv => TypeOK
  BY DEF TypedInv
<1> QED BY <1>1, <1>2, TypedInit, RetrievalInit, RetrievalNext, PTL DEF Spec
=============================================================================
