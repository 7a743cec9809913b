SPECIFICATION Spec
CONSTANTS
  book = book
  past = past
  x = x
  y = y
  t1 = t1
  t2 = t2
  Documents = {book, past}
  KindOf <- Kind
  TermsOf <- Words
  Corpora <- OnDisk
  Queries <- Asked
  Threads = {t1, t2}
  K = 1
  Backends = {"tfidf", "embedding"}
  EmbedMayFail = TRUE
  MaxDocs = 3
SYMMETRY Interchangeable
INVARIANT TypeOK
INVARIANT IndexedIsFound
INVARIANT HitsAreDeserved
