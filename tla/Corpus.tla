------------------------------- MODULE Corpus -------------------------------
(***************************************************************************)
(* The document corpus as a caller of the ingestion pipeline may think of  *)
(* it: a map from document ids to bodies, and the chunk index derived from *)
(* it, both replaced in one atomic step by each write.  DocumentStore      *)
(* shows that the PostgreSQL half of the pipeline implements this.         *)
(***************************************************************************)
EXTENDS Ingestion

VARIABLES
    corpus,  \* [Docs -> Bodies \union {NoBody}]
    index    \* the chunks a search may return

corpusVars == <<corpus, index>>

CorpusInit ==
    /\ corpus = [d \in Docs |-> NoBody]
    /\ index = {}

(* A job takes effect at once, on the map and on its index, and never      *)
(* stores the same content under two ids.                                  *)
Apply(job) ==
    /\ corpus' = AfterWrites(corpus, job.writes)
    /\ UniqueChecksums(corpus')
    /\ index' = IndexOf(corpus')

CorpusNext == \E job \in Jobs : Apply(job)

CorpusSpec == CorpusInit /\ [][CorpusNext]_corpusVars

=============================================================================
