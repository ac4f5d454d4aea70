----------------------------- MODULE Ingestion -----------------------------
(***************************************************************************)
(* The data the ingestion pipeline moves: documents, the chunks and points *)
(* cut from them, and the jobs that write them (app/api/routes.py,         *)
(* scripts/seed.py, app/ingestion/pipeline.py, app/db/models.py).  Corpus  *)
(* and DocumentStore share these definitions.                              *)
(*                                                                         *)
(* A "body" stands for everything a write carries besides the id: the      *)
(* content, its attributes (title, source, version, language, tenant,      *)
(* department, access level, metadata) and the settings of the process     *)
(* that writes it (chunk size and overlap, embedding model).               *)
(***************************************************************************)
EXTENDS Integers, Sequences

CONSTANTS
    Docs,        \* document ids (UUIDs)
    Bodies,      \* what a write can store under an id
    NoBody,      \* the id has no row in "documents"
    Checksum,    \* sha256 of a body's content, unique in "documents"
    ChunkCount,  \* how many chunks chunk_text cuts a body's content into
    SeedLists,   \* the document lists scripts/seed.py may be run on
    SeedModes,   \* the stores those runs load
    Spellings    \* how a DELETE request may spell the UUID in its path

Writes == [doc : Docs, body : Bodies]

(* scripts/seed.py with no flag, with --postgres-only, with --qdrant-only. *)
AllModes == {"both", "postgres_only", "qdrant_only"}

(* str(uuid) is the canonical spelling; uuid.UUID() also accepts others    *)
(* (upper case, braces, no hyphens).                                       *)
AllSpellings == {"canonical", "other"}

DocsIn(ws) == {ws[i].doc : i \in DOMAIN ws}

ASSUME BodiesAssumption ==
    /\ NoBody \notin Bodies
    /\ Checksum \in [Bodies -> Nat]
    /\ ChunkCount \in [Bodies -> Nat]

(* generate_documents makes at least one document, and gives every         *)
(* document of a list an id of its own.                                    *)
ASSUME RequestsAssumption ==
    /\ SeedLists \subseteq Seq(Writes) \ {<<>>}
    /\ \A ws \in SeedLists : \A i, j \in DOMAIN ws : ws[i].doc = ws[j].doc => i = j
    /\ SeedModes \subseteq AllModes
    /\ Spellings \subseteq AllSpellings

(***************************************************************************)
(* The jobs the system is given: POST or PATCH of one document, DELETE of  *)
(* one document, a seed run over a list.  A DELETE writes NoBody.          *)
(***************************************************************************)
Upserts ==
    { [op |-> "upsert", mode |-> "both", spelling |-> "canonical",
       writes |-> <<[doc |-> d, body |-> b]>>] : d \in Docs, b \in Bodies }

Deletes ==
    { [op |-> "delete", mode |-> "both", spelling |-> s,
       writes |-> <<[doc |-> d, body |-> NoBody]>>] : d \in Docs, s \in Spellings }

Seeds ==
    { [op |-> "seed", mode |-> m, spelling |-> "canonical", writes |-> ws] :
        ws \in SeedLists, m \in SeedModes }

Jobs == Upserts \union Deletes \union Seeds

(***************************************************************************)
(* Chunk i of a document has the id uuid5(document:i) in both stores, so   *)
(* (doc, index) is its key; its text, metadata and embedding are a         *)
(* function of the body.                                                   *)
(***************************************************************************)
Chunks == [doc : Docs, index : Nat, body : Bodies]

ChunksOf(d, b) ==
    IF b = NoBody THEN {}
    ELSE [doc : {d}, index : 0 .. ChunkCount[b] - 1, body : {b}]

SameKey(c, k) == c.doc = k.doc /\ c.index = k.index

IndexOf(table) == UNION { ChunksOf(d, table[d]) : d \in Docs }

(* documents.checksum is declared unique.                                  *)
SameContent(b, c) ==
    b \in Bodies /\ c \in Bodies /\ Checksum[b] = Checksum[c]

UniqueChecksums(table) ==
    \A d, e \in Docs : d # e => ~ SameContent(table[d], table[e])

(* The table after the writes of a job.                                    *)
AfterWrites(table, ws) ==
    [d \in Docs |-> IF d \in DocsIn(ws)
                    THEN ws[CHOOSE i \in DOMAIN ws : ws[i].doc = d].body
                    ELSE table[d]]

=============================================================================
