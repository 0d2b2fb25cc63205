--------------------------- MODULE SourceIndexing ---------------------------
(***************************************************************************)
(* Indexing of fetched web pages into the shared public corpus              *)
(* (app/research/indexing.py, source_exclusion.py, evidence_index.py and    *)
(* the source functions of app/repositories/research_repo.py).  Each        *)
(* attempt is one call of index_research_sources by some job, for one page.  *)
(* Four stores are written without a common transaction: the SQL rows, the  *)
(* URL aliases, the raw file and the Chroma chunks.  The only await is the   *)
(* embedding call, so an attempt is two atomic slices around it.            *)
(***************************************************************************)
EXTENDS Naturals, FiniteSets

CONSTANTS
  Urls,        \* normalised URLs; a source is identified by its canonical URL
  Pages,       \* page contents a fetch can return
  PageUrl,     \* canonical URL of each page
  Attempts,    \* bound: calls of index_research_sources
  Job,         \* the job each attempt works for
  None,        \* no row, no file, no alias
  Environments \* the sets of Circumstances behaviours are examined under

Circumstances ==
  {"overlap",       \* attempts of several jobs await their embeddings at once
   "exclude",       \* sources are excluded (no handler of the app does it yet)
   "crash",         \* the process dies while attempts are in flight
   "torn",          \* it dies, or a commit raises, behind writes to the other stores
   "cleanup"}       \* deleting chunks or the raw file raises

Statuses == {"absent", "pending", "indexed", "failed", "excluded"}

ASSUME ConstantsOK ==
  /\ PageUrl \in [Pages -> Urls]
  /\ None \notin Urls \cup Pages
  /\ Environments \subseteq SUBSET Circumstances

VARIABLES
  env,            \* the circumstances of this behaviour; never changes
  status, hash,   \* columns of research_sources
  alias,          \* research_source_urls: the source a URL resolves to
  links,          \* research_job_sources
  raw,            \* storage: research_sources/{id}.json
  chunks,         \* Chroma: the <<source, page>> whose chunks are searchable
  pc, src, page,  \* each attempt: where it is, its source and its page
  leftover,       \* history: chunks of attempts that could not clean up or broke off
  gutted          \* history: sources whose chunks a deletion took that then broke off

rows == <<status, hash, alias, links>>
history == <<leftover, gutted>>
vars == <<env, status, hash, alias, links, raw, chunks, pc, src, page, leftover, gutted>>

TypeOK ==
  /\ env \in Environments
  /\ status \in [Urls -> Statuses]
  /\ hash \in [Urls -> Pages \cup {None}]
  /\ alias \in [Urls -> Urls \cup {None}]
  /\ links \subseteq {Job[f] : f \in Attempts} \X Urls
  /\ raw \in [Urls -> Pages \cup {None}]
  /\ chunks \subseteq Urls \X Pages
  /\ pc \in [Attempts -> {"idle", "embedding", "done"}]
  /\ src \in [Attempts -> Urls \cup {None}]
  /\ page \in [Attempts -> Pages \cup {None}]
  /\ leftover \subseteq Urls \X Pages
  /\ gutted \subseteq Urls

Init ==
  /\ env \in Environments
  /\ status = [s \in Urls |-> "absent"]
  /\ hash = [s \in Urls |-> None]
  /\ alias = [u \in Urls |-> None]
  /\ links = {}
  /\ raw = [s \in Urls |-> None]
  /\ chunks = {}
  /\ pc = [f \in Attempts |-> "idle"]
  /\ src = [f \in Attempts |-> None]
  /\ page = [f \in Attempts |-> None]
  /\ leftover = {}
  /\ gutted = {}

\* split_source_for_retrieval: chunk ids are made of the source and the text.  Two
\* versions of a page are taken to differ in every chunk.
Chunk(s, p) == <<s, p>>

InFlight(s) == {f \in Attempts : pc[f] = "embedding" /\ src[f] = s}
ChunksOf(s) == {c \in chunks : c[1] = s}
-----------------------------------------------------------------------------
(***************************************************************************)
(* First slice                                                              *)
(***************************************************************************)
\* find_source_by_url with the requested URL, or else with the canonical one.
Resolve(r, c) == IF alias[r] # None THEN alias[r] ELSE alias[c]

\* Mutations: the source's own URL gets no alias row; an alias is re-pointed.
AddAliasesOfOthers(s, us) ==
  alias' = [u \in Urls |-> IF u \in us \ {s} /\ alias[u] = None THEN s ELSE alias[u]]
AddAliasesAnew(s, us) ==
  alias' = [u \in Urls |-> IF u \in us THEN s ELSE alias[u]]

\* add_source_url_alias keeps an alias that exists, whatever it points to.
AddAliases(s, us) ==
  alias' = [u \in Urls |-> IF u \in us /\ alias[u] = None THEN s ELSE alias[u]]

Link(f, s) == links' = links \cup {<<Job[f], s>>}

Over(f)  == pc' = [pc EXCEPT ![f] = "done"]
Leave(f) == Over(f) /\ UNCHANGED <<src, page>>

\* Mutations: excluded sources, or indexed ones, are processed like failed ones.
RetryableExcluded(s) == status[s] # "indexed"
RetryableIndexed(s)  == status[s] # "excluded"

Retryable(s) == status[s] \in {"absent", "pending", "failed"}
Reusable(s)  == status[s] = "indexed"

\* An excluded source is skipped without a write.
SkipExcluded(f, r, p) ==
  LET s == Resolve(r, PageUrl[p]) IN
  /\ pc[f] = "idle"
  /\ s # None
  /\ status[s] = "excluded"
  /\ Leave(f)
  /\ UNCHANGED <<env, rows, raw, chunks, history>>

\* An indexed source is reused: alias and link only, the page is dropped.
Reuse(f, r, p) ==
  LET s == Resolve(r, PageUrl[p]) IN
  /\ pc[f] = "idle"
  /\ s # None
  /\ Reusable(s)
  /\ AddAliases(s, {r})
  /\ Link(f, s)
  /\ Leave(f)
  /\ UNCHANGED <<env, status, hash, raw, chunks, history>>

Target(r, p) == IF Resolve(r, PageUrl[p]) = None THEN PageUrl[p] ELSE Resolve(r, PageUrl[p])

\* A new source, or a pending or failed one to try again: the row and its aliases
\* are committed as pending.
Register(f, r, p) ==
  LET s == Target(r, p) IN
  /\ pc[f] = "idle"
  /\ Retryable(s)
  /\ "overlap" \in env \/ \A g \in Attempts : pc[g] # "embedding"
  /\ status' = [status EXCEPT ![s] = "pending"]
  /\ hash' = [hash EXCEPT ![s] = p]
  /\ AddAliases(s, {PageUrl[p], r})
  /\ UNCHANGED <<env, links, chunks, history>>

\* The raw file is written, and the attempt awaits its embeddings.
Start(f, r, p) ==
  LET s == Target(r, p) IN
  /\ Register(f, r, p)
  /\ raw' = [raw EXCEPT ![s] = p]
  /\ pc' = [pc EXCEPT ![f] = "embedding"]
  /\ src' = [src EXCEPT ![f] = s]
  /\ page' = [page EXCEPT ![f] = p]

\* Splitting the page raises, outside of the code's try: the row stays as it was
\* committed and nothing is cleaned up.
SplitRaises(f, r, p) ==
  /\ Register(f, r, p)
  /\ Leave(f)
  /\ UNCHANGED raw
-----------------------------------------------------------------------------
(***************************************************************************)
(* Second slice                                                             *)
(***************************************************************************)
Own(f) == Chunk(src[f], page[f])

\* aembed_documents returned: upsert, mark indexed, link, commit.
Succeed(f) ==
  /\ pc[f] = "embedding"
  /\ chunks' = chunks \cup {Own(f)}
  /\ status' = [status EXCEPT ![src[f]] = "indexed"]
  /\ Link(f, src[f])
  /\ Leave(f)
  /\ leftover' = leftover \ {Own(f)}
  /\ gutted' = gutted \ {src[f]}
  /\ UNCHANGED <<env, hash, alias, raw>>

Upserts(f)  == chunks' = chunks \cup {Own(f)} /\ leftover' = leftover \cup {Own(f)}
Discards(f) == chunks' = chunks \ {Own(f)} /\ leftover' = leftover \ {Own(f)}
DropRaw(s)  == raw' = [raw EXCEPT ![s] = None]

\* Mutation: what the upsert stored is left in the index.
CleansUpRawOnly(f) ==
  /\ chunks' \in {chunks, chunks \cup {Own(f)}}
  /\ DropRaw(src[f])
  /\ UNCHANGED leftover

\* The attempt's chunk ids and the raw file are deleted.  A deletion that raises is
\* only reported: what an upsert that raised had stored stays.
CleansUp(f) ==
  /\ \/ Discards(f)
     \/ "cleanup" \in env /\ (Upserts(f) \/ UNCHANGED <<chunks, leftover>>)
  /\ \/ DropRaw(src[f])
     \/ "cleanup" \in env /\ UNCHANGED raw

\* Mutation: only a row that is still pending is marked failed.
FailPending(f) ==
  LET s == src[f] IN
  /\ pc[f] = "embedding"
  /\ CleansUp(f)
  /\ status' = IF status[s] = "pending" THEN [status EXCEPT ![s] = "failed"] ELSE status
  /\ Leave(f)
  /\ UNCHANGED <<env, hash, alias, links, gutted>>

\* Embedding, the upsert or the save of the raw file raised: clean up, and the row
\* becomes failed.
Fail(f) ==
  /\ pc[f] = "embedding"
  /\ CleansUp(f)
  /\ status' = [status EXCEPT ![src[f]] = "failed"]
  /\ Leave(f)
  /\ UNCHANGED <<env, hash, alias, links, gutted>>
-----------------------------------------------------------------------------
Lost == pc' = [f \in Attempts |-> IF pc[f] = "embedding" THEN "done" ELSE pc[f]]

\* The slice breaks off before its commit: behind the upsert, between the deletions
\* of the clean-up or behind them.  Its own exception ends this attempt, the death of
\* the process all of them; the rows stay as they were.
BreaksOff(f) ==
  /\ "torn" \in env
  /\ pc[f] = "embedding"
  /\ \/ Upserts(f) /\ UNCHANGED raw /\ (Lost \/ Over(f))
     \/ CleansUp(f) /\ (Lost \/ Over(f))
     \/ Discards(f) /\ UNCHANGED raw /\ Lost
  /\ gutted' = IF Own(f) \in chunks \ chunks' THEN gutted \cup {src[f]} ELSE gutted
  /\ UNCHANGED <<env, rows, src, page>>

\* The process dies while attempts await: every store stays as it is.
Crash ==
  /\ "crash" \in env
  /\ \E f \in Attempts : pc[f] = "embedding"
  /\ Lost
  /\ UNCHANGED <<env, rows, raw, chunks, src, page, history>>

\* exclude_source_from_corpus, at any moment: chunks, raw file, row.
Exclude(s) ==
  /\ "exclude" \in env
  /\ status[s] # "absent"
  /\ chunks' = chunks \ ChunksOf(s)
  /\ leftover' = leftover \ ChunksOf(s)
  /\ DropRaw(s)
  /\ status' = [status EXCEPT ![s] = "excluded"]
  /\ UNCHANGED <<env, hash, alias, links, pc, src, page, gutted>>

\* It breaks off behind the chunks: deleting the raw file raises, or the process
\* dies or the commit raises.  The row keeps its status.
ExcludeBreaksOff(s) ==
  /\ "exclude" \in env
  /\ status[s] # "absent"
  /\ chunks' = chunks \ ChunksOf(s)
  /\ leftover' = leftover \ ChunksOf(s)
  /\ gutted' = gutted \cup {s}
  /\ \/ "cleanup" \in env /\ UNCHANGED <<raw, pc>>
     \/ "torn" \in env /\ DropRaw(s) /\ UNCHANGED pc
     \/ "torn" \in env /\ Lost /\ (DropRaw(s) \/ UNCHANGED raw)
  /\ UNCHANGED <<env, rows, src, page>>

Next ==
  \/ \E f \in Attempts, r \in Urls, p \in Pages :
        SkipExcluded(f, r, p) \/ Reuse(f, r, p) \/ Start(f, r, p) \/ SplitRaises(f, r, p)
  \/ \E f \in Attempts : Succeed(f) \/ Fail(f) \/ BreaksOff(f)
  \/ \E s \in Urls : Exclude(s) \/ ExcludeBreaksOff(s)
  \/ Crash

Spec == Init /\ [][Next]_vars
-----------------------------------------------------------------------------
(***************************************************************************)
(* Properties                                                               *)
(***************************************************************************)
\* A source the database calls indexed can be found by retrieval, whatever the
\* other attempts at the same source cleaned up, with one exception: a deletion of
\* its chunks (an exclusion, another attempt's clean-up) broke off before its commit.
\* Such a source is reused as indexed by every later job and never repaired.
IndexedIsSearchable ==
  \A s \in Urls : status[s] = "indexed" => ChunksOf(s) # {} \/ s \in gutted

\* The URL a source is identified by always leads back to that source, so the
\* same page is never stored under two identities.
CanonicalResolvesToItself ==
  \A s \in Urls : /\ status[s] # "absent" => alias[s] = s
                  /\ alias[s] # None => status[alias[s]] # "absent"

\* A URL that resolves to a source does so for good: job evidence and citations
\* that were built from it keep their source.
AliasesStay ==
  [][\A u \in Urls : alias[u] # None => alias'[u] = alias[u]]_vars

\* An excluded source comes back only through an attempt that was already in
\* flight when it was excluded; no later fetch restores it.
OnlyInFlightRestores ==
  [][\A s \in Urls : status[s] = "excluded" /\ status'[s] # "excluded"
        => InFlight(s) # {}]_vars

\* A job is linked only to sources some attempt of that job indexed or reused;
\* a link is never given to a source that never made it into the corpus.
LinkedWasIndexed ==
  [][\A l \in links' \ links : status'[l[2]] = "indexed"]_vars

\* With one attempt at a time and no exclusions, after any number of failures,
\* retries, deaths (also between upsert and commit) and deletions that raise: the raw
\* file of an indexed source is the page its chunks were cut from, and any other chunk
\* of it was left by an attempt that broke off or could not clean up.
IndexedHasItsRaw ==
  env \cap {"overlap", "exclude"} = {} =>
    \A s \in Urls : status[s] = "indexed" =>
      /\ Chunk(s, raw[s]) \in chunks
      /\ ChunksOf(s) \ {Chunk(s, raw[s])} \subseteq leftover

\* With one attempt at a time, under the same failures and exclusions besides:
\* whatever retrieval can find belongs to an indexed source, or was left by an attempt
\* that broke off between upsert and commit or whose deletion of chunks raised.
OnlyIndexedIsSearchable ==
  "overlap" \notin env =>
    \A c \in chunks : status[c[1]] = "indexed" \/ c \in leftover

\* docs/specs/2026-07-30-agentic-rag-indexing-design.md:44 "수집 결과 전체는 기간
\* 만료 없이 research_sources/{source_id}.json에 보관한다": an indexed source has a
\* raw file, also when another attempt at it fails.
IndexedHasRaw ==
  \A s \in Urls : status[s] = "indexed" => raw[s] # None
=============================================================================
