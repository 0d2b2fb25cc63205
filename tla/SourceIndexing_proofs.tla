------------------------ MODULE SourceIndexing_proofs ------------------------
(***************************************************************************)
(* Proofs about SourceIndexing that hold for every number of overlapping    *)
(* attempts and every combination of faults.  The invariant that carries    *)
(* them is about identity: a source's own URL always has an alias row, and  *)
(* an alias row always has its source.  With it, a source found by either   *)
(* URL of an attempt is the source under its canonical URL, so the second   *)
(* attempt at a page never creates a second row.                            *)
(***************************************************************************)
EXTENDS SourceIndexing, TLAPS

\* An attempt in flight works on a row that exists.
Working ==
  \A f \in Attempts : pc[f] = "embedding" =>
    src[f] \in Urls /\ page[f] \in Pages /\ status[src[f]] # "absent"

IInv == TypeOK /\ Working /\ CanonicalResolvesToItself /\ IndexedIsSearchable

LEMMA TargetOK ==
  ASSUME IInv, NEW r \in Urls, NEW p \in Pages
  PROVE  /\ Target(r, p) \in Urls
         /\ PageUrl[p] \in Urls
         /\ status[Target(r, p)] # "absent" => alias[Target(r, p)] = Target(r, p)
         /\ Target(r, p) # PageUrl[p] => status[Target(r, p)] # "absent"
BY ConstantsOK DEF IInv, TypeOK, CanonicalResolvesToItself, Target, Resolve

\* Adding aliases for a source that exists, or that is its page's own, keeps
\* every URL's identity.
LEMMA AliasesOK ==
  ASSUME IInv, NEW s \in Urls, NEW us \in SUBSET Urls, AddAliases(s, us),
         alias[s] = s \/ s \in us,
         alias[s] \in {None, s},
         status' \in [Urls -> Statuses], status'[s] # "absent",
         \A u \in Urls : status[u] # "absent" => status'[u] # "absent",
         \A u \in Urls \ {s} : status'[u] # "absent" => status[u] # "absent"
  PROVE  alias' \in [Urls -> Urls \cup {None}] /\ CanonicalResolvesToItself'
<1>1. alias \in [Urls -> Urls \cup {None}]
  BY DEF IInv, TypeOK
<1>2. alias' = [u \in Urls |-> IF u \in us /\ alias[u] = None THEN s ELSE alias[u]]
  BY DEF AddAliases
<1>3. alias' \in [Urls -> Urls \cup {None}]
  BY <1>1, <1>2
<1>4. alias'[s] = s
  BY <1>1, <1>2
<1>5. ASSUME NEW u \in Urls, status'[u] # "absent"
      PROVE  alias'[u] = u
  <2>1. CASE u = s
    BY <1>4, <2>1
  <2>2. CASE u # s
    <3>1. status[u] # "absent"
      BY <1>5, <2>2
    <3>2. alias[u] = u
      BY <3>1 DEF IInv, CanonicalResolvesToItself
    <3>3. u # None
      BY ConstantsOK
    <3> QED BY <1>2, <3>2, <3>3
  <2> QED BY <2>1, <2>2
<1>6. ASSUME NEW u \in Urls, alias'[u] # None
      PROVE  status'[alias'[u]] # "absent"
  <2>1. CASE alias'[u] = s
    BY <2>1
  <2>2. CASE alias'[u] # s
    <3>1. alias'[u] = alias[u] /\ alias[u] \in Urls
      BY <1>1, <1>2, <1>6, <2>2
    <3>2. status[alias[u]] # "absent"
      BY <1>6, <3>1 DEF IInv, CanonicalResolvesToItself
    <3> QED BY <3>1, <3>2
  <2> QED BY <2>1, <2>2
<1> QED BY <1>3, <1>5, <1>6 DEF CanonicalResolvesToItself
-----------------------------------------------------------------------------
LEMMA InitOK == Init => IInv
BY ConstantsOK DEF Init, IInv, TypeOK, Working, CanonicalResolvesToItself, IndexedIsSearchable, Statuses

\* A registered row keeps every identity; what it means for an attempt that goes on
\* to its embeddings, or is over, is the same but for the attempt's own fields.
LEMMA RegisterOK ==
  ASSUME IInv, NEW f \in Attempts, NEW r \in Urls, NEW p \in Pages, Register(f, r, p),
         raw' \in [Urls -> Pages \cup {None}],
         \/ /\ pc' = [pc EXCEPT ![f] = "embedding"]
            /\ src' = [src EXCEPT ![f] = Target(r, p)]
            /\ page' = [page EXCEPT ![f] = p]
         \/ Leave(f)
  PROVE  IInv'
<1> DEFINE s == Target(r, p)
<1>1. /\ s \in Urls /\ PageUrl[p] \in Urls
      /\ status[s] # "absent" => alias[s] = s
      /\ s # PageUrl[p] => status[s] # "absent"
  BY TargetOK
<1>2. /\ status' = [status EXCEPT ![s] = "pending"]
      /\ hash' = [hash EXCEPT ![s] = p]
      /\ AddAliases(s, {PageUrl[p], r})
      /\ UNCHANGED <<env, links, chunks, leftover, gutted>>
  BY DEF Register, history
<1>3. alias[s] \in {None, s} /\ (alias[s] = s \/ s \in {PageUrl[p], r})
  <2>1. CASE status[s] # "absent"
    BY <1>1, <2>1
  <2>2. CASE status[s] = "absent"
    <3>1. s = PageUrl[p]
      BY <1>1, <2>2
    <3>2. Resolve(r, PageUrl[p]) = None
      <4> SUFFICES ASSUME Resolve(r, PageUrl[p]) # None PROVE FALSE
        OBVIOUS
      <4>1. s = alias[r] \/ s = alias[PageUrl[p]]
        BY DEF Target, Resolve
      <4>2. s # None
        BY <1>1, ConstantsOK
      <4> QED BY <1>1, <2>2, <4>1, <4>2 DEF IInv, CanonicalResolvesToItself
    <3> QED BY <3>1, <3>2 DEF Resolve
  <2> QED BY <2>1, <2>2
<1>4. \/ /\ pc' = [pc EXCEPT ![f] = "embedding"]
         /\ src' = [src EXCEPT ![f] = s]
         /\ page' = [page EXCEPT ![f] = p]
      \/ pc' = [pc EXCEPT ![f] = "done"] /\ UNCHANGED <<src, page>>
  BY DEF Leave, Over
<1> HIDE DEF s
<1>5. status' \in [Urls -> Statuses] /\ status'[s] = "pending"
  BY <1>1, <1>2 DEF IInv, TypeOK, Statuses
<1>6. alias' \in [Urls -> Urls \cup {None}] /\ CanonicalResolvesToItself'
  <2>1. {PageUrl[p], r} \in SUBSET Urls
    BY <1>1
  <2>2. \A u \in Urls \ {s} : status'[u] = status[u]
    BY <1>1, <1>2 DEF IInv, TypeOK
  <2> QED BY <1>1, <1>2, <1>3, <1>5, <2>1, <2>2, AliasesOK
<1>7. /\ pc' \in [Attempts -> {"idle", "embedding", "done"}]
      /\ src' \in [Attempts -> Urls \cup {None}] /\ page' \in [Attempts -> Pages \cup {None}]
  BY <1>1, <1>4 DEF IInv, TypeOK
<1>8. TypeOK'
  BY <1>1, <1>2, <1>5, <1>6, <1>7 DEF IInv, TypeOK
<1>9. IndexedIsSearchable'
  BY <1>1, <1>2, <1>5 DEF IInv, TypeOK, IndexedIsSearchable, ChunksOf
<1>10. Working'
  BY <1>1, <1>2, <1>4, <1>5 DEF IInv, TypeOK, Working
<1> QED BY <1>6, <1>8, <1>9, <1>10 DEF IInv

LEMMA StartOK ==
  ASSUME IInv, NEW f \in Attempts, NEW r \in Urls, NEW p \in Pages, Start(f, r, p)
  PROVE  IInv'
BY TargetOK, RegisterOK DEF Start, IInv, TypeOK

LEMMA SplitOK ==
  ASSUME IInv, NEW f \in Attempts, NEW r \in Urls, NEW p \in Pages, SplitRaises(f, r, p)
  PROVE  IInv'
BY RegisterOK DEF SplitRaises, IInv, TypeOK

LEMMA ReuseOK ==
  ASSUME IInv, NEW f \in Attempts, NEW r \in Urls, NEW p \in Pages, Reuse(f, r, p)
  PROVE  IInv'
<1> DEFINE s == Resolve(r, PageUrl[p])
<1>1. s # None /\ s = Target(r, p) /\ status[s] = "indexed"
  BY DEF Reuse, Target, Reusable
<1>2. s \in Urls /\ alias[s] = s
  BY <1>1, TargetOK
<1>3. /\ AddAliases(s, {r}) /\ links' = links \cup {<<Job[f], s>>}
      /\ pc' = [pc EXCEPT ![f] = "done"]
      /\ UNCHANGED <<env, status, hash, raw, chunks, src, page, leftover, gutted>>
  BY DEF Reuse, Link, Leave, Over, history
<1> HIDE DEF s
<1>4. alias' \in [Urls -> Urls \cup {None}] /\ CanonicalResolvesToItself'
  <2>1. {r} \in SUBSET Urls /\ status' \in [Urls -> Statuses] /\ status'[s] # "absent"
    BY <1>1, <1>3 DEF IInv, TypeOK
  <2> QED BY <1>2, <1>3, <2>1, AliasesOK
<1>5. TypeOK'
  BY <1>2, <1>3, <1>4 DEF IInv, TypeOK
<1>6. IndexedIsSearchable'
  BY <1>3 DEF IInv, IndexedIsSearchable, ChunksOf
<1>7. Working'
  BY <1>3 DEF IInv, TypeOK, Working
<1> QED BY <1>4, <1>5, <1>6, <1>7 DEF IInv

\* No step but Start and SplitRaises creates a row: statuses change, "absent" is never
\* involved.
LEMMA SameRows ==
  ASSUME IInv, UNCHANGED <<env, hash, alias>>,
         status' \in [Urls -> Statuses],
         \A u \in Urls : status[u] # "absent" <=> status'[u] # "absent",
         links' \subseteq {Job[f] : f \in Attempts} \X Urls,
         raw' \in [Urls -> Pages \cup {None}],
         chunks' \subseteq Urls \X Pages,
         leftover' \subseteq Urls \X Pages,
         gutted' \subseteq Urls,
         pc' \in [Attempts -> {"idle", "embedding", "done"}],
         \A f \in Attempts : pc'[f] = "embedding" => pc[f] = "embedding",
         UNCHANGED <<src, page>>,
         \A u \in Urls : status'[u] = "indexed" => u \in gutted' \/ \E c \in chunks' : c[1] = u
  PROVE  IInv'
<1>1. TypeOK'
  BY DEF IInv, TypeOK
<1>2. Working'
  BY DEF IInv, TypeOK, Working
<1>3. CanonicalResolvesToItself'
  BY ConstantsOK DEF IInv, TypeOK, CanonicalResolvesToItself
<1>4. IndexedIsSearchable'
  BY DEF IndexedIsSearchable, ChunksOf
<1> QED BY <1>1, <1>2, <1>3, <1>4 DEF IInv

\* What a clean-up may do to the index and the raw file.
LEMMA CleansUpTouches ==
  ASSUME IInv, NEW f \in Attempts, pc[f] = "embedding",
         CleansUp(f) \/ (UNCHANGED raw /\ (Discards(f) \/ Upserts(f)))
  PROVE  /\ raw' \in [Urls -> Pages \cup {None}]
         /\ chunks' \subseteq Urls \X Pages
         /\ leftover' \subseteq Urls \X Pages
         /\ \A c \in chunks : c # Own(f) => c \in chunks'
<1>1. Own(f) \in Urls \X Pages
  BY DEF IInv, Working, Own, Chunk
<1>2. raw \in [Urls -> Pages \cup {None}]
  BY DEF IInv, TypeOK
<1>3. raw' = raw \/ raw' = [raw EXCEPT ![src[f]] = None]
  BY DEF CleansUp, DropRaw
<1>4. raw' \in [Urls -> Pages \cup {None}]
  BY <1>2, <1>3
<1> QED BY <1>1, <1>4 DEF IInv, TypeOK, CleansUp, Discards, Upserts

LEMMA StepOK == IInv /\ [Next]_vars => IInv'
<1> SUFFICES ASSUME IInv, [Next]_vars PROVE IInv'
  OBVIOUS
<1>1. /\ status \in [Urls -> Statuses] /\ raw \in [Urls -> Pages \cup {None}]
      /\ links \subseteq {Job[f] : f \in Attempts} \X Urls
      /\ chunks \subseteq Urls \X Pages
      /\ leftover \subseteq Urls \X Pages /\ gutted \subseteq Urls
      /\ pc \in [Attempts -> {"idle", "embedding", "done"}]
      /\ \A u \in Urls : status[u] = "indexed" => u \in gutted \/ \E c \in chunks : c[1] = u
  BY DEF IInv, TypeOK, IndexedIsSearchable, ChunksOf
<1>2. ASSUME NEW f \in Attempts, NEW r \in Urls, NEW p \in Pages, SkipExcluded(f, r, p)
      PROVE  IInv'
  BY <1>1, <1>2, SameRows DEF SkipExcluded, Leave, Over, rows, history
<1>3. ASSUME NEW f \in Attempts, Succeed(f) PROVE IInv'
  <2>1. src[f] \in Urls /\ page[f] \in Pages /\ status[src[f]] # "absent"
    BY <1>3 DEF IInv, Working, Succeed
  <2>2. /\ chunks' = chunks \cup {<<src[f], page[f]>>}
        /\ status' = [status EXCEPT ![src[f]] = "indexed"]
        /\ links' = links \cup {<<Job[f], src[f]>>}
        /\ pc' = [pc EXCEPT ![f] = "done"]
        /\ leftover' \subseteq leftover /\ gutted' = gutted \ {src[f]}
        /\ UNCHANGED <<env, hash, alias, raw, src, page>>
    BY <1>3 DEF Succeed, Link, Leave, Over, Own, Chunk
  <2>3. status' \in [Urls -> Statuses] /\ chunks' \subseteq Urls \X Pages
    BY <1>1, <2>1, <2>2 DEF Statuses
  <2>4. \A u \in Urls : status'[u] = "indexed" => u \in gutted' \/ \E c \in chunks' : c[1] = u
    <3>1. <<src[f], page[f]>> \in chunks' /\ <<src[f], page[f]>>[1] = src[f]
      BY <2>2
    <3>2. \A u \in Urls : u # src[f] => status'[u] = status[u]
      BY <1>1, <2>2
    <3> QED BY <1>1, <2>2, <3>1, <3>2
  <2>5. links' \subseteq {Job[g] : g \in Attempts} \X Urls
    BY <1>1, <2>1, <2>2
  <2> QED BY <1>1, <2>1, <2>2, <2>3, <2>4, <2>5, SameRows
<1>4. ASSUME NEW f \in Attempts, Fail(f) PROVE IInv'
  <2> DEFINE s == src[f]
  <2>1. s \in Urls /\ status[s] # "absent"
    BY <1>4 DEF IInv, Working, Fail
  <2>2. /\ status' = [status EXCEPT ![s] = "failed"]
        /\ pc' = [pc EXCEPT ![f] = "done"]
        /\ UNCHANGED <<env, hash, alias, links, src, page, gutted>>
    BY <1>4 DEF Fail, Leave, Over
  <2>3. /\ raw' \in [Urls -> Pages \cup {None}]
        /\ chunks' \subseteq Urls \X Pages
        /\ leftover' \subseteq Urls \X Pages
        /\ \A c \in chunks : c # Own(f) => c \in chunks'
    <3>1. pc[f] = "embedding" /\ CleansUp(f)
      BY <1>4 DEF Fail
    <3> QED BY <3>1, CleansUpTouches
  <2>4. \A c \in chunks : c[1] # s => c \in chunks'
    BY <2>3 DEF Own, Chunk
  <2> HIDE DEF s
  <2>5. status' \in [Urls -> Statuses]
    BY <1>1, <2>1, <2>2 DEF Statuses
  <2>6. \A u \in Urls : status'[u] = "indexed" => u \in gutted' \/ \E c \in chunks' : c[1] = u
    BY <1>1, <2>1, <2>2, <2>4
  <2> QED BY <1>1, <2>1, <2>2, <2>3, <2>5, <2>6, SameRows
<1>5. ASSUME NEW f \in Attempts, BreaksOff(f) PROVE IInv'
  <2>1. src[f] \in Urls
    BY <1>5 DEF IInv, Working, BreaksOff
  <2>2. /\ gutted' = IF Own(f) \in chunks \ chunks' THEN gutted \cup {src[f]} ELSE gutted
        /\ UNCHANGED <<env, status, hash, alias, links, src, page>>
    BY <1>5 DEF BreaksOff, rows
  <2>3. /\ raw' \in [Urls -> Pages \cup {None}]
        /\ chunks' \subseteq Urls \X Pages
        /\ leftover' \subseteq Urls \X Pages
        /\ \A c \in chunks : c # Own(f) => c \in chunks'
    <3>1. /\ pc[f] = "embedding"
          /\ CleansUp(f) \/ (UNCHANGED raw /\ (Discards(f) \/ Upserts(f)))
      BY <1>5 DEF BreaksOff
    <3> QED BY <3>1, CleansUpTouches
  <2>4. /\ pc' \in [Attempts -> {"idle", "embedding", "done"}]
        /\ \A g \in Attempts : pc'[g] = "embedding" => pc[g] = "embedding"
    BY <1>1, <1>5 DEF BreaksOff, Lost, Over
  <2>5. ASSUME NEW u \in Urls, status'[u] = "indexed"
        PROVE  u \in gutted' \/ \E c \in chunks' : c[1] = u
    <3>1. u \in gutted \/ \E c \in chunks : c[1] = u
      BY <1>1, <2>2, <2>5
    <3>2. CASE Own(f) \in chunks \ chunks' /\ u = src[f]
      BY <2>2, <3>2
    <3>3. CASE u # src[f]
      BY <2>2, <2>3, <3>1, <3>3 DEF Own, Chunk
    <3>4. CASE Own(f) \notin chunks \ chunks'
      BY <2>2, <2>3, <3>1, <3>4
    <3> QED BY <3>2, <3>3, <3>4
  <2> QED BY <1>1, <2>1, <2>2, <2>3, <2>4, <2>5, SameRows
<1>6. ASSUME NEW s \in Urls, Exclude(s) \/ ExcludeBreaksOff(s) PROVE IInv'
  <2>1. /\ status[s] # "absent"
        /\ status' = [status EXCEPT ![s] = "excluded"] \/ (status' = status /\ s \in gutted')
        /\ gutted \subseteq gutted' /\ gutted' \subseteq Urls
        /\ raw' = [raw EXCEPT ![s] = None] \/ raw' = raw
        /\ chunks' = {c \in chunks : c[1] # s} /\ leftover' \subseteq leftover
        /\ UNCHANGED <<env, hash, alias, links, src, page>>
    <3>1. CASE Exclude(s)
      <4>1. /\ status[s] # "absent" /\ UNCHANGED <<env, hash, alias, links, src, page, gutted>>
            /\ status' = [status EXCEPT ![s] = "excluded"]
            /\ chunks' = chunks \ ChunksOf(s) /\ leftover' = leftover \ ChunksOf(s)
            /\ raw' = [raw EXCEPT ![s] = None]
        BY <3>1 DEF Exclude, DropRaw
      <4>2. chunks' = {c \in chunks : c[1] # s} /\ leftover' \subseteq leftover
        BY <4>1 DEF ChunksOf
      <4>3. gutted \subseteq gutted' /\ gutted' \subseteq Urls
        BY <1>1, <4>1
      <4> QED BY <4>1, <4>2, <4>3
    <3>2. CASE ExcludeBreaksOff(s)
      <4>1. /\ status[s] # "absent" /\ UNCHANGED <<env, status, hash, alias, links, src, page>>
            /\ chunks' = chunks \ ChunksOf(s) /\ leftover' = leftover \ ChunksOf(s)
            /\ gutted' = gutted \cup {s}
            /\ raw' = [raw EXCEPT ![s] = None] \/ raw' = raw
        BY <3>2 DEF ExcludeBreaksOff, DropRaw, rows
      <4> QED BY <1>1, <4>1 DEF ChunksOf
    <3> QED BY <1>6, <3>1, <3>2
  <2>2. status' \in [Urls -> Statuses] /\ raw' \in [Urls -> Pages \cup {None}]
    BY <1>1, <2>1 DEF Statuses
  <2>3. \A u \in Urls : status'[u] = "indexed" => u \in gutted' \/ \E c \in chunks' : c[1] = u
    BY <1>1, <2>1
  <2>4. /\ pc' \in [Attempts -> {"idle", "embedding", "done"}]
        /\ \A g \in Attempts : pc'[g] = "embedding" => pc[g] = "embedding"
    BY <1>1, <1>6 DEF Exclude, ExcludeBreaksOff, Lost
  <2> QED BY <1>1, <2>1, <2>2, <2>3, <2>4, SameRows
<1>7. CASE Crash
  BY <1>1, <1>7, SameRows DEF Crash, Lost, rows, history
<1>8. CASE UNCHANGED vars
  BY <1>1, <1>8, SameRows DEF vars
<1> QED
  BY <1>2, <1>3, <1>4, <1>5, <1>6, <1>7, <1>8, StartOK, SplitOK, ReuseOK DEF Next

LEMMA Inductive == Spec => []IInv
  BY InitOK, StepOK, PTL DEF Spec
-----------------------------------------------------------------------------
\* The stores keep their types, whatever attempts overlap, fail or are lost.
THEOREM TypeCorrect == Spec => []TypeOK
<1>1. IInv => TypeOK
  BY DEF IInv
<1> QED BY <1>1, Inductive, PTL

\* No source is called indexed without a chunk, unless a deletion of its chunks broke
\* off (index_research_sources, exclude_source_from_corpus).
THEOREM IndexedSearchable == Spec => []IndexedIsSearchable
<1>1. IInv => IndexedIsSearchable
  BY DEF IInv
<1> QED BY <1>1, Inductive, PTL

\* A page never gets two identities (find_source_by_url, add_source_url_alias).
THEOREM CanonicalIdentity == Spec => []CanonicalResolvesToItself
<1>1. IInv => CanonicalResolvesToItself
  BY DEF IInv
<1> QED BY <1>1, Inductive, PTL

KeepsAliases == \A u \in Urls : alias[u] # None => alias'[u] = alias[u]

\* A URL that resolves to a source does so for good (add_source_url_alias).
THEOREM AliasesPermanent == Spec => AliasesStay
<1>1. IInv /\ [Next]_vars => KeepsAliases
  <2> SUFFICES ASSUME IInv, [Next]_vars PROVE KeepsAliases
    OBVIOUS
  <2>1. ASSUME NEW s, NEW us, AddAliases(s, us) PROVE KeepsAliases
    BY <2>1 DEF KeepsAliases, AddAliases
  <2>2. ASSUME UNCHANGED alias PROVE KeepsAliases
    BY <2>2 DEF KeepsAliases
  <2>3. ASSUME NEW f \in Attempts, NEW r \in Urls, NEW p \in Pages,
               SkipExcluded(f, r, p) \/ Reuse(f, r, p) \/ Start(f, r, p) \/ SplitRaises(f, r, p)
        PROVE  KeepsAliases
    BY <2>1, <2>2, <2>3 DEF SkipExcluded, rows, Reuse, Start, SplitRaises, Register
  <2> QED
    BY <2>2, <2>3 DEF Next, vars, rows, Succeed, Fail, BreaksOff, Exclude,
                      ExcludeBreaksOff, Crash
<1>2. Spec => [][KeepsAliases]_vars
  BY <1>1, Inductive, PTL DEF Spec
<1> QED BY <1>2 DEF AliasesStay, KeepsAliases

NewLinksIndexed == \A l \in links' \ links : status'[l[2]] = "indexed"

\* A job is only ever linked to a source that is indexed at that moment.
THEOREM LinksIndexed == Spec => LinkedWasIndexed
<1>1. IInv /\ [Next]_vars => NewLinksIndexed
  <2> SUFFICES ASSUME IInv, [Next]_vars, NEW l \in links' \ links
               PROVE  status'[l[2]] = "indexed"
    BY DEF NewLinksIndexed
  <2>1. (\E f \in Attempts, r \in Urls, p \in Pages : Reuse(f, r, p))
        \/ (\E f \in Attempts : Succeed(f))
    <3>1. ASSUME NEW f \in Attempts, NEW r \in Urls, NEW p \in Pages,
                 SkipExcluded(f, r, p) \/ Start(f, r, p) \/ SplitRaises(f, r, p)
          PROVE  FALSE
      BY <3>1 DEF rows, SkipExcluded, Start, SplitRaises, Register
    <3>2. ASSUME NEW f \in Attempts, Fail(f) \/ BreaksOff(f) PROVE FALSE
      BY <3>2 DEF rows, Fail, BreaksOff
    <3>3. ASSUME NEW s \in Urls, Exclude(s) \/ ExcludeBreaksOff(s) PROVE FALSE
      BY <3>3 DEF rows, Exclude, ExcludeBreaksOff
    <3>4. ~Crash /\ ~UNCHANGED vars
      BY DEF rows, Crash, vars
    <3> QED BY <3>1, <3>2, <3>3, <3>4 DEF Next
  <2>2. ASSUME NEW f \in Attempts, NEW r \in Urls, NEW p \in Pages, Reuse(f, r, p)
        PROVE  status'[l[2]] = "indexed"
    BY <2>2 DEF Reuse, Reusable, Link
  <2>3. ASSUME NEW f \in Attempts, Succeed(f)
        PROVE  status'[l[2]] = "indexed"
    BY <2>3 DEF Succeed, Link, IInv, TypeOK, Working
  <2> QED BY <2>1, <2>2, <2>3
<1>2. Spec => [][NewLinksIndexed]_vars
  BY <1>1, Inductive, PTL DEF Spec
<1> QED BY <1>2 DEF LinkedWasIndexed, NewLinksIndexed
-----------------------------------------------------------------------------
(***************************************************************************)
(* One attempt at a time, that may fail, be lost or break off anywhere.     *)
(***************************************************************************)
Alone ==
  "overlap" \notin env =>
    /\ \A f, g \in Attempts : pc[f] = "embedding" /\ pc[g] = "embedding" => f = g
    /\ \A f \in Attempts : pc[f] = "embedding" => status[src[f]] \in {"pending", "excluded"}
    /\ \A c \in chunks : status[c[1]] = "indexed" \/ c \in leftover

\* Without exclusions the raw file stays the page of the attempt in flight, and of the
\* source once it is indexed.
OwnRaw ==
  env \cap {"overlap", "exclude"} = {} =>
    /\ \A f \in Attempts : pc[f] = "embedding" => raw[src[f]] = page[f]
    /\ IndexedHasItsRaw

LEMMA EnvStays == [Next]_vars => env' = env
<1>1. ASSUME NEW f \in Attempts, NEW r \in Urls, NEW p \in Pages,
             SkipExcluded(f, r, p) \/ Reuse(f, r, p) \/ Start(f, r, p) \/ SplitRaises(f, r, p)
      PROVE  env' = env
  BY <1>1 DEF SkipExcluded, Reuse, Start, SplitRaises, Register
<1>2. ASSUME NEW f \in Attempts, Succeed(f) \/ Fail(f) \/ BreaksOff(f)
      PROVE  env' = env
  BY <1>2 DEF Succeed, Fail, BreaksOff
<1>3. ASSUME NEW s \in Urls, Exclude(s) \/ ExcludeBreaksOff(s) PROVE env' = env
  BY <1>3 DEF Exclude, ExcludeBreaksOff
<1> QED BY <1>1, <1>2, <1>3 DEF Next, Crash, vars

\* A step that starts nothing leaves at most one attempt in flight, at most as many as
\* before.
LEMMA NoneStarts ==
  ASSUME IInv, NEW f \in Attempts,
         Succeed(f) \/ Fail(f) \/ BreaksOff(f)
  PROVE  /\ pc[f] = "embedding" /\ pc'[f] # "embedding"
         /\ \A g \in Attempts : pc'[g] = "embedding" => pc[g] = "embedding" /\ g # f
         /\ UNCHANGED <<src, page>>
<1>1. pc \in [Attempts -> {"idle", "embedding", "done"}]
  BY DEF IInv, TypeOK
<1>2. pc[f] = "embedding" /\ UNCHANGED <<src, page>>
  BY DEF Succeed, Fail, BreaksOff, Leave
<1>3. Lost \/ Over(f)
  BY DEF Succeed, Fail, BreaksOff, Leave
<1> QED BY <1>1, <1>2, <1>3 DEF Lost, Over

LEMMA AloneStep == IInv /\ Alone /\ [Next]_vars => Alone'
<1> SUFFICES ASSUME IInv, Alone, [Next]_vars, "overlap" \notin env PROVE Alone'
  BY EnvStays DEF Alone
<1>1. /\ status \in [Urls -> Statuses] /\ chunks \subseteq Urls \X Pages
      /\ pc \in [Attempts -> {"idle", "embedding", "done"}]
      /\ src \in [Attempts -> Urls \cup {None}]
      /\ \A f \in Attempts : pc[f] = "embedding" => src[f] \in Urls
  BY DEF IInv, TypeOK, Working
<1>2. /\ \A f, g \in Attempts : pc[f] = "embedding" /\ pc[g] = "embedding" => f = g
      /\ \A f \in Attempts : pc[f] = "embedding" => status[src[f]] \in {"pending", "excluded"}
      /\ \A c \in chunks : status[c[1]] = "indexed" \/ c \in leftover
  BY DEF Alone
<1>3. ASSUME NEW f \in Attempts, NEW r \in Urls, NEW p \in Pages,
             SkipExcluded(f, r, p) \/ Reuse(f, r, p)
      PROVE  Alone'
  BY <1>1, <1>2, <1>3 DEF SkipExcluded, Reuse, Leave, Over, rows, history, Alone
<1>4. ASSUME NEW f \in Attempts, NEW r \in Urls, NEW p \in Pages, Register(f, r, p),
             \/ /\ pc' = [pc EXCEPT ![f] = "embedding"]
                /\ src' = [src EXCEPT ![f] = Target(r, p)]
             \/ pc' = [pc EXCEPT ![f] = "done"] /\ src' = src
      PROVE  Alone'
  <2> DEFINE s == Target(r, p)
  <2>1. /\ status[s] # "indexed" /\ s \in Urls
        /\ \A g \in Attempts : pc[g] # "embedding"
        /\ status' = [status EXCEPT ![s] = "pending"]
        /\ UNCHANGED <<chunks, leftover>>
    BY <1>4, TargetOK DEF Register, Retryable, history
  <2>2. \/ /\ pc' = [pc EXCEPT ![f] = "embedding"]
           /\ src' = [src EXCEPT ![f] = s]
        \/ pc' = [pc EXCEPT ![f] = "done"] /\ src' = src
    BY <1>4
  <2> HIDE DEF s
  <2>3. \A g \in Attempts : pc'[g] = "embedding" => g = f /\ status'[src'[g]] = "pending"
    BY <1>1, <2>1, <2>2
  <2>4. \A c \in chunks' : status'[c[1]] = "indexed" \/ c \in leftover'
    BY <1>1, <1>2, <2>1
  <2> QED BY <2>3, <2>4 DEF Alone
<1>5. ASSUME NEW f \in Attempts, Succeed(f) \/ Fail(f) \/ BreaksOff(f)
      PROVE  Alone'
  <2>1. \A g \in Attempts : pc'[g] # "embedding"
    BY <1>2, <1>5, NoneStarts
  <2>2. /\ pc[f] = "embedding" /\ src[f] \in Urls /\ status[src[f]] # "indexed"
        /\ Own(f)[1] = src[f]
    BY <1>1, <1>2, <1>5, NoneStarts DEF Own, Chunk
  <2>3. CASE Succeed(f)
    <3>1. /\ chunks' = chunks \cup {Own(f)} /\ leftover' = leftover \ {Own(f)}
          /\ status' = [status EXCEPT ![src[f]] = "indexed"]
      BY <2>3 DEF Succeed
    <3> QED BY <1>1, <1>2, <2>1, <2>2, <3>1 DEF Alone
  <2>4. CASE Fail(f) \/ BreaksOff(f)
    <3>1. \A u \in Urls : status[u] = "indexed" => status'[u] = "indexed"
      BY <1>1, <2>2, <2>4 DEF Fail, BreaksOff, rows
    <3>2. /\ chunks' \subseteq chunks \cup leftover'
          /\ leftover \cap chunks' \subseteq leftover'
      BY <2>4 DEF Fail, BreaksOff, CleansUp, Upserts, Discards
    <3> QED BY <1>1, <1>2, <2>1, <3>1, <3>2 DEF Alone
  <2> QED BY <1>5, <2>3, <2>4
<1>6. ASSUME NEW s \in Urls, Exclude(s) \/ ExcludeBreaksOff(s)
      PROVE  Alone'
  <2>1. /\ \A g \in Attempts : pc'[g] = "embedding" => pc[g] = "embedding"
        /\ chunks' = {c \in chunks : c[1] # s}
        /\ leftover' = leftover \ {c \in chunks : c[1] = s}
        /\ status' = [status EXCEPT ![s] = "excluded"] \/ status' = status
        /\ src' = src
    BY <1>1, <1>6 DEF Exclude, ExcludeBreaksOff, Lost, ChunksOf, rows
  <2> QED BY <1>1, <1>2, <2>1 DEF Alone
<1>7. CASE Crash
  <2>1. /\ \A g \in Attempts : pc'[g] # "embedding"
        /\ UNCHANGED <<status, chunks, leftover>>
    BY <1>1, <1>7 DEF Crash, Lost, rows, history
  <2> QED BY <1>2, <2>1 DEF Alone
<1>8. CASE UNCHANGED vars
  BY <1>2, <1>8 DEF vars, Alone
<1>9. ASSUME NEW f \in Attempts, NEW r \in Urls, NEW p \in Pages,
             Start(f, r, p) \/ SplitRaises(f, r, p)
      PROVE  Alone'
  BY <1>4, <1>9 DEF Start, SplitRaises, Leave, Over
<1> QED
  BY <1>3, <1>5, <1>6, <1>7, <1>8, <1>9 DEF Next

LEMMA OwnRawStep == IInv /\ Alone /\ OwnRaw /\ [Next]_vars => OwnRaw'
<1> SUFFICES ASSUME IInv, Alone, OwnRaw, [Next]_vars, env \cap {"overlap", "exclude"} = {}
             PROVE OwnRaw'
  BY EnvStays DEF OwnRaw
<1>1. /\ status \in [Urls -> Statuses] /\ raw \in [Urls -> Pages \cup {None}]
      /\ chunks \subseteq Urls \X Pages
      /\ pc \in [Attempts -> {"idle", "embedding", "done"}]
      /\ src \in [Attempts -> Urls \cup {None}] /\ page \in [Attempts -> Pages \cup {None}]
      /\ \A f \in Attempts : pc[f] = "embedding" => src[f] \in Urls /\ page[f] \in Pages
  BY DEF IInv, TypeOK, Working
<1>2. /\ \A f \in Attempts : pc[f] = "embedding" => raw[src[f]] = page[f]
      /\ \A f \in Attempts : pc[f] = "embedding" => status[src[f]] # "indexed"
      /\ \A f, g \in Attempts : pc[f] = "embedding" /\ pc[g] = "embedding" => f = g
      /\ \A c \in chunks : status[c[1]] = "indexed" \/ c \in leftover
      /\ \A u \in Urls : status[u] = "indexed" => <<u, raw[u]>> \in chunks
      /\ \A c \in chunks : status[c[1]] = "indexed" => c[2] = raw[c[1]] \/ c \in leftover
  <2>1. \A c \in chunks : c = <<c[1], c[2]>>
    BY <1>1
  <2>2. /\ \A f \in Attempts : pc[f] = "embedding" => raw[src[f]] = page[f]
        /\ \A u \in Urls : status[u] = "indexed" =>
              <<u, raw[u]>> \in chunks /\ ChunksOf(u) \ {<<u, raw[u]>>} \subseteq leftover
    BY DEF OwnRaw, IndexedHasItsRaw, Chunk
  <2>3. /\ \A f \in Attempts : pc[f] = "embedding" => status[src[f]] # "indexed"
        /\ \A f, g \in Attempts : pc[f] = "embedding" /\ pc[g] = "embedding" => f = g
        /\ \A c \in chunks : status[c[1]] = "indexed" \/ c \in leftover
    BY DEF Alone
  <2>4. \A c \in chunks : status[c[1]] = "indexed" => c[2] = raw[c[1]] \/ c \in leftover
    <3> SUFFICES ASSUME NEW c \in chunks, status[c[1]] = "indexed", c[2] # raw[c[1]]
                 PROVE  c \in leftover
      OBVIOUS
    <3>1. c[1] \in Urls /\ c \in ChunksOf(c[1])
      BY <1>1 DEF ChunksOf
    <3>2. c # <<c[1], raw[c[1]]>>
      OBVIOUS
    <3> QED BY <2>2, <3>1, <3>2
  <2> QED BY <2>2, <2>3, <2>4
\* what is to be shown, chunk by chunk
<1>3. ASSUME \A f \in Attempts : pc'[f] = "embedding" => raw'[src'[f]] = page'[f],
             chunks' \subseteq Urls \X Pages,
             \A u \in Urls : status'[u] = "indexed" => <<u, raw'[u]>> \in chunks',
             \A c \in chunks' : status'[c[1]] = "indexed" => c[2] = raw'[c[1]] \/ c \in leftover'
      PROVE  OwnRaw'
  <2>1. \A c \in chunks' : c = <<c[1], c[2]>>
    BY <1>3
  <2> QED BY <1>3, <2>1 DEF OwnRaw, IndexedHasItsRaw, ChunksOf, Chunk
<1>4. ASSUME UNCHANGED <<status, raw, chunks, leftover, src, page>>,
             \A g \in Attempts : pc'[g] = "embedding" => pc[g] = "embedding"
      PROVE  OwnRaw'
  BY <1>1, <1>2, <1>3, <1>4
<1>5. ASSUME NEW f \in Attempts, NEW r \in Urls, NEW p \in Pages,
             SkipExcluded(f, r, p) \/ Reuse(f, r, p)
      PROVE  OwnRaw'
  BY <1>1, <1>4, <1>5 DEF SkipExcluded, Reuse, Leave, Over, rows, history
<1>6. ASSUME NEW f \in Attempts, NEW r \in Urls, NEW p \in Pages,
             Start(f, r, p) \/ SplitRaises(f, r, p)
      PROVE  OwnRaw'
  <2> DEFINE s == Target(r, p)
  <2>1. /\ status[s] # "indexed" /\ s \in Urls
        /\ \A g \in Attempts : pc[g] # "embedding"
        /\ status' = [status EXCEPT ![s] = "pending"]
        /\ UNCHANGED <<chunks, leftover>>
    BY <1>6, TargetOK DEF Start, SplitRaises, Register, Retryable, history
  <2>2. \/ /\ raw' = [raw EXCEPT ![s] = p]
           /\ pc' = [pc EXCEPT ![f] = "embedding"]
           /\ src' = [src EXCEPT ![f] = s]
           /\ page' = [page EXCEPT ![f] = p]
        \/ pc' = [pc EXCEPT ![f] = "done"] /\ UNCHANGED <<raw, src, page>>
    BY <1>6 DEF Start, SplitRaises, Leave, Over
  <2> HIDE DEF s
  <2>3. \A g \in Attempts : pc'[g] = "embedding" => raw'[src'[g]] = page'[g]
    BY <1>1, <2>1, <2>2
  <2>4. \A u \in Urls : status'[u] = "indexed" => status[u] = "indexed" /\ raw'[u] = raw[u]
    BY <1>1, <2>1, <2>2
  <2> QED BY <1>1, <1>2, <1>3, <2>1, <2>3, <2>4
<1>7. ASSUME NEW f \in Attempts, Succeed(f) \/ Fail(f) \/ BreaksOff(f)
      PROVE  OwnRaw'
  <2>1. \A g \in Attempts : pc'[g] # "embedding"
    BY <1>2, <1>7, NoneStarts
  <2>2. /\ pc[f] = "embedding" /\ src[f] \in Urls /\ page[f] \in Pages
        /\ status[src[f]] # "indexed" /\ raw[src[f]] = page[f]
    BY <1>1, <1>2, <1>7, NoneStarts
  <2>3. CASE Succeed(f)
    <3>1. /\ chunks' = chunks \cup {<<src[f], page[f]>>}
          /\ leftover' = leftover \ {<<src[f], page[f]>>}
          /\ status' = [status EXCEPT ![src[f]] = "indexed"] /\ raw' = raw
      BY <2>3 DEF Succeed, Own, Chunk
    <3>2. chunks' \subseteq Urls \X Pages
      BY <1>1, <2>2, <3>1
    <3>3. \A u \in Urls : status'[u] = "indexed" => <<u, raw'[u]>> \in chunks'
      BY <1>1, <1>2, <2>2, <3>1
    <3>4. \A c \in chunks' : status'[c[1]] = "indexed" => c[2] = raw'[c[1]] \/ c \in leftover'
      BY <1>1, <1>2, <2>2, <3>1
    <3> QED BY <1>3, <2>1, <3>2, <3>3, <3>4
  <2>4. CASE Fail(f) \/ BreaksOff(f)
    <3>1. \A u \in Urls : status'[u] = "indexed" => status[u] = "indexed" /\ u # src[f]
      BY <1>1, <2>2, <2>4 DEF Fail, BreaksOff, rows
    <3>2. \A u \in Urls : u # src[f] => raw'[u] = raw[u]
      BY <1>1, <2>4 DEF Fail, BreaksOff, CleansUp, DropRaw
    <3>3. /\ chunks' \subseteq Urls \X Pages
          /\ \A c \in chunks : c # Own(f) => c \in chunks'
      <4>1. /\ pc[f] = "embedding"
            /\ CleansUp(f) \/ (UNCHANGED raw /\ (Discards(f) \/ Upserts(f)))
        BY <2>4 DEF Fail, BreaksOff
      <4> QED BY <4>1, CleansUpTouches
    <3>4. /\ chunks' \subseteq chunks \cup leftover'
          /\ leftover \cap chunks' \subseteq leftover'
      BY <2>4 DEF Fail, BreaksOff, CleansUp, Upserts, Discards
    <3>5. \A u \in Urls : status'[u] = "indexed" => <<u, raw'[u]>> \in chunks'
      <4> SUFFICES ASSUME NEW u \in Urls, status'[u] = "indexed"
                   PROVE  <<u, raw'[u]>> \in chunks'
        OBVIOUS
      <4>1. <<u, raw'[u]>> \in chunks /\ u # src[f]
        BY <1>2, <3>1, <3>2
      <4> QED BY <3>3, <4>1 DEF Own, Chunk
    <3>6. \A c \in chunks' : status'[c[1]] = "indexed" => c[2] = raw'[c[1]] \/ c \in leftover'
      <4> SUFFICES ASSUME NEW c \in chunks', status'[c[1]] = "indexed", c \notin leftover'
                   PROVE  c[2] = raw'[c[1]]
        OBVIOUS
      <4>1. c \in chunks /\ c \notin leftover /\ c[1] \in Urls
        BY <1>1, <3>4
      <4> QED BY <1>2, <3>1, <3>2, <4>1
    <3> QED BY <1>3, <2>1, <3>3, <3>5, <3>6
  <2> QED BY <1>7, <2>3, <2>4
<1>8. CASE Crash
  BY <1>1, <1>4, <1>8 DEF Crash, Lost, rows, history
<1>9. CASE UNCHANGED vars
  BY <1>4, <1>9 DEF vars
<1> QED
  BY <1>5, <1>6, <1>7, <1>8, <1>9 DEF Next, Exclude, ExcludeBreaksOff

LEMMA AloneHolds == Spec => [](Alone /\ OwnRaw)
<1>1. Init => Alone /\ OwnRaw
  BY DEF Init, Alone, OwnRaw, IndexedHasItsRaw
<1> QED BY <1>1, AloneStep, OwnRawStep, Inductive, PTL DEF Spec

\* The raw file of an indexed source is the page its chunks were cut from, whatever
\* failed, died or broke off before (index_research_sources).
THEOREM RawMatchesChunks == Spec => []IndexedHasItsRaw
<1>1. OwnRaw => IndexedHasItsRaw
  BY DEF OwnRaw, IndexedHasItsRaw
<1> QED BY <1>1, AloneHolds, PTL

\* What retrieval finds is of an indexed source, or left by an attempt that broke off
\* behind its upsert or could not delete its chunks (the same clean-up).
THEOREM SearchableIsIndexed == Spec => []OnlyIndexedIsSearchable
<1>1. Alone => OnlyIndexedIsSearchable
  BY DEF Alone, OnlyIndexedIsSearchable
<1> QED BY <1>1, AloneHolds, PTL

RestoredInFlight ==
  \A s \in Urls : status[s] = "excluded" /\ status'[s] # "excluded" => InFlight(s) # {}

\* Only an attempt that was in flight brings an excluded source back
\* (_retryable_source, exclude_source_from_corpus).
THEOREM ExcludedStays == Spec => OnlyInFlightRestores
<1>1. IInv /\ [Next]_vars => RestoredInFlight
  <2> SUFFICES ASSUME IInv, [Next]_vars, NEW s \in Urls,
                      status[s] = "excluded", status'[s] # "excluded"
               PROVE  InFlight(s) # {}
    BY DEF RestoredInFlight
  <2>1. status \in [Urls -> Statuses]
    BY DEF IInv, TypeOK
  <2>2. ASSUME NEW f \in Attempts, Succeed(f) \/ Fail(f)
        PROVE  InFlight(s) # {}
    BY <2>1, <2>2 DEF Succeed, Fail, InFlight
  <2>3. ASSUME NEW f \in Attempts, NEW r \in Urls, NEW p \in Pages,
               SkipExcluded(f, r, p) \/ Reuse(f, r, p) \/ Start(f, r, p) \/ SplitRaises(f, r, p)
        PROVE  FALSE
    BY <2>1, <2>3 DEF SkipExcluded, rows, Reuse, Start, SplitRaises, Register, Retryable
  <2>4. ASSUME NEW u \in Urls, Exclude(u) \/ ExcludeBreaksOff(u) PROVE FALSE
    BY <2>1, <2>4 DEF Exclude, ExcludeBreaksOff, rows
  <2> QED
    BY <2>2, <2>3, <2>4 DEF Next, vars, rows, BreaksOff, Crash
<1>2. Spec => [][RestoredInFlight]_vars
  BY <1>1, Inductive, PTL DEF Spec
<1> QED BY <1>2 DEF OnlyInFlightRestores, RestoredInFlight
=============================================================================
