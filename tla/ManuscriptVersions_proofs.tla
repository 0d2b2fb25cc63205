---------------------- MODULE ManuscriptVersions_proofs ----------------------
(***************************************************************************)
(* Theorems about ManuscriptVersions, for any number of generations, kinds  *)
(* and runs of the save node, and for failures anywhere.                    *)
(***************************************************************************)
EXTENDS ManuscriptVersions, FiniteSetTheorems, TLAPS

\* The numbers of a kind are 1 to some n; a generation that read a number read one
\* that was next at some time, and rows never leave.
Gapless == \A k \in Kinds : \E n \in Nat : Numbers(k) = 1..n

Follows(t) == save[t].rev = 1 \/ (save[t].rev \in Nat /\ save[t].rev - 1 \in Numbers(save[t].kind))

\* Nothing is in rows, nor about to be, whose file is not written.
Written ==
  /\ \A r \in rows : r.stamp \in files
  /\ \A t \in Turns : save[t].at \in {"filed", "numbered"} => save[t].stamp \in files

\* A generation that is past its commit may have one row more than it broke off torn.
Counted(t) ==
  /\ IsFiniteSet(Copies(t))
  /\ Cardinality(Copies(t)) <= save[t].torn + 1
  /\ save[t].at \notin {"committed", "saved"} => Cardinality(Copies(t)) <= save[t].torn

VInv ==
  /\ VersionTypeOK
  /\ Gapless
  /\ \A t \in Turns : save[t].at = "numbered" => Follows(t)
  /\ Written
  /\ \A t \in Turns : Counted(t)
-----------------------------------------------------------------------------
LEMMA NextRevisionFollows ==
  ASSUME NEW k \in Kinds, NEW n \in Nat, Numbers(k) = 1..n
  PROVE  /\ NextRevision(k) = n + 1
         /\ n + 1 = 1 \/ n \in Numbers(k)
<1>1. CASE n = 0
  BY <1>1 DEF NextRevision
<1>2. CASE n # 0
  <2>1. n \in Numbers(k) /\ \A m \in Numbers(k) : m <= n
    BY <1>2
  <2>2. \A x \in Numbers(k) : (\A m \in Numbers(k) : m <= x) => x = n
    BY <1>2, <2>1
  <2>3. (CHOOSE x \in Numbers(k) : \A m \in Numbers(k) : m <= x) = n
    BY <2>1, <2>2
  <2> QED BY <2>1, <2>3 DEF NextRevision
<1> QED BY <1>1, <1>2

\* A step of t that leaves the rows alone.
Aside(t) ==
  /\ \E g \in Generations :
       /\ save' = [save EXCEPT ![t] = g]
       /\ g.kind = save[t].kind
       /\ g.torn = save[t].torn \/ (save[t].at = "committed" /\ g.torn = save[t].torn + 1)
       /\ g.at \notin {"committed", "saved"} =>
            save[t].at \notin {"committed", "saved"} \/ g.torn = save[t].torn + 1
       /\ g.at \in {"filed", "numbered"} => g.stamp \in files'
       /\ g.at = "numbered" =>
            g.rev = 1 \/ (g.rev \in Nat /\ g.rev - 1 \in Numbers(g.kind))
  /\ rows' = rows
  /\ files \subseteq files' /\ files' \subseteq Nat
  /\ clock' \in Nat

LEMMA AsideKeeps ==
  ASSUME VInv, NEW t \in Turns, Aside(t)
  PROVE  VInv'
<1>1. PICK g \in Generations :
       /\ save' = [save EXCEPT ![t] = g]
       /\ g.kind = save[t].kind
       /\ g.torn = save[t].torn \/ (save[t].at = "committed" /\ g.torn = save[t].torn + 1)
       /\ g.at \notin {"committed", "saved"} =>
            save[t].at \notin {"committed", "saved"} \/ g.torn = save[t].torn + 1
       /\ g.at \in {"filed", "numbered"} => g.stamp \in files'
       /\ g.at = "numbered" =>
            g.rev = 1 \/ (g.rev \in Nat /\ g.rev - 1 \in Numbers(g.kind))
  BY DEF Aside
<1>2. /\ save \in [Turns -> Generations] /\ rows' = rows /\ files \subseteq files'
      /\ \A u \in Turns : u # t => save'[u] = save[u]
      /\ save'[t] = g
  BY <1>1 DEF VInv, VersionTypeOK, Aside
<1>3. VersionTypeOK'
  BY <1>1, <1>2 DEF VInv, VersionTypeOK, Aside
<1>4. Gapless'
  BY <1>2 DEF VInv, Gapless, Numbers
<1>5. \A u \in Turns : (save[u].at = "numbered" => Follows(u))'
  BY <1>1, <1>2 DEF VInv, Follows, Numbers
<1>6. Written'
  BY <1>1, <1>2 DEF VInv, Written
<1>7. ASSUME NEW u \in Turns PROVE Counted(u)'
  <2>1. Copies(u)' = Copies(u) /\ Counted(u)
    BY <1>2 DEF VInv, Copies
  <2>2. CASE u # t
    BY <1>2, <2>1, <2>2 DEF Counted
  <2>3. CASE u = t
    <3>1. save[t].torn \in Nat /\ Cardinality(Copies(u)) \in Nat
      BY <1>2, <2>1, FS_CardinalityType DEF Generations, Counted
    <3> QED BY <1>1, <1>2, <2>1, <2>3, <3>1 DEF Counted
  <2> QED BY <2>2, <2>3
<1> QED BY <1>3, <1>4, <1>5, <1>6, <1>7 DEF VInv
-----------------------------------------------------------------------------
LEMMA InitVInv == VersionInit => VInv
<1> SUFFICES ASSUME VersionInit PROVE VInv
  OBVIOUS
<1>1. VersionTypeOK
  BY DEF VersionInit, VersionTypeOK, Generations
<1>2. Gapless
  <2>1. \A k \in Kinds : Numbers(k) = 1..0
    BY DEF VersionInit, Numbers
  <2> QED BY <2>1 DEF Gapless
<1>3. \A t \in Turns : Counted(t)
  <2> SUFFICES ASSUME NEW t \in Turns PROVE Counted(t)
    OBVIOUS
  <2>1. Copies(t) = {} /\ save[t].torn = 0
    BY DEF VersionInit, Copies
  <2> QED BY <2>1, FS_EmptySet DEF Counted
<1> QED BY <1>1, <1>2, <1>3 DEF VersionInit, VInv, Written

LEMMA CommitKeeps ==
  ASSUME VInv, NEW t \in Turns, Commit(t)
  PROVE  VInv'
<1> DEFINE r == Row(t)
           k == save[t].kind
<1>1. /\ save[t].at = "numbered" /\ rows' = rows \cup {r}
      /\ save' = [save EXCEPT ![t].at = "committed"] /\ UNCHANGED <<files, clock>>
  BY DEF Commit, Step
<1>2. /\ save \in [Turns -> Generations] /\ rows \subseteq Rows
      /\ save[t] \in Generations /\ save[t].rev \in Nat /\ k \in Kinds /\ save[t].torn \in Nat
      /\ save[t].stamp \in files /\ files \subseteq Nat /\ clock \in Nat
  BY <1>1 DEF VInv, VersionTypeOK, Written, Generations
<1>3. /\ r \in Rows /\ r.by = t /\ r.kind = k /\ r.rev = save[t].rev /\ r.stamp = save[t].stamp
  BY <1>2 DEF Row, Rows
<1>4. /\ [save[t] EXCEPT !.at = "committed"] \in Generations
      /\ [save[t] EXCEPT !.at = "committed"].torn = save[t].torn
      /\ [save[t] EXCEPT !.at = "committed"].at = "committed"
  BY <1>2 DEF Generations
<1>5. /\ save' \in [Turns -> Generations]
      /\ save'[t] = [save[t] EXCEPT !.at = "committed"]
      /\ \A u \in Turns : u # t => save'[u] = save[u]
  BY <1>1, <1>2, <1>4
<1> HIDE DEF r
<1>6. VersionTypeOK'
  BY <1>1, <1>2, <1>3, <1>5 DEF VersionTypeOK
<1>7. \A q \in Kinds : Numbers(q) \subseteq Numbers(q)'
  BY <1>1 DEF Numbers
<1>8. ASSUME NEW q \in Kinds PROVE \E n \in Nat : Numbers(q)' = 1..n
  <2>1. PICK n \in Nat : Numbers(q) = 1..n
    BY DEF VInv, Gapless
  <2>2. CASE q # k
    <3>1. Numbers(q)' = Numbers(q)
      BY <1>1, <1>3, <2>2 DEF Numbers
    <3> QED BY <2>1, <3>1
  <2>3. CASE q = k
    <3>1. Numbers(q)' = Numbers(q) \cup {save[t].rev}
      BY <1>1, <1>3, <2>3 DEF Numbers
    <3>2. save[t].rev = 1 \/ save[t].rev - 1 \in 1..n
      BY <1>1, <2>1, <2>3 DEF VInv, Follows
    <3>3. CASE save[t].rev \in 1..n
      BY <2>1, <3>1, <3>3
    <3>4. CASE save[t].rev \notin 1..n
      <4>1. save[t].rev = n + 1
        BY <1>2, <3>2, <3>4
      <4>2. (1..n) \cup {n + 1} = 1..(n + 1)
        OBVIOUS
      <4> QED BY <2>1, <3>1, <4>1, <4>2
    <3> QED BY <3>3, <3>4
  <2> QED BY <2>2, <2>3
<1>9. ASSUME NEW u \in Turns, save'[u].at = "numbered" PROVE Follows(u)'
  <2>1. u # t /\ save'[u] = save[u] /\ save[u].kind \in Kinds
    BY <1>2, <1>4, <1>5, <1>9 DEF Generations
  <2>2. Follows(u)
    BY <1>9, <2>1 DEF VInv
  <2> QED BY <1>7, <2>1, <2>2 DEF Follows
<1>10. Written'
  <2>1. \A x \in rows' : x.stamp \in files'
    BY <1>1, <1>2, <1>3 DEF VInv, Written
  <2>2. ASSUME NEW u \in Turns, save'[u].at \in {"filed", "numbered"}
        PROVE  save'[u].stamp \in files'
    BY <1>1, <1>4, <1>5, <2>2 DEF VInv, Written
  <2> QED BY <2>1, <2>2 DEF Written
<1>11. ASSUME NEW u \in Turns PROVE Counted(u)'
  <2>1. CASE u # t
    <3>1. Copies(u)' = Copies(u)
      BY <1>1, <1>3, <2>1 DEF Copies
    <3> QED BY <1>5, <2>1, <3>1 DEF VInv, Counted
  <2>2. CASE u = t
    <3>1. Copies(u)' = Copies(u) \cup {r}
      BY <1>1, <1>3, <2>2 DEF Copies
    <3>2. IsFiniteSet(Copies(u)) /\ Cardinality(Copies(u)) <= save[t].torn
      BY <1>1, <2>2 DEF VInv, Counted
    <3>3. /\ IsFiniteSet(Copies(u) \cup {r})
          /\ Cardinality(Copies(u)) \in Nat
          /\ \/ Cardinality(Copies(u) \cup {r}) = Cardinality(Copies(u))
             \/ Cardinality(Copies(u) \cup {r}) = Cardinality(Copies(u)) + 1
      BY <3>2, FS_AddElement, FS_CardinalityType
    <3>4. save'[u].torn = save[t].torn /\ save'[u].at = "committed"
      BY <1>4, <1>5, <2>2
    <3> QED BY <1>2, <3>1, <3>2, <3>3, <3>4 DEF Counted
  <2> QED BY <2>1, <2>2
<1> QED BY <1>6, <1>8, <1>9, <1>10, <1>11 DEF VInv, Gapless

LEMMA StepVInv == VInv /\ [VersionNext]_versionVars => VInv'
<1> SUFFICES ASSUME VInv, [VersionNext]_versionVars PROVE VInv'
  OBVIOUS
<1>0. /\ save \in [Turns -> Generations] /\ files \subseteq Nat /\ clock \in Nat
      /\ \A t \in Turns : save[t] \in Generations
  BY DEF VInv, VersionTypeOK
<1>1. ASSUME NEW t \in Turns, Generate(t) \/ StoreCheckpoint(t) \/ RunAgain(t)
      PROVE  VInv'
  <2>1. PICK to \in {"writing", "saved"} :
          /\ Step(t, to) /\ UNCHANGED <<rows, files, clock>>
          /\ to = "writing" => save[t].at \notin {"committed", "saved"}
    BY <1>1 DEF Generate, StoreCheckpoint, RunAgain
  <2> DEFINE g == [save[t] EXCEPT !.at = to]
  <2>2. /\ g \in Generations /\ g.kind = save[t].kind /\ g.torn = save[t].torn /\ g.at = to
    BY <1>0 DEF Generations
  <2>3. save' = [save EXCEPT ![t] = g]
    BY <2>1 DEF Step
  <2> HIDE DEF g
  <2>4. Aside(t)
    BY <1>0, <2>1, <2>2, <2>3 DEF Aside
  <2> QED BY <2>4, AsideKeeps
<1>2. ASSUME NEW t \in Turns, WriteFile(t)
      PROVE  VInv'
  <2> DEFINE g == [save[t] EXCEPT !.at = "filed", !.stamp = clock']
  <2>1. /\ save[t].at = "writing" /\ clock' = clock + 1 /\ files' = files \cup {clock'}
        /\ rows' = rows /\ save' = [save EXCEPT ![t] = g]
    BY <1>2 DEF WriteFile
  <2>2. clock' \in Nat
    BY <1>0, <2>1 DEF Generations
  <2>3. /\ g \in Generations /\ g.kind = save[t].kind /\ g.torn = save[t].torn /\ g.at = "filed"
        /\ g.stamp = clock'
    BY <1>0, <2>2 DEF Generations
  <2> HIDE DEF g
  <2>4. Aside(t)
    BY <1>0, <2>1, <2>2, <2>3 DEF Aside
  <2> QED BY <2>4, AsideKeeps
<1>3. ASSUME NEW t \in Turns, ReadRevision(t)
      PROVE  VInv'
  <2> DEFINE k == save[t].kind
             n == NextRevision(k)
             g == [save[t] EXCEPT !.at = "numbered", !.rev = n]
  <2>1. /\ save[t].at = "filed" /\ UNCHANGED <<rows, files, clock>>
        /\ save' = [save EXCEPT ![t] = g]
    BY <1>3 DEF ReadRevision
  <2>2. k \in Kinds
    BY <1>0 DEF Generations
  <2>3. n \in Nat /\ (n = 1 \/ n - 1 \in Numbers(k))
    <3>1. PICK m \in Nat : Numbers(k) = 1..m
      BY <2>2 DEF VInv, Gapless
    <3>2. n = m + 1 /\ (m + 1 = 1 \/ m \in Numbers(k))
      BY <2>2, <3>1, NextRevisionFollows
    <3> HIDE DEF n
    <3> QED BY <3>2
  <2> HIDE DEF n
  <2>4. /\ g \in Generations /\ g.kind = k /\ g.torn = save[t].torn /\ g.at = "numbered"
        /\ g.stamp = save[t].stamp /\ g.rev = n
    BY <1>0, <2>3 DEF Generations
  <2>5. save[t].stamp \in files
    BY <2>1 DEF VInv, Written
  <2> HIDE DEF g
  <2>6. Aside(t)
    BY <1>0, <2>1, <2>3, <2>4, <2>5 DEF Aside
  <2> QED BY <2>6, AsideKeeps
<1>4. ASSUME NEW t \in Turns, GenerationFails(t)
      PROVE  VInv'
  <2> DEFINE n == IF save[t].at = "committed" THEN save[t].torn + 1 ELSE save[t].torn
             g == [save[t] EXCEPT !.at = "failed", !.torn = n]
  <2>1. /\ save[t].at \in {"writing", "filed", "numbered", "committed"}
        /\ UNCHANGED <<rows, files, clock>> /\ save' = [save EXCEPT ![t] = g]
    BY <1>4 DEF GenerationFails
  <2>2. n \in Nat
    BY <1>0 DEF Generations
  <2>3. /\ n = save[t].torn \/ (save[t].at = "committed" /\ n = save[t].torn + 1)
        /\ save[t].at \notin {"committed", "saved"} \/ n = save[t].torn + 1
    BY <2>1
  <2> HIDE DEF n
  <2>4. g \in Generations /\ g.kind = save[t].kind /\ g.torn = n /\ g.at = "failed"
    BY <1>0, <2>2 DEF Generations
  <2> HIDE DEF g
  <2>5. Aside(t)
    BY <1>0, <2>1, <2>3, <2>4 DEF Aside
  <2> QED BY <2>5, AsideKeeps
<1>5. CASE UNCHANGED versionVars
  BY <1>5 DEF versionVars, VInv, VersionTypeOK, Gapless, Numbers, Follows, Written, Counted, Copies
<1> QED
  BY <1>1, <1>2, <1>3, <1>4, <1>5, CommitKeeps DEF VersionNext, Saving

LEMMA VersionInvariance == VersionSpec => []VInv
BY InitVInv, StepVInv, PTL DEF VersionSpec
-----------------------------------------------------------------------------
\* Files before rows, and numbers without gaps (save_new_paper_node, _next_revision).
THEOREM VersionsWhole == VersionSpec => []VersionsAreWhole
<1>1. VInv => VersionsAreWhole
  <2> SUFFICES ASSUME VInv, NEW k \in Kinds, NEW n \in Numbers(k), NEW m \in 1..n
               PROVE  m \in Numbers(k)
    BY DEF VInv, Written, VersionsAreWhole
  <2>1. PICK x \in Nat : Numbers(k) = 1..x
    BY DEF VInv, Gapless
  <2> QED BY <2>1
<1> QED BY <1>1, VersionInvariance, PTL

\* A document is saved again only for a commit whose checkpoint was never stored
\* (save_new_paper_node and the run around it).
THEOREM CopiesExplained == VersionSpec => []CopiesOnlyAfterTear
<1>1. VInv => CopiesOnlyAfterTear
  <2> SUFFICES ASSUME VInv, NEW t \in Turns
               PROVE  Cardinality(Copies(t)) <= 1 + save[t].torn
    BY DEF CopiesOnlyAfterTear
  <2>1. Counted(t) /\ save[t].torn \in Nat
    BY DEF VInv, VersionTypeOK, Generations
  <2> QED BY <2>1 DEF Counted
<1> QED BY <1>1, VersionInvariance, PTL
=============================================================================
