------------------------- MODULE ManuscriptVersions -------------------------
(***************************************************************************)
(* The versions of one manuscript on the server: document generations that  *)
(* run in the background and save what they wrote (save_new_paper_node in   *)
(* app/graph/nodes/save_new_paper.py), and the list the page polls          *)
(* (list_manuscript_versions_after).  Generations run in threads of their   *)
(* own, so one may do anything between two statements of another.           *)
(***************************************************************************)
EXTENDS Naturals, FiniteSets

CONSTANTS
  Turns,    \* requests for a document; a turn is also its generation
  Kinds,    \* outline, document
  MaxRuns   \* bound: how often save nodes may run, all turns' together

ASSUME VersionConstantsOK ==
  /\ IsFiniteSet(Turns)
  /\ MaxRuns \in Nat

VARIABLES
  save,   \* each generation: where it is and its locals
  rows,   \* manuscript_versions, of this manuscript
  files,  \* the storage keys written
  clock   \* what created_at is read from: no two reads are equal

versionVars == <<save, rows, files, clock>>

\* stamp is created_at, and stands for the storage key and the row's id as well:
\* a run makes all three anew.  torn counts the runs that broke off after their commit.
Generations ==
  [at : {"none", "writing", "filed", "numbered", "committed", "saved", "failed"},
   kind : Kinds, stamp : Nat, rev : Nat, torn : Nat]
Rows == [by : Turns, kind : Kinds, rev : Nat, stamp : Nat]

VersionTypeOK ==
  /\ save \in [Turns -> Generations]
  /\ rows \subseteq Rows
  /\ files \subseteq Nat
  /\ clock \in Nat

VersionInit ==
  /\ save \in [Turns -> [at : {"none"}, kind : Kinds, stamp : {0}, rev : {0},
                         torn : {0}]]
  /\ rows = {} /\ files = {} /\ clock = 0
-----------------------------------------------------------------------------
Step(t, to) == save' = [save EXCEPT ![t].at = to]

\* The acknowledged generation starts: its language model writes.
Generate(t) ==
  /\ save[t].at = "none"
  /\ Step(t, "writing")
  /\ UNCHANGED <<rows, files, clock>>

\* The save node starts: created_at is read and the file written.
WriteFile(t) ==
  /\ save[t].at = "writing" /\ clock < MaxRuns
  /\ clock' = clock + 1
  /\ files' = files \cup {clock'}
  /\ save' = [save EXCEPT ![t].at = "filed", ![t].stamp = clock']
  /\ UNCHANGED rows

Numbers(k) == {r.rev : r \in {x \in rows : x.kind = k}}

\* Mutation: the next number is one more than there are rows of the kind.
NextRevisionByCount(k) == Cardinality({x \in rows : x.kind = k}) + 1

\* _next_revision: one more than the greatest number, 1 for the first version.
NextRevision(k) ==
  IF Numbers(k) = {} THEN 1
  ELSE (CHOOSE n \in Numbers(k) : \A m \in Numbers(k) : m <= n) + 1

ReadRevision(t) ==
  /\ save[t].at = "filed"
  /\ save' = [save EXCEPT ![t].at = "numbered", ![t].rev = NextRevision(save[t].kind)]
  /\ UNCHANGED <<rows, files, clock>>

Row(t) == [by |-> t, kind |-> save[t].kind, rev |-> save[t].rev, stamp |-> save[t].stamp]

Commit(t) ==
  /\ save[t].at = "numbered"
  /\ rows' = rows \cup {Row(t)}
  /\ Step(t, "committed")
  /\ UNCHANGED <<files, clock>>

\* The node's checkpoint is stored; the thread will not run it again.
StoreCheckpoint(t) ==
  /\ save[t].at = "committed"
  /\ Step(t, "saved")
  /\ UNCHANGED <<rows, files, clock>>

\* The generation, a statement of the save node or the storing of its checkpoint
\* raises, or the process dies under it.  After the commit a statement is left that may
\* raise: it reads the row anew, since the commit expired its attributes.
GenerationFails(t) ==
  /\ save[t].at \in {"writing", "filed", "numbered", "committed"}
  /\ save' = [save EXCEPT ![t].at = "failed",
                          ![t].torn = IF save[t].at = "committed" THEN @ + 1 ELSE @]
  /\ UNCHANGED <<rows, files, clock>>

\* Mutation: a node whose checkpoint is stored runs again as well.
RunAgainEvenSaved(t) ==
  /\ save[t].at \in {"failed", "saved"}
  /\ Step(t, "writing")
  /\ UNCHANGED <<rows, files, clock>>

\* A continue call resumes the thread at the node that did not come through.
RunAgain(t) ==
  /\ save[t].at = "failed"
  /\ Step(t, "writing")
  /\ UNCHANGED <<rows, files, clock>>

Saving(t) == WriteFile(t) \/ ReadRevision(t) \/ Commit(t) \/ StoreCheckpoint(t)

VersionNext ==
  \E t \in Turns : Generate(t) \/ Saving(t) \/ GenerationFails(t) \/ RunAgain(t)

VersionSpec == VersionInit /\ [][VersionNext]_versionVars
-----------------------------------------------------------------------------
(***************************************************************************)
(* Properties                                                               *)
(***************************************************************************)
Copies(t) == {r \in rows : r.by = t}

\* Every listed version can be downloaded, whatever dies when; and whatever saves
\* race for a number, the numbers of a kind are 1, 2, ... without a gap.
VersionsAreWhole ==
  /\ \A r \in rows : r.stamp \in files
  /\ \A k \in Kinds : \A n \in Numbers(k) : \A m \in 1..n : m \in Numbers(k)

\* A document is saved twice only if a run of its save node broke off, by an exception
\* or a death, between the commit of its row and the node's checkpoint; and once more
\* at most for each time one did.
CopiesOnlyAfterTear == \A t \in Turns : Cardinality(Copies(t)) <= 1 + save[t].torn
=============================================================================
