--------------------------- MODULE MCCorrespondence ---------------------------
(* Instances of Correspondence for TLC. *)
EXTENDS Correspondence, TLC

CONSTANTS d1, d2, f1, f2, ann, par, s1, s2

Interchangeable == Permutations(Docs) \cup Permutations(Files) \cup Permutations(Sessions)

\* Letters share nothing but the counters.  So there is one letter with its
\* attachments, or there are two without, on their way to a number; once handlers
\* overlapped, letters are of one author and in the register's hands, there is one
\* file at most, and handlers of two letters all take numbers.
Plain(r) == r.resp = ann /\ ~r.archived
OnTheWay(r) == Plain(r) /\ r.status \in Unregistered \cup {"awaiting_signature", "progress"}
Running == {session[s] : s \in {t \in Sessions : session[t] # None}}
SmallOffice ==
  \/ /\ Cardinality(born) <= 1
     /\ overlapped =>
          /\ Cardinality(used) <= 1
          /\ \A d \in Docs : row[d] # None => Plain(row[d])
          /\ \A p \in Running : Plain(p.tgt)
  \/ /\ used = {} /\ \A d \in Docs : row[d] # None => OnTheWay(row[d])
     /\ overlapped => \A p \in Running : p.asks \/ Numbered(p)
=============================================================================
