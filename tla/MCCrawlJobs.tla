---------------------------- MODULE MCCrawlJobs ----------------------------
(***************************************************************************)
(* Values of the constants of CrawlJobs for TLC.                           *)
(***************************************************************************)
EXTENDS CrawlJobs, TLC

CONSTANTS u1, u2, u3, p1, p2, p3, p4, c1, c2

\* The first user has two projects; the others have one each.
MCOwner == [p \in Projects |-> CASE p \in {p1, p2} -> u1
                                 [] p = p3 -> u2
                                 [] p = p4 -> u3]

\* The threads are alike, and so are the projects of u1.
JobSymmetry == Permutations(Crawls) \cup Permutations({p1, p2})
=============================================================================
