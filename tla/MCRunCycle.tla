----------------------------- MODULE MCRunCycle -----------------------------
(***************************************************************************)
(* Instances of RunCycle.  Job j1 is listed by source a, which sees        *)
(* everything, as a1 and after a repost as ax, and by source b, which sees *)
(* a window, as b1.                                                        *)
(***************************************************************************)
EXTENDS RunCycle

CONSTANTS serve, cli, a, b, j1, a1, ax, b1

JobOfAll == [p \in Postings |-> j1]
SourceOfAll == [p \in Postings |-> IF p = b1 THEN b ELSE a]
PostedOnAll == [p \in Postings |-> IF p = b1 THEN 0 ELSE NoDate]

RankAll == [s \in Sources |-> IF s = a THEN 1 ELSE 2]
CoverageAll == [s \in Sources |-> IF s = a THEN {"exhaustive"} ELSE {"windowed"}]
=============================================================================
