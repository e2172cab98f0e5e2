------------------------------ MODULE PageState ------------------------------
(***************************************************************************)
(* The state of the page that is open.  v1, v2 ... stand for its variables *)
(* in the order its module declares them, and the ones it has no use for   *)
(* are None.  A page shares no state with another but what the server      *)
(* keeps, which each module has of its own.                                *)
(***************************************************************************)
EXTENDS Integers, Sequences

CONSTANTS None, Asked, Clarification, Context

VARIABLES page, v1, v2, v3, v4, v5, v6, v7, v8, v9, v10, v11, v12, v13, v14, v15, v16, v17, v18,
          v19

vars == <<page, v1, v2, v3, v4, v5, v6, v7, v8, v9, v10, v11, v12, v13, v14, v15, v16, v17, v18,
        v19>>

\* A step of page p, which stays open.
At(p) == page = p /\ UNCHANGED page

\* The variables the page has no use for, at first and then.
Free19 == v19 = None
Free18 == v18 = None /\ Free19
Free17 == v17 = None /\ Free18
Free16 == v16 = None /\ Free17
Free15 == v15 = None /\ Free16
Free14 == v14 = None /\ Free15
Free13 == v13 = None /\ Free14
Free12 == v12 = None /\ Free13
Free11 == v11 = None /\ Free12
Free10 == v10 = None /\ Free11
Free9 == v9 = None /\ Free10
Free8 == v8 = None /\ Free9
Free7 == v7 = None /\ Free8
Free6 == v6 = None /\ Free7
Free5 == v5 = None /\ Free6

Kept19 == UNCHANGED v19
Kept18 == UNCHANGED v18 /\ Kept19
Kept17 == UNCHANGED v17 /\ Kept18
Kept16 == UNCHANGED v16 /\ Kept17
Kept15 == UNCHANGED v15 /\ Kept16
Kept14 == UNCHANGED v14 /\ Kept15
Kept13 == UNCHANGED v13 /\ Kept14
Kept12 == UNCHANGED v12 /\ Kept13
Kept11 == UNCHANGED v11 /\ Kept12
Kept10 == UNCHANGED v10 /\ Kept11
Kept9 == UNCHANGED v9 /\ Kept10
Kept8 == UNCHANGED v8 /\ Kept9
Kept7 == UNCHANGED v7 /\ Kept8
Kept6 == UNCHANGED v6 /\ Kept7
Kept5 == UNCHANGED v5 /\ Kept6
=============================================================================
