----------------------------- MODULE MCUICache -----------------------------
(* Small instances of UICache.  The code has RoundPeriod = 2 * TTL; most models *)
(* take 3 for TTL 1, so that rounding goes both down and up.                    *)
EXTENDS UICache

CONSTANTS r1, r2, u1

MCRecord == {r1, r2}
OneRecord == {r1}
NoRecord == {}
MCUser == {u1}

\* Every report is of the last month.
MCSelection == {Everything, Last30, ThisMonth}
MCMatching == [sel \in MCSelection |-> Record]

\* Users ask for the default dashboard, or with a zero "from" for everything.
DefaultOnly == {Last30}
AllOnly == {Everything}
NoExplicitTo == {}
ZeroTo == {Unbounded}

\* What clients claim as their time.  A stamp of 3 is of a clock ahead if its report
\* commits at 2, and of one behind if at 4; a stamp of 4 is past the rounded clock.
Three == {3}
Four == {4}

NoFaults == {}
CacheFaults == {"evict", "drop", "error"}
TruncatingFaults == {"truncate"}
=============================================================================
