---------------------------- MODULE TraceLedger ----------------------------
(***************************************************************************)
(* What the trace of a ticket promises to its readers: rows are only ever  *)
(* appended, one at a time, numbered 1, 2, 3, ...                          *)
(* (contracts/trace-emitter-contract.md: a monotonic counter within the    *)
(* work item, append-only).  The web app's server actions and the desktop  *)
(* runtime write the same table, each in its own way; both are shown to    *)
(* implement this.  What a row says besides its number is left open.       *)
(***************************************************************************)
EXTENDS Integers

VARIABLE rows   \* records with a field seq

Numbers == {r.seq : r \in rows}

Highest == IF rows = {} THEN 0
           ELSE CHOOSE n \in Numbers : \A m \in Numbers : m <= n

Init == rows = {}

Append == \E row \in rows' \ rows : /\ row.seq = Highest + 1
                                    /\ rows' = rows \union {row}

Spec == Init /\ [][Append]_rows

=============================================================================
