---------------------------- MODULE MatchLedger ----------------------------
(***************************************************************************)
(* What the ingest pipeline promises the readers of one match, as          *)
(* docs/how-it-works.md and the docstrings of workers/ingest_worker.py and *)
(* store/repo.py put it: an append-only history, and a document that is    *)
(* each time rebuilt from the whole of it.                                 *)
(*                                                                         *)
(* Ingest implements this specification while one process at a time writes *)
(* the match (OneWriterSpec; see IngestProofs).                            *)
(***************************************************************************)
CONSTANTS
    Entry,      \* what a history may hold
    Blank       \* no document has been written yet

VARIABLES
    history,    \* the entries recorded so far
    document    \* Blank, or the entries the document was rebuilt from

ledgerVars == <<history, document>>

Init ==
    /\ history = {}
    /\ document = Blank

\* Entries are only ever added.
Enter ==
    /\ \E new \in SUBSET (Entry \ history) : history' = history \cup new
    /\ UNCHANGED document

\* The document is rebuilt from everything that has been recorded.
Rebuild ==
    /\ document' = history
    /\ UNCHANGED history

Next == Enter \/ Rebuild

Spec == Init /\ [][Next]_ledgerVars

=============================================================================
