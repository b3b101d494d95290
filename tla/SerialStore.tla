----------------------------- MODULE SerialStore ----------------------------
(***************************************************************************)
(* What the StateStore promises, with no overlay, revision or savepoint:   *)
(* a parse collects writes and reads in any way it likes, and then commits *)
(* in one step, or not at all.  A commit happens only for the newest       *)
(* revision begun of its document, only while every read the parse kept is *)
(* still the committed value, and only if every namespace stays within its *)
(* quota.  So the committed parses are serializable in commit order.       *)
(***************************************************************************)
EXTENDS StateData

VARIABLES
    docs,     \* committed document-scope contents
    shared,   \* committed project and persistent-project contents
    latest,   \* newest revision begun of every document
    status,   \* life cycle of every parse
    pending,  \* the writes every parse would publish
    saw       \* the reads every parse depends on, with the values they saw

vars == <<docs, shared, latest, status, pending, saw>>

Writes == [RevKey -> [Key -> Cell]]
Reads  == SUBSET (RevKey \X Key \X Value)

Init ==
    /\ docs = [d \in Doc |-> [n \in Namespace |-> Empty]]
    /\ shared = [rk \in Global |-> Empty]
    /\ latest = [d \in Doc |-> 0]
    /\ status = [p \in Parse |-> "idle"]
    /\ pending = [p \in Parse |-> NoWrites]
    /\ saw = [p \in Parse |-> {}]

Begin(p) ==
    /\ status[p] = "idle"
    /\ status' = [status EXCEPT ![p] = "open"]
    /\ latest' = [latest EXCEPT ![p.doc] = IF @ > p.revision THEN @ ELSE p.revision]
    /\ UNCHANGED <<docs, shared, pending, saw>>

Work(p) ==
    /\ status[p] = "open"
    /\ \E w \in Writes, r \in Reads :
          /\ pending' = [pending EXCEPT ![p] = w]
          /\ saw' = [saw EXCEPT ![p] = r]
    /\ UNCHANGED <<docs, shared, latest, status>>

ReadsHold(p) == \A r \in saw[p] : At(docs, shared, p.doc, r[1])[r[2]] = r[3]

QuotaHolds(d, s) ==
    /\ \A doc \in Doc, n \in Namespace : Fits(d[doc][n])
    /\ \A rk \in Global : Fits(s[rk])

Commit(p) ==
    /\ status[p] = "open"
    /\ latest[p.doc] = p.revision
    /\ ReadsHold(p)
    /\ docs' = PatchDocument(docs, p.doc, pending[p])
    /\ shared' = PatchGlobal(shared, pending[p])
    /\ QuotaHolds(docs', shared')
    /\ status' = [status EXCEPT ![p] = "committed"]
    /\ UNCHANGED <<latest, pending, saw>>

Cancel(p) ==
    /\ status[p] = "open"
    /\ status' = [status EXCEPT ![p] = "cancelled"]
    /\ pending' = [pending EXCEPT ![p] = NoWrites]
    /\ UNCHANGED <<docs, shared, latest, saw>>

Next == \E p \in Parse : Begin(p) \/ Work(p) \/ Commit(p) \/ Cancel(p)

Spec == Init /\ [][Next]_vars
=============================================================================
