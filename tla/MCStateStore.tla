---------------------------- MODULE MCStateStore ----------------------------
(***************************************************************************)
(* Instances of StateStore for TLC.                                        *)
(***************************************************************************)
EXTENDS StateStore, TLC

CONSTANTS c1, c2, d1, d2

MCOwner   == [n \in Namespace |-> c1]
MCReaders == [n \in Namespace |-> {c2}]
MCWriters == [n \in Namespace |-> {}]
MCWeight  == [v \in Val |-> 1]

Rev1 == [doc |-> d1, revision |-> 1, id |-> 1]
Rev2 == [doc |-> d1, revision |-> 2, id |-> 1]
Peer == [doc |-> d2, revision |-> 1, id |-> 1]
CallBy(p, c, n) == [parse |-> p, component |-> c, id |-> n]

(* A parse with a savepoint, the next revision of its document, which      *)
(* makes no call, and a parse of another document: both documents write.   *)
MCParse == {Rev1, Rev2, Peer}
MCCall  == {CallBy(Rev1, c1, 1), CallBy(Peer, c1, 1)}
MCSlot  == {[parse |-> Rev1, id |-> 1]}

(* Several calls of one parse, and a parse of another document.            *)
MCPair   == {Rev1, Peer}
MCCalls  == {CallBy(Rev1, c1, 1), CallBy(Rev1, c1, 2), CallBy(Peer, c1, 1)}

KeySymmetry == Permutations(Key)
=============================================================================
