-------------------------- MODULE MCCandidateDeltas --------------------------
(***************************************************************************)
(* Instances of CandidateDeltas for TLC: one parse that works with         *)
(* candidates, and a parse of another document that writes.                *)
(***************************************************************************)
EXTENDS CandidateDeltas, MCStateStore

CandidateCalls == {CallBy(Rev1, c1, 1), CallBy(Rev1, c1, 2), CallBy(Peer, c1, 1)}
OneParseCalls  == {CallBy(Rev1, c1, 1), CallBy(Rev1, c1, 2)}
OneParse == {Rev1}
NoSlot == {}

(* A bound: a call reads or writes once.                                   *)
OneAccess ==
    \A c \in Call : call'[c] # call[c] /\ call'[c].state = "live" /\ call[c].state = "live"
        => call[c].observed = NoRevs

(* The pieces of a list; a candidate of a piece may hold another one of    *)
(* the same text.                                                          *)
Pieces   == {{1}, {2}}
OnePiece == {{1}}

(* The pieces are alike: the first one deferred is called the first.       *)
PiecesInOrder ==
    \A p \in Parse : deltas'[p] # <<>> => Head(deltas'[p]).text = {1}

(* A bound: the other parse has no candidates, and has written before Rev1 *)
(* begins; what is left of it is its commit.                               *)
PeerFirst ==
    /\ stack'[Peer] = <<>> /\ status'[Peer] # "cancelled"
    /\ status'[Rev1] # "idle" => Touched(frame[Peer].writes) # {}
=============================================================================
