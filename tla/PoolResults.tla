---------------------------- MODULE PoolResults ----------------------------
(***************************************************************************)
(* The results that flow from producers to the caller of produce           *)
(* (core/stream.go): a message or an error of a producer, named by its     *)
(* sender and its rank, or an error of the feeder (core/feed.go), which is *)
(* about one resource or about the resource stream itself.                 *)
(***************************************************************************)
EXTENDS Naturals

CONSTANTS
  Producer,     \* the resources the stream can yield, a producer for each
  Stream,       \* the origin of an error of the stream itself
  MaxMsgs,      \* bound: messages one producer sends
  MaxErrs,      \* bound: errors one producer sends
  NoItem        \* the caller's loop is waiting for a result

Msg(p, i) == [kind |-> "msg", from |-> p, n |-> i]
Err(p, i) == [kind |-> "err", from |-> p, n |-> i]
FeedErr(o) == [kind |-> "feed", from |-> o, n |-> 0]

Result ==
  [kind : {"msg"}, from : Producer, n : 1..MaxMsgs]
    \cup [kind : {"err"}, from : Producer, n : 1..MaxErrs]
    \cup [kind : {"feed"}, from : Producer \cup {Stream}, n : {0}]

\* A message can follow only the message before it, if there is one.
Follows(r, S) == r.kind # "msg" \/ r.n = 1 \/ Msg(r.from, r.n - 1) \in S

ASSUME ResultsAssumption ==
  /\ Stream \notin Producer
  /\ MaxMsgs \in Nat /\ MaxErrs \in Nat
  /\ NoItem \notin Result
=============================================================================
