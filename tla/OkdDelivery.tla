----------------------------- MODULE OkdDelivery -----------------------------
(***************************************************************************)
(* What okd promises of the connections to one service: each is answered   *)
(* with an error, dropped, or handed to one service process, once; those   *)
(* that must wait do so in one line, of bounded length, and leave it in    *)
(* the order in which they came.  A handed connection is served or, when   *)
(* the process dies, dropped together with the others that process had.    *)
(***************************************************************************)
EXTENDS Integers, Sequences

CONSTANTS Con, QueueMax

VARIABLES
  fate,   \* open, waiting, handed, served, refused or dropped
  line    \* the waiting connections, oldest first

dvars == <<fate, line>>

DInit ==
  /\ fate = [x \in Con |-> "open"]
  /\ line = << >>

Fates(S, f) == [x \in Con |-> IF x \in S THEN f ELSE fate[x]]

\* x is open, or has waited longest: it is next.
Takes(x) ==
  \/ fate[x] = "open" /\ UNCHANGED line
  \/ line # << >> /\ x = Head(line) /\ line' = Tail(line)

Wait(x) ==
  /\ fate[x] = "open"
  /\ Len(line) < QueueMax
  /\ line' = Append(line, x)
  /\ fate' = Fates({x}, "waiting")

Refuse(x) ==
  /\ fate[x] = "open"
  /\ fate' = Fates({x}, "refused")
  /\ UNCHANGED line

Hand(x) ==
  /\ Takes(x)
  /\ fate' = Fates({x}, "handed")

Serve(x) ==
  /\ fate[x] = "handed"
  /\ fate' = Fates({x}, "served")
  /\ UNCHANGED line

\* Connections handed over before, and at most one more that was about to be.
Drop(S) ==
  /\ fate' = Fates(S, "dropped")
  /\ \/ (\A y \in S : fate[y] = "handed") /\ UNCHANGED line
     \/ \E x \in S : Takes(x) /\ \A y \in S \ {x} : fate[y] = "handed"

DNext ==
  \/ \E x \in Con : Wait(x) \/ Refuse(x) \/ Hand(x) \/ Serve(x)
  \/ \E S \in SUBSET Con : Drop(S)

DSpec == DInit /\ [][DNext]_dvars
==============================================================================
