------------------------------ MODULE Connection ------------------------------
(***************************************************************************)
(* What a libnetworkd stream socket promises the program that uses it,     *)
(* with no buffer, no poll and no kernel: a connection opens at most once, *)
(* bytes reach the wire in the order they were offered and only while it   *)
(* is open or being flushed, an orderly end of a flush means that all of   *)
(* them did, and an ended connection stays ended.                          *)
(***************************************************************************)
EXTENDS Naturals

VARIABLES phase,    \* "new", "opening", "open", "closing" or "over"
          offered,  \* bytes passed to send() so far
          sent      \* bytes on the wire: the first `sent' of those offered

vars == <<phase, offered, sent>>

Init == phase = "new" /\ offered = 0 /\ sent = 0

Start  == phase = "new" /\ phase' \in {"opening", "open"} /\ UNCHANGED <<offered, sent>>
Opened == phase = "opening" /\ phase' = "open" /\ UNCHANGED <<offered, sent>>

\* send(): any part of the new bytes may go straight to the wire.
Offer ==
  /\ phase \in {"opening", "open"}
  /\ offered' \in Nat /\ sent' \in Nat
  /\ offered' > offered /\ sent' >= sent /\ sent' <= offered'
  /\ phase = "opening" => sent' = sent
  /\ UNCHANGED phase

\* Buffered bytes reach the wire.
Transfer ==
  /\ phase \in {"open", "closing"}
  /\ sent' \in Nat /\ sent' > sent /\ sent' <= offered
  /\ UNCHANGED <<phase, offered>>

\* close(): what is buffered is flushed first.
Shut == phase = "open" /\ sent < offered /\ phase' = "closing" /\ UNCHANGED <<offered, sent>>

\* The last buffered byte reaches the wire and the connection is over.
Flush == phase = "closing" /\ phase' = "over" /\ sent' = offered /\ UNCHANGED offered

\* A loss, or a close with nothing to flush or without a flush.
End == phase # "over" /\ phase' = "over" /\ UNCHANGED <<offered, sent>>

Next == Start \/ Opened \/ Offer \/ Transfer \/ Shut \/ Flush \/ End

Safe == Init /\ [][Next]_vars

\* A connection attempt and a flush come to an end.
Resolves == phase = "opening" ~> phase # "opening"
Closes   == phase = "closing" ~> phase = "over"
Live     == Resolves /\ Closes

Spec == Safe /\ Live
===============================================================================
