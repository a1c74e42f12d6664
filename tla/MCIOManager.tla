----------------------------- MODULE MCIOManager -----------------------------
(* Instances of IOManager for TLC. *)
EXTENDS IOManager

CONSTANTS s1, s2, s3

ThreeSockets == {s1, s2, s3}
Polled       == {"IDLE", "BUFFERING"}
InHandlers   == {"handler"}
Never        == {}
NeverRead    == {FALSE}

\* A ready socket is served in the end, although a pass can skip it. Sockets are
\* interchangeable, in the initial state, in every action and in the fairness, so
\* what holds of one holds of all.
Served == Serves(s1)
==============================================================================
